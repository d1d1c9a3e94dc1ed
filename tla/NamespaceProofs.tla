-------------------------- MODULE NamespaceProofs --------------------------
(***************************************************************************)
(* The directory tree of Namespace is a tree, and identities in it are      *)
(* unique, for every set of names and entries and every depth of paths.      *)
(* The two invariants are proved together with TypeOK: IInv is inductive.    *)
(***************************************************************************)
EXTENDS Namespace, Induction, SequenceTheorems, TLAPS

IInv == TypeOK /\ Linked /\ OneParent /\ NoCycle /\ UniqueIdentity

----------------------------------------------------------------------------
(* Paths.                                                                   *)

\* A path of the model is a sequence of names.
LEMMA PathIsSeq == Path \subseteq Seq(Name)
  BY NamespaceAssumption, SeqDef DEF Path

\* When the walk of splitPath's components reaches the parent of p, the
\* parent is a directory of the heap and the last component is a name.
LEMMA ParentFacts ==
  ASSUME TypeOK, NEW p \in Path, ParentFound(p)
  PROVE  /\ Parent(p) \in Entry
         /\ kind[Parent(p)] = "dir"
         /\ Last(p) \in Name
         /\ Len(p) \in Nat \ {0}
<1>1. p \in Seq(Name) /\ Len(p) \in Nat \ {0}
  BY PathIsSeq DEF ParentFound, IsWalk
<1>2. Last(p) \in Name
  BY <1>1 DEF Last
<1>3. (Len(p) - 1) \in 0..(Len(p) - 1)
  BY <1>1
<1>4. QED
  BY <1>1, <1>2, <1>3 DEF ParentFound, IsWalk, Parent

\* What mds.lookup returns is nil or the child that the parent really has.
LEMMA LookupFacts ==
  ASSUME TypeOK, Linked, NEW p \in Path, lookup(p) # Nil
  PROVE  /\ ParentFound(p)
         /\ lookup(p) = children[Parent(p)][Last(p)]
         /\ lookup(p) \in Entry
         /\ kind[lookup(p)] # "free"
         /\ lookup(p) # Root
<1>1. ParentFound(p) /\ lookup(p) = children[Parent(p)][Last(p)]
  BY DEF lookup
<1>2. Parent(p) \in Entry /\ Last(p) \in Name
  BY <1>1, ParentFacts
<1>3. QED
  BY <1>1, <1>2 DEF TypeOK, Linked

----------------------------------------------------------------------------
(* Acyclic functions from entries to their children.                        *)

Heap == [Entry -> [Name -> Entry \cup {Nil}]]

Acyclic(c) ==
  \A S \in SUBSET Entry :
    S # {} => \E e \in S : \A d \in S, n \in Name : c[d][n] # e

\* Taking children away leaves an acyclic heap acyclic.
LEMMA AcyclicRemove ==
  ASSUME NEW c \in Heap, NEW c2 \in Heap, Acyclic(c),
         \A d \in Entry, n \in Name : c2[d][n] \in {c[d][n], Nil}
  PROVE  Acyclic(c2)
<1>1. SUFFICES ASSUME NEW S \in SUBSET Entry, S # {}
               PROVE  \E e \in S : \A d \in S, n \in Name : c2[d][n] # e
  BY DEF Acyclic
<1>2. PICK e \in S : \A d \in S, n \in Name : c[d][n] # e
  BY <1>1 DEF Acyclic
<1>3. \A d \in S, n \in Name : c2[d][n] # e
  BY <1>2, NamespaceAssumption
<1>4. QED
  BY <1>3

\* Attaching a childless entry leaves an acyclic heap acyclic.
LEMMA AcyclicAddLeaf ==
  ASSUME NEW c \in Heap, NEW c2 \in Heap, NEW x \in Entry, Acyclic(c),
         \A n \in Name : c2[x][n] = Nil,
         \A d \in Entry, n \in Name : c2[d][n] \in {c[d][n], x}
  PROVE  Acyclic(c2)
<1>1. SUFFICES ASSUME NEW S \in SUBSET Entry, S # {}
               PROVE  \E e \in S : \A d \in S, n \in Name : c2[d][n] # e
  BY DEF Acyclic
<1>2. CASE S = {x}
  BY <1>2, NamespaceAssumption
<1>3. CASE S # {x}
  <2>1. S \ {x} # {}
    BY <1>1, <1>3
  <2>2. PICK e \in S \ {x} : \A d \in S \ {x}, n \in Name : c[d][n] # e
    BY <2>1 DEF Acyclic
  <2>3. ASSUME NEW d \in S, NEW n \in Name
        PROVE  c2[d][n] # e
    <3>1. CASE d = x
      BY <3>1, NamespaceAssumption
    <3>2. CASE d # x
      <4>1. c[d][n] # e
        BY <2>2, <3>2
      <4>2. c2[d][n] \in {c[d][n], x}
        OBVIOUS
      <4>3. QED
        BY <4>1, <4>2
    <3>3. QED
      BY <3>1, <3>2
  <2>4. QED
    BY <2>3
<1>4. QED
  BY <1>2, <1>3

\* Hanging x below an entry q is safe when q lies in a set A that is closed
\* under parents (the ancestors of q) and x is not in it.
LEMMA AcyclicAttach ==
  ASSUME NEW c \in Heap, NEW c2 \in Heap, NEW x \in Entry, NEW q \in Entry, Acyclic(c),
         \A d \in Entry, n \in Name :
           c2[d][n] \in {c[d][n], Nil} \/ (d = q /\ c2[d][n] = x),
         NEW A \in SUBSET Entry, q \in A, x \notin A,
         \A d \in Entry, n \in Name : c[d][n] \in A => d \in A
  PROVE  Acyclic(c2)
<1>1. SUFFICES ASSUME NEW S \in SUBSET Entry, S # {}
               PROVE  \E e \in S : \A d \in S, n \in Name : c2[d][n] # e
  BY DEF Acyclic
<1>2. CASE S \cap A # {}
  <2>1. PICK e \in S \cap A : \A d \in S \cap A, n \in Name : c[d][n] # e
    BY <1>2 DEF Acyclic
  <2>2. \A d \in S, n \in Name : c[d][n] # e
    BY <2>1
  <2>3. \A d \in S, n \in Name : c2[d][n] # e
    BY <2>1, <2>2, NamespaceAssumption
  <2>4. QED
    BY <2>1, <2>3
<1>3. CASE S \cap A = {}
  <2>1. PICK e \in S : \A d \in S, n \in Name : c[d][n] # e
    BY <1>1 DEF Acyclic
  <2>2. q \notin S
    BY <1>3
  <2>3. \A d \in S, n \in Name : c2[d][n] # e
    BY <2>1, <2>2, NamespaceAssumption
  <2>4. QED
    BY <2>3
<1>4. QED
  BY <1>2, <1>3

----------------------------------------------------------------------------
(* The heap after a command, entry by entry.                                *)

\* A new entry e is hung at path p (applyMkdir, applyCreateFile).
LEMMA Allocated ==
  ASSUME IInv, NEW p \in Path, NEW e \in Entry, ParentFound(p), Fresh(e),
         children' = [children EXCEPT ![Parent(p)][Last(p)] = e]
  PROVE  /\ children' \in Heap
         /\ e # Root /\ e # Parent(p)
         /\ \A d \in Entry, n \in Name :
              /\ children'[d][n] = IF d = Parent(p) /\ n = Last(p)
                                   THEN e ELSE children[d][n]
              /\ children[d][n] # e
         /\ \A n \in Name : children'[e][n] = Nil
         /\ NoCycle'
<1> DEFINE P == Parent(p)
           l == Last(p)
<1>1. P \in Entry /\ kind[P] = "dir" /\ l \in Name
  BY ParentFacts DEF IInv
<1>2. TypeOK /\ Linked /\ NoCycle /\ kind[e] = "free"
  BY DEF IInv, Fresh
<1> HIDE DEF P, l
<1>3. children' = [children EXCEPT ![P][l] = e]
  BY DEF P, l
<1>4. \A d \in Entry, n \in Name :
        children'[d][n] = IF d = P /\ n = l THEN e ELSE children[d][n]
  BY <1>1, <1>2, <1>3 DEF TypeOK
<1>5. children' \in Heap
  <2>1. children' = [children EXCEPT ![P] = [children[P] EXCEPT ![l] = e]]
    BY <1>3
  <2>2. [children[P] EXCEPT ![l] = e] \in [Name -> Entry \cup {Nil}]
    BY <1>1, <1>2 DEF TypeOK
  <2>3. QED
    BY <1>1, <1>2, <2>1, <2>2 DEF TypeOK, Heap
<1>6. e # Root /\ e # P
  BY <1>1, <1>2 DEF Linked
<1>7. \A n \in Name : children[e][n] = Nil
  BY <1>2 DEF Linked
<1>8. \A d \in Entry, n \in Name : children[d][n] # e
  BY <1>2, NamespaceAssumption DEF Linked
<1>9. \A n \in Name : children'[e][n] = Nil
  BY <1>4, <1>6, <1>7
<1>10. Acyclic(children')
  <2>1. children \in Heap /\ Acyclic(children)
    BY <1>2 DEF TypeOK, Heap, NoCycle, Acyclic
  <2>2. \A d \in Entry, n \in Name : children'[d][n] \in {children[d][n], e}
    BY <1>4
  <2>3. QED
    BY <1>5, <1>9, <2>1, <2>2, AcyclicAddLeaf, ZenonT(60)
<1>11. QED
  BY <1>4, <1>5, <1>6, <1>8, <1>9, <1>10 DEF NoCycle, Acyclic, P, l

\* The tree and the identities after a new entry e, hung at p, was given a
\* kind and a FileID: a new one, or the one of the file it replaces.
LEMMA AllocatedInv ==
  ASSUME IInv, NEW p \in Path, NEW e \in Entry, NEW k \in {"dir", "file"},
         ParentFound(p), Fresh(e),
         kind' = [kind EXCEPT ![e] = k],
         fileID' = [fileID EXCEPT ![e] =
                      IF lookup(p) = Nil THEN e ELSE fileID[lookup(p)]],
         children' = [children EXCEPT ![Parent(p)][Last(p)] = e]
  PROVE  Linked' /\ OneParent' /\ UniqueIdentity'
<1> DEFINE P == Parent(p)
           l == Last(p)
           old == children[P][l]
           id == IF old = Nil THEN e ELSE fileID[old]
<1>1. P \in Entry /\ kind[P] = "dir" /\ l \in Name
  BY ParentFacts DEF IInv
<1>2. /\ TypeOK /\ Linked /\ OneParent /\ UniqueIdentity
      /\ kind[e] = "free" /\ lookup(p) = old
  BY DEF IInv, Fresh, lookup
<1>3. /\ e # Root /\ e # P
      /\ \A d \in Entry, n \in Name :
           /\ children'[d][n] = IF d = P /\ n = l THEN e ELSE children[d][n]
           /\ children[d][n] # e
      /\ \A n \in Name : children'[e][n] = Nil
  BY Allocated
<1>4. fileID' = [fileID EXCEPT ![e] = id]
  BY <1>2
<1>5. old # Nil => old \in Entry /\ old # Root /\ kind[old] # "free"
  BY <1>1, <1>2 DEF TypeOK, Linked
<1> HIDE DEF P, l, old, id
<1>6. \A x \in Entry : /\ kind'[x] = IF x = e THEN k ELSE kind[x]
                       /\ fileID'[x] = IF x = e THEN id ELSE fileID[x]
  BY <1>2, <1>4 DEF TypeOK
<1>7. Linked'
  <2>1. kind'[Root] = "dir"
    BY <1>2, <1>3, <1>6, NamespaceAssumption DEF Linked
  <2>2. ASSUME NEW d \in Entry, NEW n \in Name, children'[d][n] # Nil
        PROVE  /\ kind'[d] = "dir"
               /\ kind'[children'[d][n]] # "free"
               /\ children'[d][n] # Root
    <3>1. CASE d = P /\ n = l
      BY <3>1, <1>1, <1>3, <1>6
    <3>2. CASE ~(d = P /\ n = l)
      <4>1. children'[d][n] = children[d][n] /\ children[d][n] \in Entry
        BY <2>2, <3>2, <1>2, <1>3 DEF TypeOK
      <4>2. d # e
        BY <2>2, <1>3
      <4>3. QED
        BY <2>2, <4>1, <4>2, <1>2, <1>3, <1>6 DEF Linked
    <3>3. QED
      BY <3>1, <3>2
  <2>3. QED
    BY <2>1, <2>2 DEF Linked
<1>8. OneParent'
  BY <1>2, <1>3 DEF OneParent
<1>9. UniqueIdentity'
  <2>1. /\ id \in Entry
        /\ kind'[id] # "free"
        /\ \A d \in Entry, n \in Name :
             children[d][n] # Nil /\ fileID[children[d][n]] = id
               => d = P /\ n = l
    <3>1. CASE old = Nil
      <4>1. id = e
        BY <3>1 DEF id
      <4>2. \A d \in Entry, n \in Name :
              children[d][n] # Nil => /\ children[d][n] \in Entry
                                      /\ children[d][n] # Root
                                      /\ kind[children[d][n]] # "free"
        BY <1>2 DEF TypeOK, Linked
      <4>3. \A d \in Entry, n \in Name :
              children[d][n] # Nil => fileID[children[d][n]] # e
        BY <4>2, <1>2 DEF UniqueIdentity
      <4>4. QED
        BY <4>1, <4>3, <1>6
    <3>2. CASE old # Nil
      <4>1. id = fileID[old]
        BY <3>2 DEF id
      <4>2. id \in Entry /\ kind[id] # "free"
        BY <4>1, <3>2, <1>2, <1>5 DEF UniqueIdentity
      <4>3. \A d \in Entry, n \in Name :
              children[d][n] # Nil /\ fileID[children[d][n]] = id
                => d = P /\ n = l
        BY <4>1, <3>2, <1>1, <1>2 DEF UniqueIdentity, old
      <4>4. QED
        BY <4>2, <4>3, <1>6
    <3>3. QED
      BY <3>1, <3>2
  <2>2. ASSUME NEW d1 \in Entry, NEW d2 \in Entry, NEW n1 \in Name, NEW n2 \in Name,
               children'[d1][n1] # Nil, children'[d2][n2] # Nil,
               fileID'[children'[d1][n1]] = fileID'[children'[d2][n2]]
        PROVE  d1 = d2 /\ n1 = n2
    <3>1. ASSUME NEW d \in Entry, NEW n \in Name, children'[d][n] # Nil,
                 ~(d = P /\ n = l)
          PROVE  /\ children'[d][n] = children[d][n]
                 /\ fileID'[children'[d][n]] = fileID[children[d][n]]
                 /\ fileID[children[d][n]] # id
      <4>1. children'[d][n] = children[d][n] /\ children[d][n] \in Entry
        BY <3>1, <1>2, <1>3 DEF TypeOK
      <4>2. fileID'[children'[d][n]] = fileID[children[d][n]]
        BY <4>1, <1>3, <1>6
      <4>3. QED
        BY <2>1, <3>1, <4>1, <4>2
    <3>2. \A d \in Entry, n \in Name :
            d = P /\ n = l => fileID'[children'[d][n]] = id
      BY <1>3, <1>6
    <3>3. CASE d1 = P /\ n1 = l
      BY <2>2, <3>1, <3>2, <3>3
    <3>4. CASE d2 = P /\ n2 = l
      BY <2>2, <3>1, <3>2, <3>4
    <3>5. CASE ~(d1 = P /\ n1 = l) /\ ~(d2 = P /\ n2 = l)
      <4>1. /\ children[d1][n1] # Nil /\ children[d2][n2] # Nil
            /\ fileID[children[d1][n1]] = fileID[children[d2][n2]]
        BY <2>2, <3>1, <3>5
      <4>2. QED
        BY <4>1, <1>2 DEF UniqueIdentity
    <3>6. QED
      BY <3>3, <3>4, <3>5
  <2>3. ASSUME NEW x \in Entry, kind'[x] # "free", x # Root
        PROVE  fileID'[x] \in Entry /\ kind'[fileID'[x]] # "free"
    <3>1. CASE x = e
      BY <3>1, <2>1, <1>6
    <3>2. CASE x # e
      <4>1. fileID[x] \in Entry /\ kind[fileID[x]] # "free"
        BY <2>3, <3>2, <1>2, <1>6 DEF UniqueIdentity
      <4>2. QED
        BY <4>1, <3>2, <1>6
    <3>3. QED
      BY <3>1, <3>2
  <2>4. QED
    BY <2>2, <2>3 DEF UniqueIdentity
<1>10. QED
  BY <1>7, <1>8, <1>9

\* The entry at path p is detached (applyDelete).
LEMMA DetachedInv ==
  ASSUME IInv, NEW p \in Path, applyDelete(p)
  PROVE  IInv'
<1> DEFINE P == Parent(p)
           l == Last(p)
<1>1. P \in Entry /\ l \in Name
  BY ParentFacts, LookupFacts DEF IInv, applyDelete
<1>2. /\ TypeOK /\ Linked /\ OneParent /\ NoCycle /\ UniqueIdentity
      /\ children' = [children EXCEPT ![P][l] = Nil]
      /\ kind' = kind /\ fileID' = fileID /\ status' = status
      /\ size' = size /\ replicas' = replicas
  BY DEF IInv, applyDelete, data
<1> HIDE DEF P, l
<1>3. \A d \in Entry, n \in Name :
        children'[d][n] = IF d = P /\ n = l THEN Nil ELSE children[d][n]
  BY <1>1, <1>2 DEF TypeOK
<1>4. children' \in Heap
  <2>1. children' = [children EXCEPT ![P] = [children[P] EXCEPT ![l] = Nil]]
    BY <1>2
  <2>2. [children[P] EXCEPT ![l] = Nil] \in [Name -> Entry \cup {Nil}]
    BY <1>1, <1>2 DEF TypeOK
  <2>3. QED
    BY <1>1, <1>2, <2>1, <2>2 DEF TypeOK, Heap
<1>5. TypeOK'
  BY <1>2, <1>4 DEF TypeOK, Heap
<1>6. Linked'
  BY <1>2, <1>3 DEF Linked
<1>7. OneParent'
  BY <1>2, <1>3 DEF OneParent
<1>8. NoCycle'
  <2>1. children \in Heap /\ Acyclic(children)
    BY <1>2 DEF TypeOK, Heap, NoCycle, Acyclic
  <2>2. \A d \in Entry, n \in Name : children'[d][n] \in {children[d][n], Nil}
    BY <1>3
  <2>3. Acyclic(children')
    BY <1>4, <2>1, <2>2, AcyclicRemove
  <2>4. QED
    BY <2>3 DEF NoCycle, Acyclic
<1>9. UniqueIdentity'
  BY <1>2, <1>3 DEF UniqueIdentity
<1>10. QED
  BY <1>5, <1>6, <1>7, <1>8, <1>9 DEF IInv

\* The entries on the walk to the parent of p are closed under parents.
LEMMA WalkClosed ==
  ASSUME TypeOK, Linked, OneParent, NEW p \in Path, ParentFound(p),
         NEW i \in 0..(Len(p) - 1), NEW d \in Entry, NEW n \in Name,
         children[d][n] = Walk(p)[i]
  PROVE  \E j \in 0..(Len(p) - 1) : d = Walk(p)[j]
<1>1. Len(p) \in Nat \ {0} /\ p \in Seq(Name)
  BY ParentFacts, PathIsSeq
<1>2. /\ Walk(p)[0] = Root
      /\ \A j \in 0..(Len(p) - 1) : Walk(p)[j] \in Entry
      /\ \A j \in 1..(Len(p) - 1) : Walk(p)[j] = children[Walk(p)[j - 1]][p[j]]
  BY DEF ParentFound, IsWalk
<1>3. children[d][n] \in Entry /\ children[d][n] # Nil
  BY <1>2, NamespaceAssumption
<1>4. i # 0
  BY <1>2, <1>3 DEF Linked
<1>5. i \in 1..(Len(p) - 1) /\ (i - 1) \in 0..(Len(p) - 1) /\ p[i] \in Name
  BY <1>1, <1>4
<1>6. children[d][n] = children[Walk(p)[i - 1]][p[i]] /\ Walk(p)[i - 1] \in Entry
  BY <1>2, <1>5
<1>7. d = Walk(p)[i - 1]
  BY <1>3, <1>5, <1>6 DEF OneParent
<1>8. QED
  BY <1>5, <1>7

\* An entry is moved (applyRename).
LEMMA RenamedInv ==
  ASSUME IInv, NEW src \in Path, NEW dst \in Path, applyRename(src, dst)
  PROVE  IInv'
<1> DEFINE e == lookup(src)
           Ps == Parent(src)
           ls == Last(src)
           Pd == Parent(dst)
           ld == Last(dst)
           A == {Walk(dst)[i] : i \in 0..(Len(dst) - 1)}
<1>1. TypeOK /\ Linked /\ OneParent /\ NoCycle /\ UniqueIdentity
  BY DEF IInv
<1>2. /\ e # Nil /\ ParentFound(dst) /\ ~IsAncestorOf(e, dst)
      /\ children' = [children EXCEPT ![Ps][ls] = Nil, ![Pd][ld] = e]
      /\ kind' = kind /\ fileID' = fileID /\ status' = status
      /\ size' = size /\ replicas' = replicas
  BY DEF applyRename, data
<1>3. /\ Ps \in Entry /\ ls \in Name /\ e = children[Ps][ls]
      /\ e \in Entry /\ e # Root /\ kind[e] # "free"
  BY <1>1, <1>2, LookupFacts, ParentFacts
<1>4. Pd \in Entry /\ kind[Pd] = "dir" /\ ld \in Name /\ Len(dst) \in Nat \ {0}
  BY <1>1, <1>2, ParentFacts
<1>5. A \in SUBSET Entry /\ Pd \in A /\ e \notin A
  <2>1. \A i \in 0..(Len(dst) - 1) :
          Walk(dst)[i] \in Entry /\ kind[Walk(dst)[i]] = "dir"
    BY <1>2 DEF ParentFound, IsWalk
  <2>2. (Len(dst) - 1) \in 0..(Len(dst) - 1)
    BY <1>4
  <2>3. Pd = Walk(dst)[Len(dst) - 1]
    BY DEF Parent
  <2>4. e \notin A
    BY <1>2, <2>1 DEF IsAncestorOf
  <2>5. QED
    BY <2>1, <2>2, <2>3, <2>4
<1>6. \A d \in Entry, n \in Name : children[d][n] \in A => d \in A
  BY <1>1, <1>2, WalkClosed
<1> HIDE DEF e, Ps, ls, Pd, ld, A
<1>7. \A d \in Entry, n \in Name :
        children'[d][n] = IF d = Pd /\ n = ld THEN e
                          ELSE IF d = Ps /\ n = ls THEN Nil
                          ELSE children[d][n]
  BY <1>1, <1>2, <1>3, <1>4 DEF TypeOK
<1>8. children' \in Heap
  <2> DEFINE c == [children EXCEPT ![Ps] = [children[Ps] EXCEPT ![ls] = Nil]]
  <2>1. [children[Ps] EXCEPT ![ls] = Nil] \in [Name -> Entry \cup {Nil}]
    BY <1>1, <1>3 DEF TypeOK
  <2>2. c \in Heap
    BY <1>1, <1>3, <2>1 DEF TypeOK, Heap
  <2>3. children' = [c EXCEPT ![Pd] = [c[Pd] EXCEPT ![ld] = e]]
    BY <1>2
  <2> HIDE DEF c
  <2>4. [c[Pd] EXCEPT ![ld] = e] \in [Name -> Entry \cup {Nil}]
    BY <1>3, <1>4, <2>2 DEF Heap
  <2>5. QED
    BY <1>4, <2>2, <2>3, <2>4 DEF Heap
<1>9. TypeOK'
  BY <1>1, <1>2, <1>8 DEF TypeOK, Heap
<1>10. Linked'
  <2>1. kind'[Root] = "dir"
    BY <1>1, <1>2 DEF Linked
  <2>2. ASSUME NEW d \in Entry, NEW n \in Name, children'[d][n] # Nil
        PROVE  /\ kind'[d] = "dir"
               /\ kind'[children'[d][n]] # "free"
               /\ children'[d][n] # Root
    <3>1. CASE d = Pd /\ n = ld
      BY <1>2, <1>3, <1>4, <1>7, <3>1
    <3>2. CASE ~(d = Pd /\ n = ld)
      <4>1. children'[d][n] = children[d][n]
        BY <1>7, <2>2, <3>2
      <4>2. QED
        BY <1>1, <1>2, <2>2, <4>1 DEF Linked
    <3>3. QED
      BY <3>1, <3>2
  <2>3. QED
    BY <2>1, <2>2 DEF Linked
<1>11. \A d \in Entry, n \in Name :
         children[d][n] = e => d = Ps /\ n = ls
  BY <1>1, <1>2, <1>3 DEF OneParent
<1>12. OneParent'
  BY <1>1, <1>3, <1>7, <1>11 DEF OneParent
<1>13. NoCycle'
  <2>1. children \in Heap /\ Acyclic(children)
    BY <1>1 DEF TypeOK, Heap, NoCycle, Acyclic
  <2>2. \A d \in Entry, n \in Name :
          \/ children'[d][n] \in {children[d][n], Nil}
          \/ d = Pd /\ children'[d][n] = e
    BY <1>7
  <2>3. Acyclic(children')
    BY <1>3, <1>4, <1>5, <1>6, <1>8, <2>1, <2>2, AcyclicAttach
  <2>4. QED
    BY <2>3 DEF NoCycle, Acyclic
<1>14. UniqueIdentity'
  <2>1. \A d \in Entry, n \in Name :
          children[d][n] # Nil /\ fileID[children[d][n]] = fileID[e]
            => d = Ps /\ n = ls
    BY <1>1, <1>2, <1>3 DEF UniqueIdentity
  <2>2. ASSUME NEW d1 \in Entry, NEW d2 \in Entry, NEW n1 \in Name, NEW n2 \in Name,
               children'[d1][n1] # Nil, children'[d2][n2] # Nil,
               fileID'[children'[d1][n1]] = fileID'[children'[d2][n2]]
        PROVE  d1 = d2 /\ n1 = n2
    <3>1. CASE d1 = Pd /\ n1 = ld
      BY <1>2, <1>7, <2>1, <2>2, <3>1
    <3>2. CASE d2 = Pd /\ n2 = ld
      BY <1>2, <1>7, <2>1, <2>2, <3>2
    <3>3. CASE ~(d1 = Pd /\ n1 = ld) /\ ~(d2 = Pd /\ n2 = ld)
      <4>1. children'[d1][n1] = children[d1][n1] /\ children'[d2][n2] = children[d2][n2]
        BY <1>7, <2>2, <3>3
      <4>2. QED
        BY <1>1, <1>2, <2>2, <4>1 DEF UniqueIdentity
    <3>4. QED
      BY <3>1, <3>2, <3>3
  <2>3. \A x \in Entry : kind'[x] # "free" /\ x # Root =>
          fileID'[x] \in Entry /\ kind'[fileID'[x]] # "free"
    BY <1>1, <1>2 DEF UniqueIdentity
  <2>4. QED
    BY <2>2, <2>3 DEF UniqueIdentity
<1>15. QED
  BY <1>9, <1>10, <1>12, <1>13, <1>14 DEF IInv

\* A command that changes neither the heap nor identities keeps the tree.
LEMMA SameTree ==
  ASSUME IInv, TypeOK', UNCHANGED <<kind, children, fileID>>
  PROVE  IInv'
<1>1. kind' = kind /\ children' = children /\ fileID' = fileID
  OBVIOUS
<1>2. Linked' /\ OneParent'
  BY <1>1 DEF IInv, Linked, OneParent
<1>3. NoCycle'
  <2>1. Acyclic(children)
    BY DEF IInv, NoCycle, Acyclic
  <2>2. Acyclic(children')
    BY <1>1, <2>1
  <2>3. QED
    BY <2>2 DEF NoCycle, Acyclic
<1>4. UniqueIdentity'
  BY <1>1 DEF IInv, UniqueIdentity
<1>5. QED
  BY <1>2, <1>3, <1>4 DEF IInv

----------------------------------------------------------------------------
(* The inductive invariant.                                                 *)

\* A new server (NewMetadataServer) starts with the root alone.
LEMMA InitIInv == Init => IInv
<1> SUFFICES ASSUME Init PROVE IInv
  OBVIOUS
<1>1. \A d \in Entry, n \in Name : children[d][n] = Nil
  BY DEF Init
<1>2. TypeOK
  BY NamespaceAssumption DEF Init, TypeOK, Status
<1>3. Linked /\ OneParent /\ UniqueIdentity
  BY <1>1, NamespaceAssumption DEF Init, Linked, OneParent, UniqueIdentity
<1>4. NoCycle
  BY <1>1, NamespaceAssumption DEF NoCycle
<1>5. QED
  BY <1>2, <1>3, <1>4 DEF IInv

\* Every command of the Raft log keeps the heap well formed.
LEMMA NextIInv == IInv /\ [Next]_vars => IInv'
<1> SUFFICES ASSUME IInv, [Next]_vars PROVE IInv'
  OBVIOUS
<1> USE DEF Status
<1>1. ASSUME NEW p \in Path, NEW e \in Entry, applyMkdir(p, e)
      PROVE  IInv'
  <2>1. /\ ParentFound(p) /\ Fresh(e) /\ lookup(p) = Nil
        /\ kind' = [kind EXCEPT ![e] = "dir"]
        /\ fileID' = [fileID EXCEPT ![e] = e]
        /\ children' = [children EXCEPT ![Parent(p)][Last(p)] = e]
        /\ UNCHANGED <<status, size, replicas>>
    BY <1>1 DEF applyMkdir
  <2>2. children' \in Heap /\ NoCycle'
    BY <2>1, Allocated
  <2>3. TypeOK'
    BY <2>1, <2>2 DEF IInv, TypeOK, Heap, Fresh
  <2>4. Linked' /\ OneParent' /\ UniqueIdentity'
    <3>1. fileID' = [fileID EXCEPT ![e] = IF lookup(p) = Nil THEN e ELSE fileID[lookup(p)]]
      BY <2>1
    <3>2. QED
      BY <2>1, <3>1, AllocatedInv
  <2>5. QED
    BY <2>2, <2>3, <2>4 DEF IInv
<1>2. ASSUME NEW p \in Path, NEW e \in Entry, NEW mode \in CreateModes,
             NEW sz \in Size, NEW addrs \in SUBSET Addr,
             applyCreateFile(p, e, mode, sz, addrs)
      PROVE  IInv'
  <2>1. /\ ParentFound(p) /\ Fresh(e)
        /\ kind' = [kind EXCEPT ![e] = "file"]
        /\ fileID' = [fileID EXCEPT ![e] =
                        IF lookup(p) = Nil THEN e ELSE fileID[lookup(p)]]
        /\ status' = [status EXCEPT ![e] = "pending"]
        /\ size' = [size EXCEPT ![e] = sz]
        /\ replicas' = [replicas EXCEPT ![e] = addrs \X {e}]
        /\ children' = [children EXCEPT ![Parent(p)][Last(p)] = e]
    BY <1>2 DEF applyCreateFile
  <2>2. children' \in Heap /\ NoCycle'
    BY <2>1, Allocated
  <2>3. Linked' /\ OneParent' /\ UniqueIdentity'
    BY <2>1, AllocatedInv
  <2>4. TypeOK'
    <3>1. TypeOK
      BY DEF IInv
    <3>2. lookup(p) # Nil => lookup(p) \in Entry
      BY LookupFacts DEF IInv
    <3>3. (IF lookup(p) = Nil THEN e ELSE fileID[lookup(p)]) \in Entry \cup {Nil}
      BY <3>1, <3>2 DEF TypeOK
    <3>4. addrs \X {e} \in SUBSET (Addr \X Entry)
      OBVIOUS
    <3>5. fileID' \in [Entry -> Entry \cup {Nil}]
      BY <2>1, <3>1, <3>3 DEF TypeOK
    <3>6. replicas' \in [Entry -> SUBSET (Addr \X Entry)]
      BY <2>1, <3>1, <3>4 DEF TypeOK
    <3>7. QED
      BY <2>1, <2>2, <3>1, <3>5, <3>6 DEF TypeOK, Heap
  <2>5. QED
    BY <2>2, <2>3, <2>4 DEF IInv
<1>3. ASSUME NEW p \in Path, applyCompleteFile(p)
      PROVE  IInv'
  <2>1. lookup(p) \in Entry /\ kind[lookup(p)] = "file"
    BY <1>3, LookupFacts DEF IInv, applyCompleteFile, IsFile
  <2>2. TypeOK'
    BY <1>3, <2>1 DEF IInv, TypeOK, applyCompleteFile
  <2>3. QED
    BY <1>3, <2>2, SameTree DEF applyCompleteFile
<1>4. ASSUME NEW p \in Path, applyDelete(p)
      PROVE  IInv'
  BY <1>4, DetachedInv
<1>5. ASSUME NEW src \in Path, NEW dst \in Path, applyRename(src, dst)
      PROVE  IInv'
  BY <1>5, RenamedInv
<1>6. ASSUME NEW p \in Path, NEW sz \in Size, applyUpdateSize(p, sz)
      PROVE  IInv'
  <2>1. lookup(p) \in Entry
    BY <1>6, LookupFacts DEF IInv, applyUpdateSize, IsFile
  <2>2. TypeOK'
    BY <1>6, <2>1 DEF IInv, TypeOK, applyUpdateSize
  <2>3. QED
    BY <1>6, <2>2, SameTree DEF applyUpdateSize
<1>7. ASSUME NEW p \in Path, NEW list \in ReplicaLists,
             applyUpdateReplicas(p, list)
      PROVE  IInv'
  <2>1. lookup(p) \in Entry /\ TypeOK
    BY <1>7, LookupFacts DEF IInv, applyUpdateReplicas, IsFile
  <2>2. list \in SUBSET (Addr \X Entry)
    BY NamespaceAssumption
  <2>3. TypeOK'
    BY <1>7, <2>1, <2>2 DEF TypeOK, applyUpdateReplicas
  <2>4. QED
    BY <1>7, <2>3, SameTree DEF applyUpdateReplicas
<1>8. ASSUME NEW p \in Path, NEW st \in {"complete", "recovering"},
             applyUpdateStatus(p, st)
      PROVE  IInv'
  <2>1. lookup(p) \in Entry /\ kind[lookup(p)] = "file"
    BY <1>8, LookupFacts DEF IInv, applyUpdateStatus, IsFile
  <2>2. TypeOK'
    BY <1>8, <2>1 DEF IInv, TypeOK, applyUpdateStatus
  <2>3. QED
    BY <1>8, <2>2, SameTree DEF applyUpdateStatus
<1>9. CASE UNCHANGED vars
  <2>1. TypeOK'
    BY <1>9 DEF IInv, TypeOK, vars
  <2>2. QED
    BY <1>9, <2>1, SameTree DEF vars
<1>10. QED
  BY <1>1, <1>2, <1>3, <1>4, <1>5, <1>6, <1>7, <1>8, <1>9
     DEF Next, ClientNext, ReplicatorNext

\* IInv holds in every reachable state.
LEMMA IInvHolds == Spec => []IInv
  BY InitIInv, NextIInv, PTL DEF Spec

----------------------------------------------------------------------------
(* Reachability.                                                            *)

\* What mds.lookup finds is reachable.  The walk cannot leave a closed set:
\* the entries of the walk outside it would have a member without a parent
\* among them, and only the root has none.
LEMMA LookupReachable ==
  ASSUME IInv, NEW p \in Path, ParentFound(p)
  PROVE  /\ Parent(p) \in Reachable
         /\ lookup(p) # Nil => lookup(p) \in Reachable
<1>1. TypeOK /\ Linked /\ NoCycle
  BY DEF IInv
<1>2. Len(p) \in Nat \ {0} /\ p \in Seq(Name) /\ Parent(p) \in Entry /\ Last(p) \in Name
  BY <1>1, ParentFacts, PathIsSeq
<1>3. /\ Walk(p)[0] = Root
      /\ \A j \in 0..(Len(p) - 1) : Walk(p)[j] \in Entry
      /\ \A j \in 1..(Len(p) - 1) : Walk(p)[j] = children[Walk(p)[j - 1]][p[j]]
  BY DEF ParentFound, IsWalk
<1>4. ASSUME NEW S \in SUBSET Entry, Closed(S)
      PROVE  \A i \in 0..(Len(p) - 1) : Walk(p)[i] \in S
  <2> DEFINE T == {Walk(p)[i] : i \in {j \in 0..(Len(p) - 1) : Walk(p)[j] \notin S}}
  <2>1. SUFFICES ASSUME T # {} PROVE FALSE
    OBVIOUS
  <2>2. T \in SUBSET Entry
    BY <1>3
  <2>3. PICK e \in T : \A d \in T, n \in Name : children[d][n] # e
    BY <1>1, <2>1, <2>2 DEF NoCycle
  <2>4. PICK i \in 0..(Len(p) - 1) : e = Walk(p)[i] /\ Walk(p)[i] \notin S
    BY <2>3
  <2>5. i # 0
    BY <1>3, <1>4, <2>4 DEF Closed
  <2>6. i \in 1..(Len(p) - 1) /\ (i - 1) \in 0..(Len(p) - 1) /\ p[i] \in Name
    BY <1>2, <2>5
  <2>7. /\ Walk(p)[i - 1] \in Entry /\ e \in Entry
        /\ e = children[Walk(p)[i - 1]][p[i]]
    BY <1>3, <2>2, <2>4, <2>6
  <2>8. Walk(p)[i - 1] \notin S
    BY <1>4, <2>4, <2>6, <2>7, NamespaceAssumption DEF Closed
  <2>9. Walk(p)[i - 1] \in T
    BY <2>6, <2>8
  <2>10. QED
    BY <2>3, <2>6, <2>7, <2>9
<1>5. \A S \in SUBSET Entry : Closed(S) => Parent(p) \in S
  <2>1. (Len(p) - 1) \in 0..(Len(p) - 1)
    BY <1>2
  <2>2. QED
    BY <1>4, <2>1 DEF Parent
<1>6. Parent(p) \in Reachable
  BY <1>2, <1>5 DEF Reachable
<1>7. ASSUME lookup(p) # Nil PROVE lookup(p) \in Reachable
  <2>1. lookup(p) = children[Parent(p)][Last(p)] /\ lookup(p) \in Entry
    BY <1>1, <1>7, LookupFacts
  <2>2. \A S \in SUBSET Entry : Closed(S) => lookup(p) \in S
    BY <1>2, <1>5, <1>7, <2>1 DEF Closed
  <2>3. QED
    BY <2>1, <2>2 DEF Reachable
<1>8. QED
  BY <1>6, <1>7

\* A reachable entry other than the root is allocated and has an identity.
LEMMA ReachableAllocated ==
  ASSUME IInv, NEW e \in Reachable
  PROVE  /\ e \in Entry
         /\ kind[e] # "free"
         /\ e # Root => fileID[e] \in Entry /\ kind[fileID[e]] # "free"
<1> DEFINE S == {x \in Entry : kind[x] # "free"}
<1>1. Closed(S)
  BY NamespaceAssumption DEF IInv, TypeOK, Linked, Closed
<1>2. e \in Entry /\ e \in S
  BY <1>1 DEF Reachable
<1>3. QED
  BY <1>2 DEF IInv, UniqueIdentity

\* No command brings an unreachable entry back: links are dropped, or point
\* to reachable entries.
LEMMA ReachableShrinks ==
  ASSUME \A d \in Entry, n \in Name :
           \/ children'[d][n] \in {children[d][n], Nil}
           \/ children'[d][n] \in Reachable
  PROVE  Reachable' \subseteq Reachable
<1>1. SUFFICES ASSUME NEW e \in Reachable', NEW S \in SUBSET Entry, Closed(S)
               PROVE  e \in S
  BY DEF Reachable
<1>2. Closed(S)'
  BY <1>1 DEF Closed, Reachable
<1>3. QED
  BY <1>1, <1>2 DEF Reachable

LEMMA DeleteShrinks ==
  ASSUME IInv, NEW p \in Path, applyDelete(p)
  PROVE  Reachable' \subseteq Reachable
<1>1. Parent(p) \in Entry /\ Last(p) \in Name /\ children \in Heap
  BY ParentFacts, LookupFacts DEF IInv, TypeOK, Heap, applyDelete
<1>2. \A d \in Entry, n \in Name : children'[d][n] \in {children[d][n], Nil}
  BY <1>1 DEF applyDelete, Heap
<1>3. QED
  BY <1>2, ReachableShrinks

LEMMA RenameShrinks ==
  ASSUME IInv, NEW src \in Path, NEW dst \in Path, applyRename(src, dst)
  PROVE  Reachable' \subseteq Reachable
<1> DEFINE e == lookup(src)
           Ps == Parent(src)
           ls == Last(src)
           Pd == Parent(dst)
           ld == Last(dst)
<1>1. /\ Ps \in Entry /\ ls \in Name /\ e \in Reachable
      /\ Pd \in Entry /\ ld \in Name /\ children \in Heap
      /\ children' = [children EXCEPT ![Ps][ls] = Nil, ![Pd][ld] = e]
  BY ParentFacts, LookupFacts, LookupReachable DEF IInv, TypeOK, Heap, applyRename
<1> HIDE DEF e, Ps, ls, Pd, ld
<1>2. \A d \in Entry, n \in Name :
        children'[d][n] \in {children[d][n], Nil} \/ children'[d][n] = e
  BY <1>1 DEF Heap
<1>3. QED
  BY <1>1, <1>2, ReachableShrinks

\* The recursion in Walk has one solution: the entries that the components of
\* p name, one after the other.
LEMMA WalkIs ==
  ASSUME NEW p, Len(p) \in Nat \ {0}, NEW w \in [0..(Len(p) - 1) -> Entry],
         w[0] = Root, \A i \in 1..(Len(p) - 1) : w[i] = children[w[i - 1]][p[i]]
  PROVE  Walk(p) = w
<1> DEFINE K == Len(p) - 1
           F(f) == f = [i \in 0..K |->
                          IF i = 0 THEN Root
                          ELSE IF f[i - 1] = Nil THEN Nil ELSE children[f[i - 1]][p[i]]]
           W == CHOOSE f : F(f)
<1>1. K \in Nat
  OBVIOUS
<1>2. F(w)
  <2>1. \A i \in 1..K : i - 1 \in 0..K
    BY <1>1
  <2>2. \A i \in 0..K : w[i] =
          IF i = 0 THEN Root
          ELSE IF w[i - 1] = Nil THEN Nil ELSE children[w[i - 1]][p[i]]
    BY <1>1, <2>1, NamespaceAssumption
  <2>3. w \in [0..K -> Entry]
    OBVIOUS
  <2> HIDE DEF K
  <2> QED
    BY <2>2, <2>3
<1>3. F(W)
  BY <1>2
<1>4. Walk(p) = W
  BY DEF Walk
<1> HIDE DEF W
<1>5. /\ W[0] = Root
      /\ \A i \in 1..K : W[i] = IF W[i - 1] = Nil THEN Nil ELSE children[W[i - 1]][p[i]]
  BY <1>1, <1>3
<1>6. ASSUME NEW n \in 0..K PROVE W[n] = w[n]
  <2> DEFINE S == {i \in 0..K : W[i] = w[i]}
  <2>1. 0 \in S
    BY <1>1, <1>5
  <2>2. ASSUME NEW i \in 1..n, i - 1 \in S PROVE i \in S
    <3>1. i \in 1..K /\ i \in 0..K /\ i - 1 \in 0..K /\ w[i - 1] # Nil
      BY <1>1, <2>2, NamespaceAssumption
    <3> QED
      BY <1>5, <2>2, <3>1
  <2>3. n \in Nat
    BY <1>1
  <2>4. n \in S
    <3> HIDE DEF S
    <3> QED
      BY <2>1, <2>2, <2>3, InductionUpTo
  <2> QED
    BY <2>4
<1>7. W = [i \in 0..K |-> W[i]]
  BY <1>3
<1>8. w = [i \in 0..K |-> w[i]]
  OBVIOUS
<1> HIDE DEF K
<1> QED
  BY <1>4, <1>6, <1>7, <1>8

\* The components of p lead from the root to e in the heap h.
Leads(h, p, e) ==
  \E w \in [0..Len(p) -> Entry] :
    /\ w[0] = Root /\ w[Len(p)] = e
    /\ \A i \in 1..Len(p) : w[i] = h[w[i - 1]][p[i]]

\* What leads to a directory leads to the names in it.
LEMMA LeadsDir ==
  ASSUME TypeOK, Linked, NEW p \in Path, NEW d \in Entry, kind[d] = "dir",
         NEW w \in [0..(Len(p) - 1) -> Entry], Len(p) > 0,
         w[0] = Root, w[Len(p) - 1] = d,
         \A i \in 1..(Len(p) - 1) : w[i] = children[w[i - 1]][p[i]]
  PROVE  ParentFound(p) /\ Parent(p) = d /\ lookup(p) = children[d][Last(p)]
<1>1. p \in Seq(Name) /\ Len(p) \in Nat \ {0}
  BY PathIsSeq
<1>2. Walk(p) = w
  BY <1>1, WalkIs
<1>3. ASSUME NEW i \in 0..(Len(p) - 1) PROVE kind[w[i]] = "dir"
  <2>1. CASE i = Len(p) - 1
    BY <2>1
  <2>2. CASE i # Len(p) - 1
    <3>1. /\ i + 1 \in 1..(Len(p) - 1) /\ i + 1 \in 0..(Len(p) - 1)
          /\ (i + 1) - 1 = i /\ i + 1 \in 1..Len(p)
      BY <1>1, <2>2
    <3>2. w[i + 1] = children[w[i]][p[i + 1]] /\ w[i + 1] # Nil
      BY <3>1, NamespaceAssumption
    <3>3. p[i + 1] \in Name /\ w[i] \in Entry
      BY <1>1, <3>1
    <3> QED
      BY <3>2, <3>3 DEF Linked
  <2> QED
    BY <2>1, <2>2
<1>4. IsWalk(w, p)
  BY <1>1, <1>3 DEF IsWalk
<1> QED
  BY <1>2, <1>4 DEF ParentFound, Parent, lookup

LEMMA LeadsLookup ==
  ASSUME TypeOK, Linked, NEW p \in Path, NEW e \in Entry, Len(p) > 0,
         Leads(children, p, e)
  PROVE  lookup(p) = e
<1>1. p \in Seq(Name) /\ Len(p) \in Nat \ {0} /\ Last(p) \in Name
  BY PathIsSeq DEF Last
<1>2. PICK w \in [0..Len(p) -> Entry] :
        /\ w[0] = Root /\ w[Len(p)] = e
        /\ \A i \in 1..Len(p) : w[i] = children[w[i - 1]][p[i]]
  BY DEF Leads
<1> DEFINE d == w[Len(p) - 1]
           v == [i \in 0..(Len(p) - 1) |-> w[i]]
<1>3. d \in Entry /\ e = children[d][Last(p)]
  BY <1>1, <1>2 DEF Last
<1>4. kind[d] = "dir"
  BY <1>1, <1>3, NamespaceAssumption DEF Linked
<1>5. /\ v \in [0..(Len(p) - 1) -> Entry] /\ v[0] = Root /\ v[Len(p) - 1] = d
      /\ \A i \in 1..(Len(p) - 1) : v[i] = children[v[i - 1]][p[i]]
  BY <1>1, <1>2
<1> HIDE DEF d, v
<1>6. lookup(p) = children[d][Last(p)]
  BY <1>3, <1>4, <1>5, LeadsDir
<1> QED
  BY <1>3, <1>6

\* In a heap where the walk to the parent of p is as before, and the parent
\* has e under the last component, p leads to e.
LEMMA LeadsTo ==
  ASSUME NEW p \in Path, NEW e \in Entry, NEW h, ParentFound(p),
         \A i \in 1..(Len(p) - 1) : h[Walk(p)[i - 1]][p[i]] = Walk(p)[i],
         h[Parent(p)][Last(p)] = e
  PROVE  Leads(h, p, e)
<1>1. Len(p) \in Nat \ {0}
  BY PathIsSeq DEF ParentFound, IsWalk
<1>2. Walk(p) \in [0..(Len(p) - 1) -> Entry] /\ Walk(p)[0] = Root
  BY DEF ParentFound, IsWalk
<1> DEFINE w == [i \in 0..Len(p) |-> IF i = Len(p) THEN e ELSE Walk(p)[i]]
<1>3. w \in [0..Len(p) -> Entry] /\ w[0] = Root /\ w[Len(p)] = e
  BY <1>1, <1>2
<1>4. ASSUME NEW i \in 1..Len(p) PROVE w[i] = h[w[i - 1]][p[i]]
  <2>1. i - 1 \in 0..(Len(p) - 1) /\ w[i - 1] = Walk(p)[i - 1]
    BY <1>1
  <2>2. CASE i = Len(p)
    BY <1>1, <2>1, <2>2 DEF Parent, Last
  <2>3. CASE i # Len(p)
    <3>1. i \in 1..(Len(p) - 1) /\ w[i] = Walk(p)[i]
      BY <1>1, <2>3
    <3> QED
      BY <2>1, <3>1
  <2> QED
    BY <2>2, <2>3
<1> HIDE DEF w
<1> QED
  BY <1>3, <1>4 DEF Leads

\* mds.lookup finds what the path leads to.
LEMMA LookupLeads ==
  ASSUME TypeOK, Linked, NEW p \in Path, lookup(p) # Nil
  PROVE  Leads(children, p, lookup(p))
<1>1. ParentFound(p) /\ lookup(p) = children[Parent(p)][Last(p)] /\ lookup(p) \in Entry
  BY LookupFacts
<1>2. \A i \in 1..(Len(p) - 1) : Walk(p)[i] = children[Walk(p)[i - 1]][p[i]]
  BY <1>1 DEF ParentFound, IsWalk
<1> QED
  BY <1>1, <1>2, LeadsTo

\* A new entry is found at its path when nothing was there.
LEMMA CreatedLeads ==
  ASSUME TypeOK, Linked, NEW p \in Path, NEW e \in Entry, ParentFound(p), lookup(p) = Nil,
         children' = [children EXCEPT ![Parent(p)][Last(p)] = e]
  PROVE  Leads(children', p, e)
<1>1. /\ Parent(p) \in Entry /\ Last(p) \in Name /\ Len(p) \in Nat \ {0}
      /\ children \in Heap
  BY ParentFacts DEF TypeOK, Heap
<1>2. children[Parent(p)][Last(p)] = Nil
  BY DEF lookup
<1>3. children'[Parent(p)][Last(p)] = e
  BY <1>1 DEF Heap
<1>4. ASSUME NEW i \in 1..(Len(p) - 1)
      PROVE  children'[Walk(p)[i - 1]][p[i]] = Walk(p)[i]
  <2>1. Walk(p)[i] = children[Walk(p)[i - 1]][p[i]]
    BY DEF ParentFound, IsWalk
  <2>2. Walk(p)[i] \in Entry /\ Walk(p)[i - 1] \in Entry
    BY <1>1 DEF ParentFound, IsWalk
  <2>3. p[i] \in Name
    BY <1>1, PathIsSeq
  <2>4. ~(Walk(p)[i - 1] = Parent(p) /\ p[i] = Last(p))
    BY <1>2, <2>1, <2>2, NamespaceAssumption
  <2> QED
    BY <1>1, <2>1, <2>2, <2>3, <2>4 DEF Heap
<1> QED
  BY <1>3, <1>4, LeadsTo

\* What a deletion takes out of the tree is out of it: an entry has one place.
LEMMA DeleteUnlinks ==
  ASSUME IInv, NEW p \in Path, applyDelete(p)
  PROVE  lookup(p) \notin Reachable'
<1> DEFINE e == lookup(p)
<1>1. /\ Parent(p) \in Entry /\ Last(p) \in Name /\ children \in Heap
      /\ e = children[Parent(p)][Last(p)] /\ e \in Entry /\ e # Root
      /\ children' = [children EXCEPT ![Parent(p)][Last(p)] = Nil]
  BY ParentFacts, LookupFacts DEF IInv, TypeOK, Heap, applyDelete
<1>2. ASSUME NEW d \in Entry, NEW n \in Name, children'[d][n] # Nil
      PROVE  children'[d][n] \in Entry \ {e}
  <2>1. children'[d][n] = children[d][n] /\ ~(d = Parent(p) /\ n = Last(p))
    BY <1>1, <1>2 DEF Heap
  <2>2. children[d][n] \in Entry /\ children[d][n] # Nil
    BY <1>1, <1>2, <2>1 DEF Heap
  <2>3. children[d][n] # e
    BY <1>1, <2>1, <2>2 DEF IInv, OneParent
  <2> QED
    BY <2>1, <2>2, <2>3
<1>3. PICK S \in SUBSET Entry : S = Entry \ {e}
  OBVIOUS
<1>4. Closed(S)'
  BY <1>1, <1>2, <1>3, NamespaceAssumption DEF Closed
<1>5. \A x \in Reachable' : x \in S
  BY <1>4 DEF Reachable
<1> QED
  BY <1>3, <1>5

\* Where one link is dropped, or given to a new entry, what stays in the tree
\* stays at its path: an entry has one place, so whatever hung below the link
\* is gone.
LEMMA LeadsStay ==
  ASSUME IInv, NEW P \in Entry, NEW l \in Name, NEW x \in Entry \cup {Nil},
         \A d \in Entry, n \in Name : children[d][n] = x => x = Nil,
         children' = [children EXCEPT ![P][l] = x],
         NEW p \in Path, NEW f \in Reachable', f # x, Leads(children, p, f)
  PROVE  Leads(children', p, f)
<1>1. /\ children \in Heap /\ Linked /\ OneParent
      /\ p \in Seq(Name) /\ Len(p) \in Nat
  BY PathIsSeq DEF IInv, TypeOK, Heap
<1>2. \A d \in Entry, n \in Name :
        children'[d][n] = IF d = P /\ n = l THEN x ELSE children[d][n]
  BY <1>1 DEF Heap
<1>3. PICK w \in [0..Len(p) -> Entry] :
        /\ w[0] = Root /\ w[Len(p)] = f
        /\ \A i \in 1..Len(p) : w[i] = children[w[i - 1]][p[i]]
  BY DEF Leads
<1>4. \A i \in 1..Len(p) : w[i - 1] \in Entry /\ w[i] \in Entry /\ p[i] \in Name
  BY <1>1, <1>3
<1>5. SUFFICES ASSUME NEW i \in 1..Len(p), w[i] # children'[w[i - 1]][p[i]]
               PROVE  FALSE
  BY <1>3 DEF Leads
<1>6. w[i - 1] = P /\ p[i] = l
  BY <1>2, <1>3, <1>4, <1>5
<1> DEFINE Below == {w[j] : j \in i..Len(p)}
           S == Reachable' \ Below
<1>7. Root \in S
  <2>1. \A j \in i..Len(p) : w[j] # Root
    BY <1>1, <1>3, <1>4, <1>5, NamespaceAssumption DEF Linked
  <2>2. Root \in Reachable'
    BY NamespaceAssumption DEF Reachable, Closed
  <2> QED
    BY <2>1, <2>2
<1>8. ASSUME NEW d \in S, NEW n \in Name, children'[d][n] # Nil
      PROVE  children'[d][n] \in S
  <2>1. d \in Entry /\ d \in Reachable'
    BY DEF Reachable
  <2>2. children'[d][n] \in Reachable'
    <3>1. children'[d][n] \in Entry
      BY <1>1, <1>2, <1>8, <2>1 DEF Heap
    <3> QED
      BY <1>8, <2>1, <3>1 DEF Reachable, Closed
  <2>3. ASSUME NEW j \in i..Len(p), children'[d][n] = w[j]
        PROVE  FALSE
    <3>1. /\ j \in 1..Len(p) /\ w[j] = children[w[j - 1]][p[j]] /\ w[j] \in Entry
          /\ w[j - 1] \in Entry /\ p[j] \in Name
      BY <1>1, <1>3, <1>4, <1>5
    <3>2. ~(d = P /\ n = l)
      BY <1>2, <1>8, <2>1, <2>3, <3>1
    <3>3. children[d][n] = w[j] /\ w[j] # Nil
      BY <1>2, <1>8, <2>1, <2>3, <3>2
    <3>4. d = w[j - 1] /\ n = p[j]
      BY <1>1, <2>1, <3>1, <3>3 DEF OneParent
    <3>5. j # i
      BY <1>6, <3>2, <3>4
    <3>6. j - 1 \in i..Len(p)
      BY <1>1, <1>5, <3>1, <3>5
    <3> QED
      BY <3>4, <3>6
  <2> QED
    BY <2>2, <2>3
<1>9. PICK U \in SUBSET Entry : U = S
  BY DEF Reachable
<1> HIDE DEF S
<1>10. Closed(U)'
  BY <1>7, <1>8, <1>9 DEF Closed
<1>11. f \in S
  <2>1. \A y \in Reachable' : y \in U
    BY <1>10 DEF Reachable
  <2> QED
    BY <1>9, <2>1
<1>12. f \in Below
  BY <1>1, <1>3, <1>5
<1> QED
  BY <1>11, <1>12 DEF S

\* A link to nothing, or to another file, may change without consequence to
\* what leads to f: a path goes through directories only.
LEMMA LeadsPast ==
  ASSUME TypeOK, Linked, NEW P \in Entry, NEW l \in Name, NEW x,
         children' = [children EXCEPT ![P][l] = x],
         NEW p \in Path, NEW f \in Entry, Leads(children, p, f),
         children[P][l] # Nil => kind[children[P][l]] = "file" /\ children[P][l] # f
  PROVE  Leads(children', p, f)
<1>1. /\ children \in Heap /\ p \in Seq(Name) /\ Len(p) \in Nat
  BY PathIsSeq DEF TypeOK, Heap
<1>2. \A d \in Entry, n \in Name :
        ~(d = P /\ n = l) => children'[d][n] = children[d][n]
  BY <1>1 DEF Heap
<1>3. PICK w \in [0..Len(p) -> Entry] :
        /\ w[0] = Root /\ w[Len(p)] = f
        /\ \A i \in 1..Len(p) : w[i] = children[w[i - 1]][p[i]]
  BY DEF Leads
<1>4. \A i \in 1..Len(p) :
        w[i - 1] \in Entry /\ w[i] \in Entry /\ w[i] # Nil /\ p[i] \in Name
  BY <1>1, <1>3, NamespaceAssumption
<1>5. ASSUME NEW i \in 1..Len(p)
      PROVE  w[i] = children'[w[i - 1]][p[i]]
  <2>1. ASSUME w[i - 1] = P, p[i] = l
        PROVE  FALSE
    <3>1. children[P][l] = w[i] /\ kind[w[i]] = "file" /\ w[i] # f
      BY <1>3, <1>4, <2>1
    <3>2. i # Len(p)
      BY <1>3, <3>1
    <3>3. i + 1 \in 1..Len(p) /\ (i + 1) - 1 = i
      BY <1>1, <3>2
    <3>4. w[i + 1] = children[w[i]][p[i + 1]] /\ w[i + 1] # Nil /\ p[i + 1] \in Name
      BY <1>3, <1>4, <3>3
    <3>5. kind[w[i]] = "dir"
      BY <1>4, <3>4 DEF Linked
    <3> QED
      BY <3>1, <3>5
  <2> QED
    BY <1>2, <1>3, <1>4, <2>1
<1> QED
  BY <1>3, <1>5 DEF Leads

\* A new entry becomes reachable and takes the place of the one it replaces,
\* which had no children; nothing else changes.
LEMMA AllocatedReachable ==
  ASSUME IInv, NEW p \in Path, NEW e \in Entry, ParentFound(p), Fresh(e),
         lookup(p) # Nil => kind[lookup(p)] = "file",
         children' = [children EXCEPT ![Parent(p)][Last(p)] = e]
  PROVE  /\ Reachable' = (Reachable \ {lookup(p)}) \cup {e}
         /\ e \notin Reachable
<1> DEFINE P == Parent(p)
           l == Last(p)
           old == lookup(p)
<1>1. /\ TypeOK /\ Linked /\ OneParent /\ children \in Heap
      /\ P \in Entry /\ l \in Name /\ P \in Reachable /\ old = children[P][l]
  BY ParentFacts, LookupReachable DEF IInv, TypeOK, Heap, lookup
<1>2. /\ e # Root /\ e # P
      /\ \A d \in Entry, n \in Name :
           /\ children'[d][n] = IF d = P /\ n = l THEN e ELSE children[d][n]
           /\ children[d][n] # e
      /\ \A n \in Name : children'[e][n] = Nil
  BY Allocated
<1>3. e \notin Reachable
  BY ReachableAllocated DEF Fresh
<1>4. /\ old # Nil => old \in Entry /\ old # Root /\ old # P
      /\ \A n \in Name : old # Nil => children[old][n] = Nil
  <2>1. old # Nil => old \in Entry /\ old # Root /\ kind[old] = "file"
    BY <1>1, LookupFacts
  <2>2. kind[P] = "dir"
    BY <1>1, ParentFacts
  <2>3. QED
    BY <1>1, <2>1, <2>2 DEF Linked
<1> HIDE DEF P, l, old
<1>5. ASSUME NEW x \in Reachable', x # e
      PROVE  x \in Reachable
  <2>1. SUFFICES ASSUME NEW S \in SUBSET Entry, Closed(S)
                 PROVE  x \in S
    BY DEF Reachable
  <2>2. Closed(S \cup {e})'
    BY <1>2, <2>1 DEF Closed
  <2>3. QED
    BY <1>5, <2>1, <2>2 DEF Reachable
<1>6. old \notin Reachable'
  <2>1. SUFFICES ASSUME old \in Entry, old # Nil PROVE old \notin Reachable'
    BY <1>4, NamespaceAssumption DEF Reachable
  <2>2. \A d \in Entry, n \in Name : children'[d][n] # old
    <3>1. old # e
      BY <1>1, <1>2
    <3>2. \A d \in Entry, n \in Name : children[d][n] = old => d = P /\ n = l
      BY <1>1, <2>1 DEF OneParent
    <3>3. QED
      BY <1>2, <3>1, <3>2
  <2>3. PICK S \in SUBSET Entry : S = Entry \ {old}
    OBVIOUS
  <2>4. Closed(S)'
    <3>1. \A d \in Entry, n \in Name : children'[d][n] # Nil => children'[d][n] \in Entry
      BY <1>1, <1>2 DEF Heap
    <3>2. Root \in Entry \ {old}
      BY <1>4, <2>1, NamespaceAssumption
    <3>3. QED
      BY <2>2, <2>3, <3>1, <3>2 DEF Closed
  <2>5. QED
    BY <2>3, <2>4 DEF Reachable
<1>7. ASSUME NEW x \in Reachable, x # old
      PROVE  x \in Reachable'
  <2>1. SUFFICES ASSUME NEW S \in SUBSET Entry, Closed(S)'
                 PROVE  x \in S
    BY <1>7 DEF Reachable
  <2>2. CASE old = Nil
    <3>1. Root \in S
      BY <2>1 DEF Closed
    <3>2. ASSUME NEW d \in S, NEW n \in Name, children[d][n] # Nil
          PROVE  children[d][n] \in S
      <4>1. ~(d = P /\ n = l)
        BY <1>1, <2>2, <3>2
      <4>2. children'[d][n] = children[d][n]
        BY <1>2, <4>1
      <4>3. QED
        BY <2>1, <3>2, <4>2 DEF Closed
    <3>3. Closed(S)
      BY <3>1, <3>2 DEF Closed
    <3>4. QED
      BY <1>7, <3>3 DEF Reachable
  <2>3. CASE old # Nil
    <3>1. Closed(S \cup {old})
      BY <1>1, <1>2, <1>4, <2>1, <2>3 DEF Closed
    <3>2. QED
      BY <1>4, <1>7, <2>3, <3>1 DEF Reachable
  <2>4. QED
    BY <2>2, <2>3
<1>8. e \in Reachable'
  <2>1. P \in Reachable'
    BY <1>1, <1>4, <1>7, NamespaceAssumption DEF Reachable
  <2>2. children'[P][l] = e /\ e # Nil
    BY <1>1, <1>2, NamespaceAssumption
  <2>3. QED
    BY <1>1, <2>1, <2>2 DEF Reachable, Closed
<1>9. QED
  BY <1>3, <1>5, <1>6, <1>7, <1>8 DEF old

----------------------------------------------------------------------------
(* What follows.                                                            *)

\* Every field of every entry keeps its type, and exactly the files have a
\* status, whatever commands the Raft log holds (Apply).
THEOREM TypeCorrect == Spec => []TypeOK
<1>1. IInv => TypeOK
  BY DEF IInv
<1>2. QED
  BY <1>1, IInvHolds, PTL

\* Renames, deletes and overwrites never make the tree anything but a tree:
\* the recursion of collectFileIDsRecursive and findUnderReplicatedTasks ends
\* and meets every entry once.
THEOREM TreeCorrect == Spec => []IsTree
<1>1. IInv => IsTree
  BY DEF IInv, IsTree
<1>2. QED
  BY <1>1, IInvHolds, PTL

\* No two places of the tree carry the same FileID, and a FileID yet to be
\* drawn is the identity of no object.
THEOREM IdentityCorrect == Spec => []UniqueIdentity
<1>1. IInv => UniqueIdentity
  BY DEF IInv
<1>2. QED
  BY <1>1, IInvHolds, PTL

\* FileIDs are drawn once and never return to the tree: every command is a
\* step of Identities, whatever is deleted, renamed over or overwritten.
THEOREM IdentitiesCorrect == Spec => FileIDsNeverReturn
<1> DEFINE Drawn == {e \in Entry \ {Root} : kind[e] # "free"}
<1>1. Init => Ids!Init
  <2> SUFFICES ASSUME Init PROVE Drawn = {} /\ LiveIDs = {}
    BY DEF Ids!Init
  <2>1. Drawn = {}
    BY DEF Init
  <2>2. PICK S \in SUBSET Entry : S = {Root}
    BY NamespaceAssumption
  <2>3. Closed(S)
    BY <2>2 DEF Init, Closed
  <2>4. Reachable \subseteq {Root}
    BY <2>2, <2>3 DEF Reachable
  <2>5. QED
    BY <2>1, <2>4 DEF LiveIDs
<1>2. IInv /\ IInv' /\ [Next]_vars => [Ids!Next]_(Ids!vars)
  <2> SUFFICES ASSUME IInv, IInv', [Next]_vars
               PROVE  Ids!Next \/ (Drawn' = Drawn /\ LiveIDs' = LiveIDs)
    BY DEF Ids!vars
  <2>1. ASSUME Reachable' \subseteq Reachable, kind' = kind, fileID' = fileID
        PROVE  Ids!Next
    <3> DEFINE T == LiveIDs \ LiveIDs'
    <3>1. LiveIDs' \subseteq LiveIDs
      BY <2>1 DEF LiveIDs
    <3>2. LiveIDs \in SUBSET Entry
      BY ReachableAllocated DEF LiveIDs
    <3>3. LiveIDs' = LiveIDs \ T /\ Drawn' = Drawn
      BY <2>1, <3>1
    <3>4. T \in SUBSET Entry
      BY <3>2
    <3>5. Ids!Retire(T)
      BY <3>3 DEF Ids!Retire
    <3>6. QED
      BY <3>4, <3>5 DEF Ids!Next
  <2>2. ASSUME NEW p \in Path, NEW e \in Entry, NEW k \in {"dir", "file"},
               ParentFound(p), Fresh(e), lookup(p) # Nil => kind[lookup(p)] = "file",
               kind' = [kind EXCEPT ![e] = k],
               fileID' = [fileID EXCEPT ![e] =
                            IF lookup(p) = Nil THEN e ELSE fileID[lookup(p)]],
               children' = [children EXCEPT ![Parent(p)][Last(p)] = e]
        PROVE  Ids!Next
    <3>1. /\ Reachable' = (Reachable \ {lookup(p)}) \cup {e}
          /\ e \notin Reachable
          /\ e # Root
      BY <2>2, AllocatedReachable, Allocated
    <3>2. TypeOK /\ kind[e] = "free"
      BY <2>2 DEF IInv, Fresh
    <3>3. e \notin Drawn /\ Drawn' = Drawn \cup {e}
      BY <2>2, <3>1, <3>2 DEF TypeOK
    <3>4. \A x \in Entry : fileID'[x] = IF x = e THEN (IF lookup(p) = Nil THEN e
                                                       ELSE fileID[lookup(p)])
                                        ELSE fileID[x]
      BY <2>2, <3>2 DEF TypeOK
    <3>5. Reachable \subseteq Entry
      BY DEF Reachable
    <3>6. CASE lookup(p) = Nil
      <4>1. Reachable' = Reachable \cup {e}
        BY <3>1, <3>5, <3>6, NamespaceAssumption
      <4>2. LiveIDs' = LiveIDs \cup {e}
        BY <3>1, <3>4, <3>5, <3>6, <4>1 DEF LiveIDs
      <4>3. QED
        BY <3>3, <4>2 DEF Ids!Next, Ids!Draw
    <3>7. CASE lookup(p) # Nil
      <4>1. lookup(p) \in Reachable /\ lookup(p) # Root /\ lookup(p) \in Entry
        BY <2>2, <3>7, LookupReachable, LookupFacts DEF IInv
      <4>2. fileID'[e] = fileID[lookup(p)]
        BY <3>4, <3>7
      <4>3. \A x \in Reachable : fileID'[x] = fileID[x]
        BY <3>1, <3>4, <3>5
      <4>4. LiveIDs' = LiveIDs
        BY <3>1, <4>1, <4>2, <4>3 DEF LiveIDs
      <4>5. QED
        BY <3>3, <4>4 DEF Ids!Next, Ids!Draw
    <3>8. QED
      BY <3>6, <3>7
  <2>3. ASSUME UNCHANGED <<kind, children, fileID>>
        PROVE  Drawn' = Drawn /\ LiveIDs' = LiveIDs
    <3>1. Reachable' = Reachable
      BY <2>3 DEF Reachable, Closed
    <3>2. QED
      BY <2>3, <3>1 DEF LiveIDs
  <2>4. ASSUME NEW p \in Path, NEW e \in Entry, applyMkdir(p, e)
        PROVE  Ids!Next
    <3>1. fileID' = [fileID EXCEPT ![e] = IF lookup(p) = Nil THEN e ELSE fileID[lookup(p)]]
      BY <2>4 DEF applyMkdir
    <3>2. QED
      BY <2>2, <2>4, <3>1 DEF applyMkdir
  <2>5. ASSUME NEW p \in Path, NEW e \in Entry, NEW mode \in CreateModes,
               NEW sz \in Size, NEW addrs \in SUBSET Addr,
               applyCreateFile(p, e, mode, sz, addrs)
        PROVE  Ids!Next
    BY <2>2, <2>5 DEF applyCreateFile, MayCreate
  <2>6. ASSUME NEW p \in Path, applyDelete(p)
        PROVE  Ids!Next
    BY <2>1, <2>6, DeleteShrinks DEF applyDelete, data
  <2>7. ASSUME NEW src \in Path, NEW dst \in Path, applyRename(src, dst)
        PROVE  Ids!Next
    BY <2>1, <2>7, RenameShrinks DEF applyRename, data
  <2>8. ASSUME \/ \E p \in Path : applyCompleteFile(p)
               \/ \E p \in Path, sz \in Size : applyUpdateSize(p, sz)
               \/ \E p \in Path, list \in ReplicaLists :
                    applyUpdateReplicas(p, list)
               \/ \E p \in Path, st \in {"complete", "recovering"} :
                    applyUpdateStatus(p, st)
               \/ UNCHANGED vars
        PROVE  UNCHANGED <<kind, children, fileID>>
    BY <2>8 DEF applyCompleteFile, applyUpdateSize, applyUpdateReplicas,
                applyUpdateStatus, vars
  <2>9. QED
    BY <2>3, <2>4, <2>5, <2>6, <2>7, <2>8 DEF Next, ClientNext, ReplicatorNext
<1>3. QED
  BY <1>1, <1>2, IInvHolds, PTL DEF Spec, FileIDsNeverReturn, Ids!Spec

----------------------------------------------------------------------------
(* Where the bytes are, when nobody overwrites.                             *)

NoOverwrite == "OverwriteIfExists" \notin CreateModes

\* Entries keep the FileID drawn for them, and only files have replicas, at
\* the physical path of that FileID.
DataInv ==
  \A e \in Entry :
    /\ kind[e] # "free" /\ e # Root => fileID[e] = e
    /\ \A r \in replicas[e] : kind[e] = "file" /\ r[2] = e

LEMMA InitDataInv == Init => DataInv
  BY DEF Init, DataInv

LEMMA NextDataInv ==
  ASSUME NoOverwrite, IInv, DataInv, [ClientNext]_vars
  PROVE  DataInv'
<1>1. TypeOK
  BY DEF IInv
<1>2. ASSUME NEW p \in Path, NEW e \in Entry, applyMkdir(p, e)
      PROVE  DataInv'
  <2>1. /\ kind[e] = "free" /\ e \in Entry
        /\ kind' = [kind EXCEPT ![e] = "dir"]
        /\ fileID' = [fileID EXCEPT ![e] = e]
        /\ replicas' = replicas
    BY <1>2 DEF applyMkdir, Fresh
  <2>2. replicas[e] = {}
    BY <2>1 DEF DataInv
  <2>3. QED
    BY <1>1, <2>1, <2>2 DEF DataInv, TypeOK
<1>3. ASSUME NEW p \in Path, NEW e \in Entry, NEW mode \in CreateModes,
             NEW sz \in Size, NEW addrs \in SUBSET Addr,
             applyCreateFile(p, e, mode, sz, addrs)
      PROVE  DataInv'
  <2>1. lookup(p) = Nil
    BY <1>3 DEF applyCreateFile, MayCreate, NoOverwrite
  <2>2. /\ kind' = [kind EXCEPT ![e] = "file"]
        /\ fileID' = [fileID EXCEPT ![e] = e]
        /\ replicas' = [replicas EXCEPT ![e] = addrs \X {e}]
    BY <1>3, <2>1 DEF applyCreateFile
  <2>3. \A r \in addrs \X {e} : r[2] = e
    OBVIOUS
  <2>4. QED
    BY <1>1, <2>2, <2>3 DEF DataInv, TypeOK
<1>4. ASSUME UNCHANGED <<kind, fileID, replicas>>
      PROVE  DataInv'
  BY <1>4 DEF DataInv
<1>5. QED
  BY <1>2, <1>3, <1>4 DEF ClientNext, vars, data, applyCompleteFile, applyDelete,
     applyRename, applyUpdateSize

\* No command makes a reachable entry out of anything but a new one, and
\* what is allocated stays what it is.
LEMMA TreeGrowth ==
  ASSUME IInv, [Next]_vars
  PROVE  /\ \A e \in Reachable' : e \in Reachable \/ kind[e] = "free"
         /\ \A e \in Entry : kind[e] # "free" => kind'[e] = kind[e]
<1>1. TypeOK
  BY DEF IInv
<1>2. ASSUME NEW p \in Path, NEW e \in Entry, applyMkdir(p, e)
      PROVE  /\ \A x \in Reachable' : x \in Reachable \/ kind[x] = "free"
             /\ \A x \in Entry : kind[x] # "free" => kind'[x] = kind[x]
  <2>1. Reachable' = (Reachable \ {lookup(p)}) \cup {e}
    BY <1>2, AllocatedReachable DEF applyMkdir
  <2>2. QED
    BY <1>1, <1>2, <2>1 DEF applyMkdir, Fresh, TypeOK
<1>3. ASSUME NEW p \in Path, NEW e \in Entry, NEW mode \in CreateModes,
             NEW sz \in Size, NEW addrs \in SUBSET Addr,
             applyCreateFile(p, e, mode, sz, addrs)
      PROVE  /\ \A x \in Reachable' : x \in Reachable \/ kind[x] = "free"
             /\ \A x \in Entry : kind[x] # "free" => kind'[x] = kind[x]
  <2>1. Reachable' = (Reachable \ {lookup(p)}) \cup {e}
    BY <1>3, AllocatedReachable DEF applyCreateFile, MayCreate
  <2>2. QED
    BY <1>1, <1>3, <2>1 DEF applyCreateFile, Fresh, TypeOK
<1>4. ASSUME NEW p \in Path, applyDelete(p)
      PROVE  Reachable' \subseteq Reachable /\ kind' = kind
  BY <1>4, DeleteShrinks DEF applyDelete
<1>5. ASSUME NEW src \in Path, NEW dst \in Path, applyRename(src, dst)
      PROVE  Reachable' \subseteq Reachable /\ kind' = kind
  BY <1>5, RenameShrinks DEF applyRename
<1>6. ASSUME UNCHANGED <<kind, children>>
      PROVE  Reachable' = Reachable /\ kind' = kind
  BY <1>6 DEF Reachable, Closed
<1>7. QED
  BY <1>2, <1>3, <1>4, <1>5, <1>6 DEF Next, ClientNext, ReplicatorNext, vars,
     applyCompleteFile,
     applyUpdateSize, applyUpdateReplicas, applyUpdateStatus
=============================================================================
