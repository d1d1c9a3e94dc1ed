-------------------------- MODULE HandlesOneWriter --------------------------
(***************************************************************************)
(* What files hold when one handle writes them and others read, for every   *)
(* number of readers, nodes, files and bytes, whatever calls fail: sizes    *)
(* are backed by bytes, reads miss nothing that was acknowledged, and       *)
(* replicas are what acknowledged updates made them.                        *)
(***************************************************************************)
EXTENDS HandlesProofs

----------------------------------------------------------------------------
(* One writer, and names that stay while a file is open.                    *)

OneWriter == ~MoveOpen /\ \A g, h \in Writers : g = h

\* The bytes of the replica of e on n; a missing file reads as an empty one.
At(n, e) == IF content[n][e] = Absent THEN <<>> ELSE content[n][e]

\* s reaches as far as t and has no older byte.
Above(s, t) == Len(t) <= Len(s) /\ \A i \in 1..Len(t) : t[i] <= s[i]

Clean(e) == \A m \in failed : m[1] # e

\* Calls that update files are those of writers, which do not read.
Role(h, x) ==
  /\ h \notin Writers =>
       x.on = Nil /\ x.pc \in {"closed", "locate", "open", "reading", "getting", "got"}
  /\ h \in Writers => x.pc \notin {"reading", "getting", "got"}
  /\ x.on # Nil <=> x.pc \in {"writing", "truncating", "sizing"}
  /\ x.op = "write" => x.pc \in {"writing", "sizing"}
  /\ x.pc = "writing" => x.op = "write"
  /\ x.pc = "truncating" => x.op \in {"truncate", "open"}
  /\ x.pc = "sizing" => x.op \in {"write", "truncate", "open"}

\* The path of a handle leads to its file until it is closed.
Binding(x) ==
  /\ x.id # Nil => lookup(x.path) = x.id /\ x.replicas = Addr \X {x.id}
  /\ x.id = Nil /\ x.replicas # {} =>
       /\ x.pc = "locate" /\ lookup(x.path) # Nil
       /\ x.replicas = Addr \X {lookup(x.path)}
  /\ x.pc = "locate" => lookup(x.path) # Nil
  /\ x.on # Nil => lookup(x.path) = x.on
  /\ x.pc \in {"writing", "truncating"} => x.todo \subseteq Addr \X {x.on}

\* What the answers to the calls of an update mean.
Wrote(s, x) == x.arg <= Len(s) /\ s[x.arg] = x.ver

Answer(x) ==
  /\ x.op = "write" => x.ver = writes /\ x.arg \in 1..MaxBytes
  /\ x.pc = "writing" =>
       \A n \in Addr : x.ok /\ <<n, x.on>> \notin x.todo => Wrote(At(n, x.on), x)
  /\ x.pc = "sizing" /\ x.op = "write" => \A n \in Addr : Wrote(At(n, x.on), x)
  /\ x.pc = "truncating" =>
       /\ Len(acked[x.on]) <= x.arg
       /\ \A n \in Addr : x.ok /\ <<n, x.on>> \notin x.todo => Len(At(n, x.on)) = x.arg
  /\ x.pc = "sizing" /\ x.op # "write" =>
       /\ Len(acked[x.on]) <= x.arg
       /\ \A n \in Addr : Len(At(n, x.on)) = x.arg

\* What a read has found so far.
Floor(x) ==
  /\ x.pc \in {"reading", "getting", "got"} => x.id \in Entry /\ Above(acked[x.id], x.floor)
  /\ x.pc = "reading" =>
       LET done == Filled(Len(x.buf), x.todo) IN
       /\ Cardinality(Upto(done, Len(x.floor) - x.arg)) <= x.n
       /\ \A j \in done : x.arg + j <= Len(x.floor) => x.floor[x.arg + j] <= x.buf[j]
  /\ x.pc = "got" /\ x.status # "pending" =>
       Len(x.floor) <= x.n /\ \A j \in 1..Len(x.floor) : x.floor[j] <= x.buf[j]

\* Nothing is known of files that do not exist.
Unborn ==
  \A e \in Entry : kind[e] # "file" =>
    acked[e] = <<>> /\ Clean(e) /\ \A n \in Addr : content[n][e] = Absent

\* Replicas have what was acknowledged, and no byte is newer than the last
\* WriteAt.
Covered ==
  \A n \in Addr, e \in Entry :
    /\ Above(At(n, e), acked[e])
    /\ \A i \in 1..Len(At(n, e)) : At(n, e)[i] <= writes

\* SizeBacked, for all files.
Backed ==
  \A e \in Entry :
    kind[e] = "file" /\ ~Updating(e, {"truncate", "open"}) /\ <<e, "truncate">> \notin failed
      => \A n \in Addr : size[e] <= Len(At(n, e))

OneInv ==
  /\ HBase
  /\ \A h \in Handle :
       Role(h, handle[h]) /\ Binding(handle[h]) /\ Answer(handle[h]) /\ Floor(handle[h])
  /\ Unborn /\ Covered /\ Backed

\* The size that a writer keeps.
Sized(x) ==
  /\ x.pc \in {"create", "located"} => x.op = "open"
  /\ x.pc = "open" => x.op = "none"
  /\ x.op = "open" /\ x.pc # "locate" => x.size = 0
  /\ x.op = "open" /\ x.on # Nil => x.arg = 0
  /\ x.pc = "sizing" /\ x.op = "write" => x.size = x.arg
  /\ x.pc = "locate" /\ Clean(lookup(x.path)) => x.size = size[lookup(x.path)]
  /\ x.id # Nil /\ x.pc # "sizing" /\ Clean(x.id) => x.size = size[x.id]

\* A file that no update failed on, while handle x updates it.
Course(x) ==
  LET e == x.on IN
  /\ x.op = "write" => size[e] = Len(acked[e])
  /\ x.pc = "writing" => \A n \in Addr :
       IF <<n, e>> \in x.todo THEN At(n, e) = acked[e]
       ELSE x.ok => At(n, e) = Write(acked[e], x.arg, x.ver)
  /\ x.pc = "sizing" /\ x.op = "write" =>
       x.arg > size[e] /\ \A n \in Addr : At(n, e) = Write(acked[e], x.arg, x.ver)
  /\ x.pc = "truncating" => \A n \in Addr :
       IF <<n, e>> \in x.todo THEN Cut(At(n, e), x.arg) = acked[e]
       ELSE x.ok => At(n, e) = Resize(acked[e], x.arg)
  /\ x.pc = "sizing" /\ x.op # "write" => \A n \in Addr : At(n, e) = Resize(acked[e], x.arg)

\* A file that no update failed on, between updates.
Still(e) == size[e] = Len(acked[e]) /\ \A n \in Addr : At(n, e) = acked[e]

SettledInv ==
  /\ OneInv
  /\ \A h \in Writers : Sized(handle[h])
  /\ \A h \in Handle : handle[h].on # Nil /\ Clean(handle[h].on) => Course(handle[h])
  /\ \A e \in Entry : kind[e] = "file" /\ Clean(e) /\ (\A h \in Handle : handle[h].on # e) => Still(e)

----------------------------------------------------------------------------
(* Paths.                                                                   *)

\* Nothing but a rename moves a path to another file, and files that are open
\* are not renamed.
LEMMA PathsStay ==
  ASSUME HBase, HBase', OneWriter, [HNext]_hvars, NEW h \in Handle,
         lookup(handle[h].path) # Nil, NEW p, p = handle[h].path
  PROVE  p \in Path /\ lookup(p)' = lookup(p)
<1>0. IInv /\ FlatFiles /\ HTypes /\ IInv' /\ FlatFiles'
  BY DEF HBase
<1>1. FlatTree /\ FlatTree'
  <2>1. FlatTree
    BY <1>0, FlatLookup
  <2>2. (IInv /\ FlatFiles => FlatTree)'
    BY FlatLookup, PTL
  <2> QED
    BY <1>0, <2>1, <2>2
<1>2. p \in Path /\ lookup(p) # Nil
  BY <1>0 DEF HTypes, HandleSet
<1>3. /\ Len(p) = 1 /\ p[1] \in Name /\ lookup(p) = children[Root][p[1]]
      /\ lookup(p)' = children'[Root][p[1]]
  <2>1. Len(p) = 1 /\ p[1] \in Name /\ lookup(p) = children[Root][p[1]]
    BY <1>1, <1>2 DEF FlatTree
  <2>2. lookup(p)' = children'[Root][p[1]]
    BY <1>1, <1>2, <2>1 DEF FlatTree
  <2> QED
    BY <2>1, <2>2
<1>4. children \in [Entry -> [Name -> Entry \cup {Nil}]] /\ Root \in Entry
  BY <1>0, NamespaceAssumption DEF IInv, TypeOK
<1>5. FileMove \/ \E src, dst \in Path : Rename(src, dst)
  BY <1>0, TreeSteps
<1>6. CASE children' = children
  BY <1>2, <1>3, <1>6
<1>7. ASSUME NEW q \in Path, NEW e \in Entry, applyCreateFile(q, e, "CreateIfNotExist", 0, Addr)
      PROVE  lookup(p)' = lookup(p)
  <2>1. /\ lookup(q) = Nil /\ ParentFound(q)
        /\ children' = [children EXCEPT ![Parent(q)][Last(q)] = e]
    BY <1>7 DEF applyCreateFile, MayCreate
  <2>2. Len(q) = 1 /\ q[1] \in Name /\ Parent(q) = Root /\ Last(q) = q[1]
        /\ lookup(q) = children[Root][q[1]]
    BY <1>1, <2>1 DEF FlatTree
  <2>3. q[1] # p[1]
    BY <1>2, <1>3, <2>1, <2>2
  <2>4. children'[Root][p[1]] = children[Root][p[1]]
    BY <1>3, <1>4, <2>1, <2>2, <2>3
  <2> QED
    BY <1>3, <2>4
<1>8. ASSUME NEW src \in Path, NEW dst \in Path, Rename(src, dst)
      PROVE  lookup(p)' = lookup(p)
  <2>1. p # src /\ p # dst
    BY <1>8 DEF Rename, OneWriter
  <2>2. /\ lookup(src) # Nil /\ ParentFound(dst)
        /\ children' = [children EXCEPT ![Parent(src)][Last(src)] = Nil,
                                        ![Parent(dst)][Last(dst)] = lookup(src)]
    BY <1>8 DEF Rename, applyRename
  <2>3. /\ Len(src) = 1 /\ src[1] \in Name /\ Parent(src) = Root /\ Last(src) = src[1]
        /\ Len(dst) = 1 /\ dst[1] \in Name /\ Parent(dst) = Root /\ Last(dst) = dst[1]
    BY <1>1, <2>2 DEF FlatTree
  <2>4. \A q \in Path : Len(q) = 1 /\ q # p => q[1] # p[1]
    <3>1. TAKE q \in Path
    <3>2. q \in Seq(Name) /\ p \in Seq(Name)
      BY <1>2, PathIsSeq
    <3> QED
      BY <1>3, <3>2
  <2>5. src[1] # p[1] /\ dst[1] # p[1]
    BY <2>1, <2>3, <2>4
  <2>6. children'[Root][p[1]] = children[Root][p[1]]
    BY <1>3, <1>4, <2>2, <2>3, <2>5
  <2> QED
    BY <1>3, <2>6
<1> QED
  BY <1>2, <1>5, <1>6, <1>7, <1>8 DEF FileMove, tree, applyCompleteFile, applyUpdateSize,
                                     applyUpdateStatus

\* Files stay, and only a size update by their path changes their size.
LEMMA FilesStay ==
  ASSUME HBase, [HNext]_hvars
  PROVE  \A e \in Entry : kind[e] = "file" => kind'[e] = "file"
<1>1. IInv /\ FlatFiles /\ HTypes
  BY DEF HBase
<1>2. TreeMove
  BY <1>1, TreeSteps DEF TreeMove, Rename
<1> QED
  BY <1>1, <1>2, TreeStays

LEMMA AtFacts ==
  ASSUME HBase
  PROVE  /\ \A n \in Addr, e \in Entry : At(n, e) \in Bytes /\ BytesAt(<<n, e>>) = At(n, e)
         /\ \A r \in Replica : r[1] \in Addr /\ r[2] \in Entry /\ BytesAt(r) = At(r[1], r[2])
         /\ acked \in [Entry -> Bytes]
<1>1. HTypes
  BY DEF HBase
<1>2. \A n \in Addr, e \in Entry : At(n, e) \in Bytes /\ BytesAt(<<n, e>>) = At(n, e)
  BY <1>1, HConsts DEF HTypes, At, BytesAt
<1>3. \A r \in Replica : r[1] \in Addr /\ r[2] \in Entry /\ BytesAt(r) = At(r[1], r[2])
  BY DEF Replica, At, BytesAt
<1> QED
  BY <1>1, <1>2, <1>3 DEF HTypes

LEMMA Stored ==
  ASSUME HBase, NEW n \in Addr, NEW f \in Entry, NEW s \in Bytes,
         \A m \in Addr, e \in Entry :
           content'[m][e] = IF m = n /\ e = f THEN s ELSE content[m][e]
  PROVE  \A m \in Addr, e \in Entry : At(m, e)' = IF m = n /\ e = f THEN s ELSE At(m, e)
<1>1. s # Absent
  BY BytesFacts
<1> QED
  BY <1>1 DEF At

LEMMA AboveFacts ==
  /\ \A s \in Bytes : Above(s, s)
  /\ \A s, t, u \in Bytes : Above(s, t) /\ Above(t, u) => Above(s, u)
<1>1. ASSUME NEW s \in Bytes PROVE Above(s, s)
  BY BytesFacts DEF Above
<1>2. ASSUME NEW s \in Bytes, NEW t \in Bytes, NEW u \in Bytes, Above(s, t), Above(t, u)
      PROVE  Above(s, u)
  <2>1. Len(s) \in Nat /\ Len(t) \in Nat /\ Len(u) \in Nat
    BY BytesFacts
  <2>2. Len(u) <= Len(t) /\ Len(t) <= Len(s) /\ Len(u) <= Len(s)
    BY <1>2, <2>1 DEF Above
  <2>3. ASSUME NEW i \in 1..Len(u) PROVE u[i] <= s[i]
    <3>1. i \in 1..Len(t) /\ i \in 1..Len(s)
      BY <2>1, <2>2
    <3>2. u[i] <= t[i] /\ t[i] <= s[i]
      BY <1>2, <3>1 DEF Above
    <3>3. u[i] \in Nat /\ t[i] \in Nat /\ s[i] \in Nat
      BY <3>1, BytesFacts
    <3> QED
      BY <3>2, <3>3
  <2> QED
    BY <2>2, <2>3 DEF Above
<1> QED
  BY <1>1, <1>2

----------------------------------------------------------------------------
(* Handles that a step leaves alone.                                        *)

\* What one handle is in, in a state.
Fine(h) == Role(h, handle[h]) /\ Binding(handle[h]) /\ Answer(handle[h]) /\ Floor(handle[h])

LEMMA OneParts ==
  OneInv <=> HBase /\ (\A h \in Handle : Fine(h)) /\ Unborn /\ Covered /\ Backed
  BY DEF OneInv, Fine

LEMMA Bystander ==
  ASSUME OneInv, HBase', OneWriter, [HNext]_hvars, NEW g \in Handle, handle'[g] = handle[g],
         g \notin Writers \/ UNCHANGED <<content, writes, acked>>,
         \A e \in Entry : Above(acked'[e], acked[e])
  PROVE  Fine(g)'
<1> DEFINE x == handle[g]
<1>0. HBase /\ Role(g, x) /\ Binding(x) /\ Answer(x) /\ Floor(x)
  BY DEF OneInv
<1>1. x \in HandleSet /\ acked \in [Entry -> Bytes] /\ acked' \in [Entry -> Bytes]
  BY <1>0 DEF HBase, HTypes
<1>2. Role(g, handle[g])'
  BY <1>0 DEF Role
<1>3. Binding(handle[g])'
  <2>1. PICK p : p = x.path
    OBVIOUS
  <2>2. lookup(p) # Nil => lookup(p)' = lookup(p)
    BY <1>0, <2>1, PathsStay
  <2>3. x.path = p /\ handle'[g].path = p
    BY <2>1
  <2>4. Nil \notin Entry
    BY NamespaceAssumption
  <2> QED
    BY <1>0, <2>2, <2>3 DEF Binding
<1>4. Answer(handle[g])'
  <2>1. CASE UNCHANGED <<content, writes, acked>>
    BY <1>0, <2>1 DEF Answer, Wrote, At
  <2>2. CASE g \notin Writers
    <3>1. x.pc \notin {"writing", "truncating", "sizing"} /\ x.op # "write"
      BY <1>0, <2>2 DEF Role
    <3> QED
      BY <3>1 DEF Answer
  <2> QED
    BY <2>1, <2>2
<1>5. Floor(handle[g])'
  <2>1. ASSUME x.id \in Entry, Above(acked[x.id], x.floor) PROVE Above(acked'[x.id], x.floor)
    <3>1. x.floor \in Bytes /\ acked[x.id] \in Bytes /\ acked'[x.id] \in Bytes
      BY <1>1, <2>1 DEF HandleSet
    <3> QED
      BY <2>1, <3>1, AboveFacts
  <2> QED
    BY <1>0, <2>1 DEF Floor
<1> QED
  BY <1>2, <1>3, <1>4, <1>5 DEF Fine

LEMMA AckedSame ==
  ASSUME HBase, UNCHANGED acked
  PROVE  \A e \in Entry : Above(acked'[e], acked[e])
  BY AtFacts, AboveFacts

\* Steps that change no bytes, and no handle that updates a file.
LEMMA QuietStep ==
  ASSUME OneInv, HBase', OneWriter, [HNext]_hvars,
         UNCHANGED <<content, writes, acked, failed>>,
         \A e \in Entry : kind[e] = "file" => size'[e] = size[e],
         \A e \in Entry : kind'[e] = "file" /\ kind[e] # "file" => size'[e] = 0,
         \A g \in Handle : \/ handle'[g] = handle[g]
                           \/ /\ handle[g].on = Nil /\ handle'[g].on = Nil
                              /\ Role(g, handle[g])' /\ Binding(handle[g])' /\ Floor(handle[g])'
  PROVE  OneInv'
<1>0. HBase /\ Unborn /\ Covered /\ Backed
  BY DEF OneInv
<1>1. \A g \in Handle : Fine(g)'
  <2>1. TAKE g \in Handle
  <2>2. CASE handle'[g] = handle[g]
    BY <1>0, <2>2, AckedSame, Bystander
  <2>3. CASE /\ handle'[g].on = Nil
             /\ Role(g, handle[g])' /\ Binding(handle[g])' /\ Floor(handle[g])'
    <3>1. handle'[g].pc \notin {"writing", "truncating", "sizing"} /\ handle'[g].op # "write"
      BY <2>3 DEF Role
    <3>2. Answer(handle[g])'
      BY <3>1 DEF Answer
    <3> QED
      BY <2>3, <3>2 DEF Fine
  <2> QED
    BY <2>2, <2>3
<1>2. \A n \in Addr, e \in Entry : At(n, e)' = At(n, e)
  BY DEF At
<1>3. Covered'
  BY <1>0, <1>2 DEF Covered
<1>4. \A e \in Entry : kind[e] = "file" => kind'[e] = "file"
  BY <1>0, FilesStay
<1>5. Unborn'
  BY <1>0, <1>4 DEF Unborn, Clean
<1>6. \A e \in Entry : Updating(e, {"truncate", "open"})' = Updating(e, {"truncate", "open"})
  <2>1. \A e \in Entry, g \in Handle :
          (handle'[g].on = e /\ handle'[g].op \in {"truncate", "open"})
            <=> (handle[g].on = e /\ handle[g].op \in {"truncate", "open"})
    BY NamespaceAssumption
  <2> QED
    BY <2>1 DEF Updating
<1>7. Backed'
  <2>1. SUFFICES ASSUME NEW e \in Entry, kind'[e] = "file",
                        ~Updating(e, {"truncate", "open"})', <<e, "truncate">> \notin failed',
                        NEW n \in Addr
                 PROVE  size'[e] <= Len(At(n, e)')
    BY DEF Backed
  <2>2. CASE kind[e] = "file"
    BY <1>0, <1>2, <1>6, <2>1, <2>2 DEF Backed
  <2>3. CASE kind[e] # "file"
    <3>1. Len(At(n, e)) \in Nat
      BY <1>0, AtFacts, BytesFacts
    <3> QED
      BY <1>2, <2>1, <2>3, <3>1
  <2> QED
    BY <2>2, <2>3
<1> QED
  BY <1>1, <1>3, <1>5, <1>7, OneParts DEF OneInv, Fine

\* Steps of the writer.
LEMMA WriterStep ==
  ASSUME OneInv, HBase', OneWriter, [HNext]_hvars, NEW h \in Writers,
         \A g \in Handle : g # h => handle'[g] = handle[g],
         \A e \in Entry : Above(acked'[e], acked[e]),
         Role(h, handle[h])', Binding(handle[h])', Answer(handle[h])',
         Unborn', Covered', Backed'
  PROVE  OneInv'
<1>1. \A g \in Handle : Fine(g)'
  <2>1. TAKE g \in Handle
  <2>2. CASE g # h
    <3>1. g \notin Writers
      BY <2>2 DEF OneWriter
    <3> QED
      BY <2>2, <3>1, Bystander
  <2>3. CASE g = h
    <3>1. handle'[h].pc \notin {"reading", "getting", "got"}
      BY DEF Role
    <3>2. Floor(handle[h])'
      BY <3>1 DEF Floor
    <3> QED
      BY <2>3, <3>2 DEF Fine
  <2> QED
    BY <2>2, <2>3
<1> QED
  BY <1>1 DEF OneInv, Fine

----------------------------------------------------------------------------
(* Opening, reading and closing.                                            *)

LEMMA SameLookup ==
  ASSUME HBase, HBase', children' = children
  PROVE  \A p \in Path : lookup(p)' = lookup(p)
<1>0. IInv /\ FlatFiles /\ IInv' /\ FlatFiles'
  BY DEF HBase
<1>1. FlatTree
  BY <1>0, FlatLookup
<1>2. (IInv /\ FlatFiles => FlatTree)'
  BY FlatLookup, PTL
<1>3. FlatTree'
  BY <1>0, <1>2
<1> QED
  BY <1>1, <1>3 DEF FlatTree

LEMMA ClosedFine ==
  ASSUME NEW h \in Handle
  PROVE  /\ Role(h, ClosedHandle) /\ Binding(ClosedHandle) /\ Floor(ClosedHandle)
         /\ ClosedHandle.on = Nil
  BY DEF ClosedHandle, Role, Binding, Floor

LEMMA BackFine ==
  ASSUME NEW h \in Handle, NEW x \in HandleSet, Binding(x), x.id \in Entry
  PROVE  /\ Role(h, Back(x)) /\ Binding(Back(x)) /\ Floor(Back(x)) /\ Back(x).on = Nil
         /\ Back(x).path = x.path /\ Back(x).pc = "open" /\ Back(x).op = "none"
<1>1. /\ Back(x).on = Nil /\ Back(x).pc = "open" /\ Back(x).op = "none"
      /\ Back(x).id = x.id /\ Back(x).path = x.path /\ Back(x).replicas = x.replicas
  BY DEF Back, HandleSet
<1>2. x.id # Nil
  BY NamespaceAssumption
<1> QED
  BY <1>1, <1>2 DEF Role, Binding, Floor

LEMMA QuietSet ==
  ASSUME OneInv, HBase', OneWriter, [HNext]_hvars, NEW h \in Handle, NEW y, Set(h, y),
         UNCHANGED <<tree, content, writes, acked, failed>>,
         handle[h].on = Nil, y.on = Nil, Role(h, y), Binding(y), Floor(y)
  PROVE  OneInv'
<1>0. HBase /\ handle \in [Handle -> HandleSet]
  BY DEF OneInv, HBase, HTypes
<1>1. handle'[h] = y /\ \A g \in Handle : g # h => handle'[g] = handle[g]
  BY <1>0 DEF Set
<1>2. y.path \in Path
  BY <1>1 DEF HBase, HTypes, HandleSet
<1>3. lookup(y.path)' = lookup(y.path)
  BY <1>0, <1>2, SameLookup DEF tree
<1>4. Role(h, handle[h])' /\ Floor(handle[h])'
  BY <1>1 DEF Role, Floor
<1>5. Binding(handle[h])'
  BY <1>1, <1>3 DEF Binding
<1>6. kind' = kind /\ size' = size
  BY DEF tree
<1> QED
  BY <1>1, <1>4, <1>5, <1>6, QuietStep

\* The handle of a quiet step.
LEMMA Standing ==
  ASSUME OneInv, NEW h \in Handle
  PROVE  /\ HBase /\ IInv /\ FlatFiles /\ HTypes
         /\ handle[h] \in HandleSet /\ Progress(handle[h]) /\ handle[h].path \in Path
         /\ Role(h, handle[h]) /\ Binding(handle[h]) /\ Answer(handle[h]) /\ Floor(handle[h])
         /\ Nil \notin Entry
  BY NamespaceAssumption DEF OneInv, HBase, HTypes, HandleSet

LEMMA OneOpen ==
  ASSUME OneInv, HBase', OneWriter, [HNext]_hvars, NEW h \in Handle,
         \/ \E p \in Path, flags \in OpenFlags \cup {{}} : OpenStat(h, p, flags)
         \/ OpenLocate(h)
         \/ OpenTruncate(h) /\ ~truncateAllReplicas(h, 0)
  PROVE  OneInv'
<1> DEFINE x == handle[h]
<1>0. /\ HBase /\ IInv /\ FlatFiles /\ x \in HandleSet /\ x.path \in Path /\ Progress(x)
      /\ Role(h, x) /\ Binding(x) /\ Nil \notin Entry
  BY Standing
<1> HIDE DEF x
<1>1. ASSUME NEW p \in Path, NEW flags \in OpenFlags \cup {{}}, OpenStat(h, p, flags)
      PROVE  OneInv'
  <2> DEFINE c == [ClosedHandle EXCEPT !.path = p, !.op = "open", !.flags = flags]
  <2>1. /\ c.on = Nil /\ c.id = Nil /\ c.replicas = {} /\ c.path = p /\ c.op = "open"
        /\ DOMAIN c = DOMAIN ClosedHandle
    BY DEF ClosedHandle
  <2>2. /\ UNCHANGED <<tree, content, writes, acked, failed>> /\ x.on = Nil
        /\ h \in Writers \/ flags = {}
    BY <1>0, <1>1 DEF OpenStat, Role, x
  <2>3. ASSUME NEW y, y.on = Nil, y.id = Nil, y.replicas = {}, y.path = p, y.op = "open", Set(h, y),
               y.pc \in {"create", "located", "locate"},
               y.pc = "locate" => lookup(p) # Nil, y.pc # "locate" => h \in Writers
        PROVE  OneInv'
    <3>1. Role(h, y) /\ Binding(y) /\ Floor(y)
      BY <2>3 DEF Role, Binding, Floor
    <3> QED
      BY <2>2, <2>3, <3>1, QuietSet DEF x
  <2>4. \/ "O_CREAT" \in flags /\ Set(h, [c EXCEPT !.pc = "create"])
        \/ "O_TRUNC" \in flags /\ Set(h, [c EXCEPT !.pc = "located"])
        \/ lookup(p) # Nil /\ Set(h, [c EXCEPT !.pc = "locate", !.size = size[lookup(p)]])
    BY <1>1 DEF OpenStat, IsFile
  <2>5. \A f : /\ [c EXCEPT !.pc = f].on = Nil /\ [c EXCEPT !.pc = f].id = Nil
               /\ [c EXCEPT !.pc = f].replicas = {} /\ [c EXCEPT !.pc = f].path = p
               /\ [c EXCEPT !.pc = f].op = "open" /\ [c EXCEPT !.pc = f].pc = f
    BY DEF ClosedHandle
  <2>6. CASE "O_CREAT" \in flags /\ Set(h, [c EXCEPT !.pc = "create"])
    <3>1. h \in Writers
      BY <2>2, <2>6
    <3> HIDE DEF c
    <3> QED
      BY <2>3, <2>5, <2>6, <3>1
  <2>7. CASE "O_TRUNC" \in flags /\ Set(h, [c EXCEPT !.pc = "located"])
    <3>1. h \in Writers
      BY <2>2, <2>7
    <3> HIDE DEF c
    <3> QED
      BY <2>3, <2>5, <2>7, <3>1
  <2>8. CASE lookup(p) # Nil /\ Set(h, [c EXCEPT !.pc = "locate", !.size = size[lookup(p)]])
    <3> DEFINE y == [c EXCEPT !.pc = "locate", !.size = size[lookup(p)]]
    <3>1. /\ y.on = Nil /\ y.id = Nil /\ y.replicas = {} /\ y.path = p /\ y.op = "open"
          /\ y.pc = "locate"
      BY DEF ClosedHandle
    <3> HIDE DEF y
    <3> QED
      BY <2>3, <2>8, <3>1 DEF y
  <2> QED
    BY <2>4, <2>6, <2>7, <2>8
<1>2. ASSUME OpenLocate(h) PROVE OneInv'
  <2> DEFINE e == lookup(x.path)
             st == IF x.status = "none" THEN status[e] ELSE x.status
             y == [x EXCEPT !.pc = "open", !.op = "none", !.flags = {}, !.status = st,
                     !.id = fileID[e], !.replicas = IF @ = {} THEN replicas[e] ELSE @]
  <2>1. /\ x.pc = "locate" /\ UNCHANGED <<tree, content, writes, acked, failed>>
        /\ Set(h, ClosedHandle) \/ (IsFile(e) /\ Set(h, y))
    BY <1>2 DEF OpenLocate, x
  <2>2. x.on = Nil
    BY <1>0, <2>1 DEF Role
  <2>3. CASE Set(h, ClosedHandle)
    BY <2>1, <2>2, <2>3, ClosedFine, QuietSet DEF x
  <2>4. CASE IsFile(e) /\ Set(h, y)
    <3>1. fileID[e] = e /\ e \in Entry /\ replicas[e] = Addr \X {e}
      BY <1>0, <2>4, FileFacts
    <3>2. x.replicas # {} => x.replicas = Addr \X {e}
      BY <1>0, <3>1 DEF Binding
    <3>3. /\ y.pc = "open" /\ y.op = "none" /\ y.id = e /\ y.on = Nil /\ y.path = x.path
          /\ y.replicas = Addr \X {e}
      BY <1>0, <2>2, <3>1, <3>2 DEF HandleSet
    <3> HIDE DEF y
    <3>4. Role(h, y) /\ Binding(y) /\ Floor(y)
      BY <1>0, <3>1, <3>3 DEF Role, Binding, Floor
    <3> QED
      BY <2>1, <2>2, <2>4, <3>3, <3>4, QuietSet DEF x
  <2> QED
    BY <2>1, <2>3, <2>4
<1>3. ASSUME OpenTruncate(h), ~truncateAllReplicas(h, 0) PROVE OneInv'
  <2>1. /\ x.pc = "located" /\ Set(h, ClosedHandle)
        /\ UNCHANGED <<tree, content, writes, acked, failed>>
    BY <1>3 DEF OpenTruncate, x
  <2>2. x.on = Nil
    BY <1>0, <2>1 DEF Role
  <2> QED
    BY <2>1, <2>2, ClosedFine, QuietSet DEF x
<1> QED
  BY <1>1, <1>2, <1>3

\* CreateFile makes a file of which nothing is known yet.
LEMMA OneCreate ==
  ASSUME OneInv, HBase', OneWriter, [HNext]_hvars, NEW h \in Handle, NEW e \in Entry,
         OpenCreate(h, e)
  PROVE  OneInv'
<1> DEFINE x == handle[h]
<1>0. /\ HBase /\ IInv /\ FlatFiles /\ x \in HandleSet /\ x.path \in Path /\ Progress(x)
      /\ Role(h, x) /\ Binding(x) /\ Nil \notin Entry
  BY Standing
<1>1. x.pc = "create" /\ UNCHANGED <<content, writes, acked, failed>>
  BY DEF OpenCreate
<1>2. x.on = Nil /\ h \in Writers
  BY <1>0, <1>1 DEF Role
<1>3. CASE Set(h, ClosedHandle) /\ UNCHANGED tree
  BY <1>1, <1>2, <1>3, ClosedFine, QuietSet
<1>4. ASSUME applyCreateFile(x.path, e, "CreateIfNotExist", 0, Addr),
             handle' = [handle EXCEPT ![h].pc = "locate", ![h].status = "pending",
                                      ![h].replicas = Addr \X {e}]
      PROVE  OneInv'
  <2>1. /\ lookup(x.path) = Nil /\ ParentFound(x.path) /\ kind[e] = "free"
        /\ children' = [children EXCEPT ![Parent(x.path)][Last(x.path)] = e]
        /\ kind' = [kind EXCEPT ![e] = "file"] /\ size' = [size EXCEPT ![e] = 0]
    BY <1>4 DEF applyCreateFile, MayCreate, Fresh
  <2>2. PICK p \in Path : p = x.path
    BY <1>0
  <2>3. lookup(p)' = e
    <3>1. FlatTree
      BY <1>0, FlatLookup
    <3>2. (IInv /\ FlatFiles => FlatTree)'
      BY FlatLookup, PTL
    <3>3. FlatTree'
      BY <3>2 DEF HBase
    <3>4. Len(p) = 1 /\ p[1] \in Name /\ Parent(p) = Root /\ Last(p) = p[1]
      BY <2>1, <2>2, <3>1 DEF FlatTree
    <3>5. children \in [Entry -> [Name -> Entry \cup {Nil}]] /\ Root \in Entry
      BY <1>0, NamespaceAssumption DEF IInv, TypeOK
    <3>6. children'[Root][p[1]] = e
      BY <2>1, <2>2, <3>4, <3>5
    <3> QED
      BY <3>3, <3>4, <3>6 DEF FlatTree
  <2>4. handle \in [Handle -> HandleSet]
    BY <1>0 DEF HBase, HTypes
  <2>5. /\ \A g \in Handle : g # h => handle'[g] = handle[g]
        /\ handle'[h] = [x EXCEPT !.pc = "locate", !.status = "pending", !.replicas = Addr \X {e}]
    BY <1>4, <2>4
  <2>6. /\ handle'[h].pc = "locate" /\ handle'[h].replicas = Addr \X {e} /\ handle'[h].path = p
        /\ handle'[h].id = x.id /\ handle'[h].on = Nil /\ handle'[h].op = x.op
    BY <1>0, <1>2, <2>2, <2>5 DEF HandleSet
  <2>7. x.id = Nil /\ x.op # "write"
    <3>1. x.id # Nil => lookup(x.path) = x.id
      BY <1>0 DEF Binding
    <3> QED
      BY <1>0, <1>1, <2>1, <3>1 DEF Role
  <2>8. Role(h, handle[h])' /\ Floor(handle[h])'
    BY <1>0, <1>2, <2>6, <2>7 DEF Role, Floor
  <2>9. Binding(handle[h])'
    BY <1>0, <2>3, <2>6, <2>7 DEF Binding
  <2>10. /\ \A d \in Entry : kind[d] = "file" => size'[d] = size[d]
         /\ \A d \in Entry : kind'[d] = "file" /\ kind[d] # "file" => size'[d] = 0
    <3>1. kind \in [Entry -> {"free", "dir", "file"}] /\ size \in [Entry -> Size \cup {0}]
      BY <1>0 DEF IInv, TypeOK
    <3> QED
      BY <2>1, <3>1
  <2> QED
    BY <1>1, <1>2, <2>5, <2>6, <2>8, <2>9, <2>10, QuietStep
<1> QED
  BY <1>3, <1>4 DEF OpenCreate

\* ReadAt, RangeRead and GetFile.
LEMMA OneReadAt ==
  ASSUME OneInv, HBase', OneWriter, [HNext]_hvars, NEW h \in Handle,
         NEW range \in Reads, ReadAt(h, range[1], range[2])
  PROVE  OneInv'
<1> DEFINE x == handle[h]
           len == range[2]
           new == [j \in 1..len |-> Unread]
           segs == Segments(Cardinality(x.replicas), len)
           y == [x EXCEPT !.pc = "reading", !.arg = range[1], !.todo = segs,
                   !.buf = new, !.floor = acked[x.id]]
<1>0. /\ HBase /\ x \in HandleSet /\ Progress(x) /\ Role(h, x) /\ Binding(x) /\ Nil \notin Entry
  BY Standing
<1>1. /\ x.pc = "open" /\ h \notin Writers /\ x.replicas # {} /\ Set(h, y)
      /\ UNCHANGED <<tree, content, writes, acked, failed>>
  BY DEF ReadAt
<1>2. x.id \in Entry /\ IsFiniteSet(x.replicas) /\ x.on = Nil /\ x.op # "write" /\ x.n = 0
  BY <1>0, <1>1 DEF Progress, Role
<1>3. len \in Nat \ {0} /\ range[1] \in Nat
  BY HandlesAssumption, HConsts
<1>4. Cardinality(x.replicas) \in Nat \ {0}
  BY <1>1, <1>2, FS_EmptySet, FS_CardinalityType
<1>5. Len(new) = len
  BY <1>3
<1>6. Filled(len, segs) = {}
  BY <1>3, <1>4, NothingFilled
<1>7. acked[x.id] \in Bytes
  BY <1>0, <1>2, AtFacts
<1> HIDE DEF new, segs
<1>8. /\ y.pc = "reading" /\ y.id = x.id /\ y.on = x.on /\ y.op = x.op /\ y.n = x.n
      /\ y.path = x.path /\ y.buf = new /\ y.replicas = x.replicas /\ y.todo = segs
      /\ y.arg = range[1] /\ y.floor = acked[x.id]
  BY <1>0 DEF HandleSet
<1> HIDE DEF y
<1>9. Role(h, y) /\ Binding(y)
  BY <1>0, <1>1, <1>2, <1>8 DEF Role, Binding
<1>10. Floor(y)
  <2>1. Above(acked[x.id], acked[x.id])
    BY <1>7, AboveFacts
  <2>2. Filled(Len(y.buf), y.todo) = {}
    BY <1>5, <1>6, <1>8
  <2>3. Upto({}, Len(y.floor) - y.arg) = {} /\ Cardinality({}) = 0
    BY FS_EmptySet DEF Upto
  <2>4. Cardinality(Upto(Filled(Len(y.buf), y.todo), Len(y.floor) - y.arg)) <= y.n
    <3>1. Upto(Filled(Len(y.buf), y.todo), Len(y.floor) - y.arg) = {}
      BY <2>2, <2>3
    <3>2. y.n = 0
      BY <1>2, <1>8
    <3>3. Cardinality(Upto(Filled(Len(y.buf), y.todo), Len(y.floor) - y.arg)) = 0
      BY ONLY <2>3, <3>1, Zenon
    <3>4. \A m, n : m = 0 /\ n = 0 => m <= n
      OBVIOUS
    <3> QED
      BY ONLY <3>2, <3>3, <3>4, Zenon
  <2> QED
    BY <1>2, <1>8, <2>1, <2>2, <2>4 DEF Floor
<1> QED
  BY <1>1, <1>2, <1>8, <1>9, <1>10, QuietSet

\* The bytes that a segment brings are as new as what was acknowledged when
\* the read began: every replica has that.
LEMMA OneRangeRead ==
  ASSUME OneInv, HBase', OneWriter, [HNext]_hvars, NEW h \in Handle,
         NEW seg \in handle[h].todo, NEW r \in Replica, RangeRead(h, seg, r)
  PROVE  OneInv'
<1> DEFINE x == handle[h]
           s == BytesAt(r)
           last == Smaller(seg[2], Len(s) - x.arg)
           got == Larger(0, last - seg[1] + 1)
           new == [j \in DOMAIN x.buf |-> IF j \in seg[1]..last THEN s[x.arg + j] ELSE x.buf[j]]
           y == [x EXCEPT !.todo = @ \ {seg}, !.n = @ + got, !.buf = new]
           width == Len(x.buf)
           top == Len(x.floor) - x.arg
           F == Filled(width, x.todo)
           G == Filled(width, x.todo \ {seg})
<1>0. /\ HBase /\ HTypes /\ x \in HandleSet /\ Progress(x) /\ Role(h, x) /\ Binding(x) /\ Floor(x)
      /\ Nil \notin Entry /\ Covered
  BY Standing DEF OneInv
<1>1. /\ x.pc = "reading" /\ seg \in x.todo /\ r \in x.replicas /\ Set(h, y)
      /\ UNCHANGED <<tree, content, writes, acked, failed>>
  BY DEF RangeRead
<1>2. /\ x.id \in Entry /\ IsFiniteSet(x.replicas) /\ x.replicas # {} /\ x.on = Nil /\ x.op # "write"
      /\ x.todo \in SUBSET Segments(Cardinality(x.replicas), width) /\ width > 0
  BY <1>0, <1>1 DEF Progress, Role
<1>3. x.arg \in Nat /\ x.n \in Nat /\ x.floor \in Bytes /\ x.buf \in Seq(Int) /\ width \in Nat \ {0}
  BY <1>0, <1>2, HConsts DEF HandleSet
<1>4. Cardinality(x.replicas) \in Nat \ {0}
  BY <1>1, <1>2, FS_EmptySet, FS_CardinalityType
<1>5. /\ seg[1] \in Nat /\ seg[2] \in Nat /\ seg[1] >= 1 /\ seg[2] <= width /\ seg[1] <= seg[2]
  <2>1. seg \in Nat \X Nat /\ seg[1] >= 1 /\ seg[2] <= width /\ seg[1] <= seg[2]
    BY <1>1, <1>2, <1>3, <1>4, SegmentsFacts
  <2> QED
    BY <2>1
<1>6. /\ s \in Bytes /\ Above(s, acked[x.id]) /\ Above(acked[x.id], x.floor) /\ acked[x.id] \in Bytes
  <2>1. r[1] \in Addr /\ r[2] = x.id
    <3>1. x.replicas = Addr \X {x.id}
      BY <1>0, <1>2 DEF Binding
    <3> QED
      BY <1>1, <3>1
  <2>2. s = At(r[1], x.id) /\ At(r[1], x.id) \in Bytes /\ acked[x.id] \in Bytes
    BY <1>0, <1>2, <2>1, AtFacts
  <2>3. Above(At(r[1], x.id), acked[x.id])
    BY <1>0, <1>2, <2>1 DEF Covered
  <2>4. Above(acked[x.id], x.floor)
    BY <1>0, <1>1 DEF Floor
  <2> QED
    BY <2>2, <2>3, <2>4
<1>7. Above(s, x.floor)
  BY <1>3, <1>6, AboveFacts
<1>8. /\ Len(s) \in Nat /\ Len(x.floor) \in Nat /\ Len(x.floor) <= Len(s)
      /\ \A i \in 1..Len(s) : s[i] \in Int
  BY <1>3, <1>6, <1>7, BytesFacts DEF Above
<1> HIDE DEF s
<1>9. top \in Int /\ top <= Len(s) - x.arg /\ Len(s) - x.arg \in Int
  BY <1>3, <1>8
<1>10. /\ last \in Int /\ last <= Len(s) - x.arg /\ last <= seg[2]
       /\ Smaller(seg[2], top) \in Int /\ Smaller(seg[2], top) <= last
       /\ got \in Nat
       /\ (IF seg[1] > Smaller(seg[2], top) THEN 0 ELSE Smaller(seg[2], top) - seg[1] + 1) <= got
  <2> HIDE DEF top
  <2>1. /\ last \in Int /\ last <= Len(s) - x.arg /\ last <= seg[2]
        /\ Smaller(seg[2], top) \in Int /\ Smaller(seg[2], top) <= last
    BY <1>5, <1>9 DEF Smaller
  <2> HIDE DEF last
  <2> QED
    BY <1>5, <2>1 DEF Larger
<1>11. /\ \A j : j \in G <=> j \in F \/ j \in seg[1]..seg[2]
       /\ Cardinality(Upto(F, top)) \in Nat
       /\ Cardinality(Upto(G, top)) \in Nat
       /\ Cardinality(Upto(G, top)) = Cardinality(Upto(F, top))
            + (IF seg[1] > Smaller(seg[2], top) THEN 0 ELSE Smaller(seg[2], top) - seg[1] + 1)
  <2>1. top \in Int /\ width \in Nat \ {0} /\ Cardinality(x.replicas) \in Nat \ {0}
        /\ x.todo \in SUBSET Segments(Cardinality(x.replicas), width) /\ seg \in x.todo
    BY <1>1, <1>2, <1>3, <1>4, <1>9
  <2> HIDE DEF top, width, x
  <2>2. \A j : j \in G <=> j \in F \/ j \in seg[1]..seg[2]
    BY <2>1, FilledUnion
  <2>3. Cardinality(Upto(F, top)) \in Nat /\ Cardinality(Upto(G, top)) \in Nat
    BY <2>1, FilledGrows
  <2>4. Cardinality(Upto(G, top)) = Cardinality(Upto(F, top))
          + (IF seg[1] > Smaller(seg[2], top) THEN 0 ELSE Smaller(seg[2], top) - seg[1] + 1)
    BY <2>1, FilledGrows
  <2> QED
    BY <2>2, <2>3, <2>4
<1>12. /\ Cardinality(Upto(F, top)) <= x.n
       /\ \A j \in F : x.arg + j <= Len(x.floor) => x.floor[x.arg + j] <= x.buf[j]
  BY <1>0, <1>1 DEF Floor
<1>13. Cardinality(Upto(G, top)) <= x.n + got
  <2> HIDE DEF F, G, top, got
  <2> DEFINE a == Cardinality(Upto(F, top))
             b == Cardinality(Upto(G, top))
             d == IF seg[1] > Smaller(seg[2], top) THEN 0 ELSE Smaller(seg[2], top) - seg[1] + 1
  <2>1. a \in Nat /\ b = a + d /\ d <= got /\ a <= x.n /\ d \in Int /\ got \in Nat /\ x.n \in Nat
    BY <1>3, <1>5, <1>10, <1>11, <1>12, SMTT(60)
  <2> HIDE DEF a, b, d
  <2>2. b <= x.n + got
    BY <2>1
  <2> QED
    BY <2>2 DEF b
<1>14. \A j \in seg[1]..last : j \in Nat /\ x.arg + j \in 1..Len(s)
  <2> HIDE DEF last
  <2> QED
    BY <1>3, <1>5, <1>8, <1>10, InFile
<1> HIDE DEF last, got
<1>15. DOMAIN x.buf = 1..width /\ \A j \in 1..width : x.buf[j] \in Int
  BY <1>3
<1>16. new \in [1..width -> Int]
  BY <1>8, <1>14, <1>15
<1>17. Len(new) = width
  BY <1>3, <1>16
<1>18. \A j \in 1..width : new[j] = IF j \in seg[1]..last THEN s[x.arg + j] ELSE x.buf[j]
  BY <1>15
<1> HIDE DEF new
<1>19. /\ y.pc = "reading" /\ y.id = x.id /\ y.on = x.on /\ y.op = x.op /\ y.n = x.n + got
       /\ y.path = x.path /\ y.buf = new /\ y.replicas = x.replicas /\ y.todo = x.todo \ {seg}
       /\ y.arg = x.arg /\ y.floor = x.floor
  BY <1>0, <1>1 DEF HandleSet
<1> HIDE DEF y
<1>20. \A j \in G : x.arg + j <= Len(x.floor) => x.floor[x.arg + j] <= new[j]
  <2>1. TAKE j \in G
  <2>2. HAVE x.arg + j <= Len(x.floor)
  <2>3. j \in 1..width
    BY DEF Filled
  <2>4. CASE j \in seg[1]..last
    <3>1. x.arg + j \in 1..Len(x.floor)
      BY <1>3, <1>8, <1>14, <2>2, <2>3, <2>4
    <3>2. x.floor[x.arg + j] <= s[x.arg + j]
      BY <1>7, <3>1 DEF Above
    <3> QED
      BY <1>18, <2>3, <2>4, <3>2
  <2>5. CASE j \notin seg[1]..last
    <3>1. j \notin seg[1]..seg[2]
      <4>1. j <= top
        BY <1>3, <1>8, <2>2, <2>3, SMTT(60)
      <4>2. j \in seg[1]..seg[2] => j <= Smaller(seg[2], top)
        BY <1>5, <1>9, <4>1 DEF Smaller
      <4> HIDE DEF top
      <4> QED
        BY <1>5, <1>10, <2>3, <2>5, <4>2
    <3>2. j \in F
      BY <1>11, <3>1
    <3> QED
      BY <1>12, <1>18, <2>2, <2>3, <2>5, <3>2
  <2> QED
    BY <2>4, <2>5
<1>21. Role(h, y) /\ Binding(y)
  BY <1>0, <1>1, <1>2, <1>19 DEF Role, Binding
<1>22. Floor(y)
  <2>1. Filled(Len(y.buf), y.todo) = G /\ Len(y.floor) - y.arg = top
    BY <1>17, <1>19
  <2> HIDE DEF G, top
  <2> QED
    BY <1>2, <1>6, <1>13, <1>19, <1>20, <2>1 DEF Floor
<1> QED
  BY <1>1, <1>2, <1>19, <1>21, <1>22, QuietSet

LEMMA OneGet ==
  ASSUME OneInv, HBase', OneWriter, [HNext]_hvars, NEW h \in Handle,
         \/ ReadReturns(h) \/ GetReturns(h)
         \/ \E p \in Path : GetLocation(h, p)
         \/ \E r \in Replica : GetData(h, r)
  PROVE  OneInv'
<1> DEFINE x == handle[h]
<1>0. /\ HBase /\ IInv /\ FlatFiles /\ HTypes /\ x \in HandleSet /\ Progress(x) /\ Role(h, x)
      /\ Binding(x) /\ Floor(x) /\ Nil \notin Entry /\ Covered
  BY Standing DEF OneInv
<1>1. ASSUME ReadReturns(h) PROVE OneInv'
  <2>1. x.pc = "reading" /\ Set(h, Back(x)) /\ UNCHANGED <<tree, content, writes, acked, failed>>
    BY <1>1 DEF ReadReturns
  <2>2. x.id \in Entry /\ x.on = Nil
    BY <1>0, <2>1 DEF Progress, Role
  <2> HIDE DEF x
  <2> QED
    BY <1>0, <2>1, <2>2, BackFine, QuietSet DEF x
<1>2. ASSUME GetReturns(h) PROVE OneInv'
  <2>1. /\ x.pc \in {"getting", "got"} /\ Set(h, ClosedHandle)
        /\ UNCHANGED <<tree, content, writes, acked, failed>>
    BY <1>2 DEF GetReturns
  <2>2. x.on = Nil
    BY <1>0, <2>1 DEF Role
  <2> QED
    BY <2>1, <2>2, ClosedFine, QuietSet
<1>3. ASSUME NEW p \in Path, GetLocation(h, p) PROVE OneInv'
  <2> DEFINE e == lookup(p)
             c == IF status[e] = "pending" THEN "got" ELSE "getting"
             y == [ClosedHandle EXCEPT !.pc = c, !.path = p, !.id = fileID[e],
                     !.replicas = replicas[e], !.status = status[e], !.floor = acked[fileID[e]]]
  <2>1. /\ x.pc = "closed" /\ h \notin Writers /\ IsFile(e) /\ Set(h, y)
        /\ UNCHANGED <<tree, content, writes, acked, failed>>
    BY <1>3 DEF GetLocation
  <2>2. fileID[e] = e /\ e \in Entry /\ replicas[e] = Addr \X {e}
    BY <1>0, <2>1, FileFacts
  <2>3. Above(acked[e], acked[e]) /\ x.on = Nil
    BY <1>0, <2>1, <2>2, AtFacts, AboveFacts DEF Role
  <2>4. /\ y.pc = c /\ y.path = p /\ y.id = e /\ y.replicas = Addr \X {e} /\ y.status = status[e]
        /\ y.floor = acked[e] /\ y.on = Nil /\ y.op = "none" /\ y.n = 0
    BY <2>2 DEF ClosedHandle
  <2>5. c = "getting" \/ (c = "got" /\ status[e] = "pending")
    OBVIOUS
  <2> HIDE DEF y, c
  <2>6. Role(h, y) /\ Binding(y) /\ Floor(y)
    BY <1>0, <2>1, <2>2, <2>3, <2>4, <2>5 DEF Role, Binding, Floor
  <2> QED
    BY <2>1, <2>3, <2>4, <2>6, QuietSet
<1>4. ASSUME NEW r \in Replica, GetData(h, r) PROVE OneInv'
  <2> DEFINE s == content[r[1]][r[2]]
             y == [x EXCEPT !.pc = "got", !.buf = s, !.n = Len(s)]
  <2>1. /\ x.pc = "getting" /\ r \in x.replicas /\ s # Absent
        /\ Set(h, ClosedHandle) \/ Set(h, y)
        /\ UNCHANGED <<tree, content, writes, acked, failed>>
    BY <1>4 DEF GetData
  <2>2. x.id \in Entry /\ Above(acked[x.id], x.floor) /\ x.on = Nil /\ x.op # "write"
        /\ x.floor \in Bytes /\ h \notin Writers
    BY <1>0, <2>1 DEF Floor, Role, HandleSet
  <2>3. r[1] \in Addr /\ r[2] = x.id
    <3>1. x.replicas = Addr \X {x.id}
      BY <1>0, <2>2 DEF Binding
    <3> QED
      BY <2>1, <3>1
  <2>4. s = At(r[1], x.id) /\ s \in Bytes /\ acked[x.id] \in Bytes
    BY <1>0, <2>1, <2>2, <2>3, AtFacts DEF At
  <2>5. Above(s, acked[x.id])
    BY <1>0, <2>2, <2>3, <2>4 DEF Covered
  <2> HIDE DEF s
  <2>6. Above(s, x.floor)
    BY <2>2, <2>4, <2>5, AboveFacts
  <2>7. /\ y.pc = "got" /\ y.path = x.path /\ y.id = x.id /\ y.replicas = x.replicas
        /\ y.floor = x.floor /\ y.on = Nil /\ y.op = x.op /\ y.n = Len(s) /\ y.buf = s
    BY <1>0, <2>2 DEF HandleSet
  <2> HIDE DEF y
  <2>8. Role(h, y) /\ Binding(y)
    BY <1>0, <2>1, <2>2, <2>7 DEF Role, Binding
  <2>9. Floor(y)
    BY <2>2, <2>6, <2>7 DEF Floor, Above
  <2>10. CASE Set(h, y)
    BY <2>1, <2>2, <2>7, <2>8, <2>9, <2>10, QuietSet
  <2>11. CASE Set(h, ClosedHandle)
    BY <2>1, <2>2, <2>11, ClosedFine, QuietSet
  <2> QED
    BY <2>1, <2>10, <2>11
<1> QED
  BY <1>1, <1>2, <1>3, <1>4

\* Close, the marks of the replicator, and renames of files that are closed.
LEMMA OneClose ==
  ASSUME OneInv, HBase', OneWriter, [HNext]_hvars,
         \/ \E h \in Handle : Close(h)
         \/ \E p \in Path : Repairs(p)
         \/ \E src, dst \in Path : Rename(src, dst)
         \/ UNCHANGED hvars
  PROVE  OneInv'
<1>0. HBase /\ handle \in [Handle -> HandleSet]
  BY DEF OneInv, HBase, HTypes
<1>1. ASSUME UNCHANGED <<content, writes, acked, failed, handle, kind, size>> PROVE OneInv'
  BY <1>1, QuietStep
<1>2. ASSUME NEW h \in Handle, Close(h) PROVE OneInv'
  <2>1. /\ handle[h].pc = "open" /\ Set(h, ClosedHandle)
        /\ UNCHANGED <<kind, size, content, writes, acked, failed>>
    BY <1>2 DEF Close, applyCompleteFile, tree
  <2>2. handle[h].on = Nil
    BY <2>1, Standing DEF Role
  <2>3. handle'[h] = ClosedHandle /\ \A g \in Handle : g # h => handle'[g] = handle[g]
    BY <1>0, <2>1 DEF Set
  <2>4. Role(h, handle[h])' /\ Binding(handle[h])' /\ Floor(handle[h])' /\ handle'[h].on = Nil
    BY <2>3 DEF ClosedHandle, Role, Binding, Floor
  <2> QED
    BY <2>1, <2>2, <2>3, <2>4, QuietStep
<1>3. ASSUME NEW p \in Path, Repairs(p) PROVE OneInv'
  BY <1>1, <1>3 DEF Repairs, applyUpdateStatus
<1>4. ASSUME NEW src \in Path, NEW dst \in Path, Rename(src, dst) PROVE OneInv'
  BY <1>1, <1>4 DEF Rename, applyRename, data
<1>5. ASSUME UNCHANGED hvars PROVE OneInv'
  BY <1>1, <1>5 DEF hvars, tree
<1> QED
  BY <1>2, <1>3, <1>4, <1>5

----------------------------------------------------------------------------
(* What writes and truncations do to bytes that are above others.           *)

LEMMA WriteAbove ==
  ASSUME NEW s \in Bytes, NEW t \in Bytes, Above(s, t), NEW i \in 1..MaxBytes, NEW v \in Byte,
         \A j \in 1..Len(s) : s[j] <= v
  PROVE  /\ Above(Write(s, i, v), t)
         /\ \A j \in 1..Len(Write(s, i, v)) : Write(s, i, v)[j] <= v
<1> DEFINE w == Write(s, i, v)
<1>0. i \in 0..MaxBytes /\ i \in Nat
  BY HConsts
<1>1. /\ w \in Bytes /\ Len(w) = IF i < Len(s) THEN Len(s) ELSE i
      /\ \A j \in 1..Len(w) : w[j] = IF j = i THEN v ELSE IF j <= Len(s) THEN s[j] ELSE 0
  BY <1>0, WriteFacts
<1>2. /\ Len(s) \in Nat /\ Len(t) \in Nat /\ v \in Nat
      /\ \A j \in 1..Len(s) : s[j] \in Nat
      /\ \A j \in 1..Len(t) : t[j] \in Nat
  BY BytesFacts, HConsts
<1>3. Len(t) <= Len(s) /\ \A j \in 1..Len(t) : t[j] <= s[j]
  BY DEF Above
<1> HIDE DEF w
<1>4. Len(t) <= Len(w)
  BY <1>0, <1>1, <1>2, <1>3
<1>5. ASSUME NEW j \in 1..Len(t) PROVE t[j] <= w[j]
  <2>1. j \in 1..Len(s) /\ j \in 1..Len(w) /\ j <= Len(s)
    BY <1>0, <1>1, <1>2, <1>3, <1>4
  <2>2. t[j] <= s[j] /\ s[j] <= v /\ t[j] \in Nat /\ s[j] \in Nat
    BY <1>2, <1>3, <2>1
  <2>3. w[j] = IF j = i THEN v ELSE s[j]
    BY <1>1, <2>1
  <2> QED
    BY <1>2, <2>2, <2>3
<1>6. ASSUME NEW j \in 1..Len(w) PROVE w[j] <= v
  <2>1. j <= Len(s) => j \in 1..Len(s)
    BY <1>2
  <2> QED
    BY <1>1, <1>2, <2>1
<1> QED
  BY <1>4, <1>5, <1>6 DEF Above, w

LEMMA AckAbove ==
  ASSUME NEW s \in Bytes, NEW t \in Bytes, Above(s, t), NEW i \in 1..MaxBytes, NEW v \in Byte,
         i <= Len(s), s[i] = v
  PROVE  /\ Above(s, Write(t, i, v)) /\ Above(Write(t, i, v), t)
         /\ Len(Write(t, i, v)) = IF i < Len(t) THEN Len(t) ELSE i
<1> DEFINE w == Write(t, i, v)
<1>0. i \in 0..MaxBytes /\ i \in Nat
  BY HConsts
<1>1. /\ w \in Bytes /\ Len(w) = IF i < Len(t) THEN Len(t) ELSE i
      /\ \A j \in 1..Len(w) : w[j] = IF j = i THEN v ELSE IF j <= Len(t) THEN t[j] ELSE 0
  BY <1>0, WriteFacts
<1>2. /\ Len(s) \in Nat /\ Len(t) \in Nat /\ v \in Nat
      /\ \A j \in 1..Len(s) : s[j] \in Nat
      /\ \A j \in 1..Len(t) : t[j] \in Nat
  BY BytesFacts, HConsts
<1>3. Len(t) <= Len(s) /\ \A j \in 1..Len(t) : t[j] <= s[j]
  BY DEF Above
<1> HIDE DEF w
<1>4. Len(t) <= Len(w) /\ Len(w) <= Len(s) /\ Len(w) \in Nat
  BY <1>0, <1>1, <1>2, <1>3
<1>5. ASSUME NEW j \in 1..Len(t) PROVE t[j] <= w[j]
  <2>1. j \in 1..Len(w) /\ j <= Len(t)
    BY <1>2, <1>4
  <2>2. t[j] <= s[j] /\ t[j] \in Nat
    BY <1>2, <1>3
  <2>3. w[j] = IF j = i THEN v ELSE t[j]
    BY <1>1, <2>1
  <2> QED
    BY <1>2, <2>2, <2>3
<1>6. ASSUME NEW j \in 1..Len(w) PROVE w[j] <= s[j]
  <2>1. j \in 1..Len(s) /\ (j <= Len(t) => j \in 1..Len(t))
    BY <1>2, <1>4
  <2>2. s[j] \in Nat
    BY <1>2, <2>1
  <2> QED
    BY <1>1, <1>2, <1>3, <2>1, <2>2
<1>7. Above(s, w) /\ Above(w, t)
  BY <1>4, <1>5, <1>6 DEF Above
<1> QED
  BY <1>1, <1>7 DEF w

LEMMA ResizeAbove ==
  ASSUME NEW s \in Bytes, NEW t \in Bytes, Above(s, t), NEW k \in 0..MaxBytes, Len(t) <= k,
         NEW v \in Nat, \A j \in 1..Len(s) : s[j] <= v
  PROVE  /\ Above(Resize(s, k), t) /\ Above(Resize(t, k), t)
         /\ Len(s) = k => Above(s, Resize(t, k))
         /\ \A j \in 1..Len(Resize(s, k)) : Resize(s, k)[j] <= v
<1> DEFINE a == Resize(s, k)
           b == Resize(t, k)
<1>1. /\ a \in Bytes /\ Len(a) = k /\ \A j \in 1..k : a[j] = IF j <= Len(s) THEN s[j] ELSE 0
      /\ b \in Bytes /\ Len(b) = k /\ \A j \in 1..k : b[j] = IF j <= Len(t) THEN t[j] ELSE 0
  BY ResizeFacts
<1>2. /\ Len(s) \in Nat /\ Len(t) \in Nat /\ k \in Nat
      /\ \A j \in 1..Len(s) : s[j] \in Nat
      /\ \A j \in 1..Len(t) : t[j] \in Nat
  BY BytesFacts, HConsts
<1>3. Len(t) <= Len(s) /\ \A j \in 1..Len(t) : t[j] <= s[j]
  BY DEF Above
<1> HIDE DEF a, b
<1>4. ASSUME NEW j \in 1..Len(t) PROVE t[j] <= a[j] /\ t[j] <= b[j]
  <2>1. j \in 1..k /\ j <= Len(s) /\ j <= Len(t)
    BY <1>2, <1>3
  <2>2. a[j] = s[j] /\ b[j] = t[j] /\ t[j] <= s[j] /\ t[j] \in Nat
    BY <1>1, <1>2, <1>3, <2>1
  <2> QED
    BY <2>2
<1>5. ASSUME Len(s) = k, NEW j \in 1..k PROVE b[j] <= s[j]
  <2>1. j \in 1..Len(s) /\ (j <= Len(t) => j \in 1..Len(t))
    BY <1>2, <1>5
  <2>2. s[j] \in Nat
    BY <1>2, <2>1
  <2> QED
    BY <1>1, <1>3, <2>1, <2>2
<1>6. ASSUME NEW j \in 1..k PROVE a[j] <= v
  <2>1. j <= Len(s) => j \in 1..Len(s)
    BY <1>2
  <2> QED
    BY <1>1, <2>1
<1>7. Above(a, t) /\ Above(b, t)
  BY <1>1, <1>4 DEF Above
<1>8. Len(s) = k => Above(s, b)
  BY <1>1, <1>2, <1>5 DEF Above
<1> QED
  BY <1>1, <1>6, <1>7, <1>8 DEF a, b

LEMMA CutAbove ==
  ASSUME NEW s \in Bytes, NEW t \in Bytes, Above(s, t), NEW k \in 0..MaxBytes
  PROVE  /\ Above(s, Cut(t, k)) /\ Above(Cut(s, k), Cut(t, k)) /\ Len(Cut(t, k)) <= k
         /\ Len(Cut(t, k)) <= Len(t) /\ Cut(t, k) \in Bytes
<1> DEFINE a == Cut(s, k)
           b == Cut(t, k)
<1>1. /\ a \in Bytes /\ Len(a) = (IF k < Len(s) THEN k ELSE Len(s))
      /\ \A j \in 1..Len(a) : a[j] = s[j]
      /\ b \in Bytes /\ Len(b) = (IF k < Len(t) THEN k ELSE Len(t))
      /\ \A j \in 1..Len(b) : b[j] = t[j]
  BY CutFacts
<1>2. Len(s) \in Nat /\ Len(t) \in Nat /\ k \in Nat
  BY BytesFacts, HConsts
<1>3. Len(t) <= Len(s) /\ \A j \in 1..Len(t) : t[j] <= s[j]
  BY DEF Above
<1> HIDE DEF a, b
<1>4. Len(b) <= Len(a) /\ Len(b) <= Len(t) /\ Len(b) <= Len(s) /\ Len(b) <= k /\ Len(b) \in Nat
      /\ Len(a) \in Nat
  BY <1>1, <1>2, <1>3
<1>5. ASSUME NEW j \in 1..Len(b) PROVE b[j] <= s[j] /\ b[j] <= a[j]
  <2>1. j \in 1..Len(t) /\ j \in 1..Len(a)
    BY <1>2, <1>4
  <2> QED
    BY <1>1, <1>3, <2>1
<1> QED
  BY <1>1, <1>4, <1>5 DEF Above, a, b

----------------------------------------------------------------------------
(* Updates.                                                                 *)

LEMMA Updater ==
  ASSUME OneInv, NEW h \in Handle, handle[h].pc \in {"writing", "truncating", "sizing"}
  PROVE  /\ h \in Writers /\ handle[h].on \in Entry /\ kind[handle[h].on] = "file"
         /\ lookup(handle[h].path) = handle[h].on
<1> DEFINE x == handle[h]
<1>1. /\ IInv /\ FlatFiles /\ x \in HandleSet /\ Progress(x) /\ x.path \in Path
      /\ Role(h, x) /\ Binding(x) /\ Nil \notin Entry
  BY Standing
<1>2. h \in Writers /\ x.on # Nil /\ x.on \in Entry /\ lookup(x.path) = x.on
  BY <1>1 DEF Role, Binding, Progress
<1>3. kind[lookup(x.path)] = "file"
  <2>1. FlatTree
    BY <1>1, FlatLookup
  <2> QED
    BY <1>1, <1>2, <2>1 DEF FlatTree
<1> QED
  BY <1>2, <1>3

LEMMA OnlyWriter ==
  ASSUME OneInv, OneWriter, NEW h \in Writers,
         \A g \in Handle : g # h => handle'[g] = handle[g]
  PROVE  /\ \A g \in Handle : g # h => handle[g].on = Nil
         /\ \A e \in Entry : Updating(e, {"truncate", "open"})
              <=> handle[h].on = e /\ handle[h].op \in {"truncate", "open"}
         /\ \A e \in Entry : Updating(e, {"truncate", "open"})'
              <=> handle'[h].on = e /\ handle'[h].op \in {"truncate", "open"}
<1>1. \A g \in Handle : g # h => handle[g].on = Nil /\ handle'[g].on = Nil
  <2>1. TAKE g \in Handle
  <2>2. HAVE g # h
  <2>3. g \notin Writers
    BY <2>2 DEF OneWriter
  <2>4. Role(g, handle[g])
    BY Standing
  <2> QED
    BY <2>2, <2>3, <2>4 DEF Role
<1>2. h \in Handle /\ Nil \notin Entry
  BY HandlesAssumption, NamespaceAssumption
<1>3. \A e \in Entry : Updating(e, {"truncate", "open"})
        <=> handle[h].on = e /\ handle[h].op \in {"truncate", "open"}
  BY <1>1, <1>2 DEF Updating
<1>4. \A e \in Entry : Updating(e, {"truncate", "open"})'
        <=> handle'[h].on = e /\ handle'[h].op \in {"truncate", "open"}
  BY <1>1, <1>2 DEF Updating
<1> QED
  BY <1>1, <1>3, <1>4

\* A step of the writer that may change the bytes, the size and the marks of
\* file f and of no other.
LEMMA FileStep ==
  ASSUME OneInv, HBase', OneWriter, [HNext]_hvars, NEW h \in Writers,
         \A g \in Handle : g # h => handle'[g] = handle[g],
         NEW f \in Entry, kind[f] = "file", kind' = kind, writes <= writes',
         handle[h].on \in {f, Nil}, handle'[h].on \in {f, Nil},
         \A e \in Entry : e # f =>
           /\ acked'[e] = acked[e] /\ size'[e] = size[e]
           /\ \A n \in Addr : content'[n][e] = content[n][e],
         \A m : m[1] # f => (m \in failed' <=> m \in failed),
         Above(acked'[f], acked[f]),
         \A n \in Addr : /\ Above(At(n, f)', acked'[f])
                         /\ \A i \in 1..Len(At(n, f)') : At(n, f)'[i] <= writes',
         /\ ~(handle'[h].on = f /\ handle'[h].op \in {"truncate", "open"})
         /\ <<f, "truncate">> \notin failed'
         => \A n \in Addr : size'[f] <= Len(At(n, f)'),
         Role(h, handle[h])', Binding(handle[h])', Answer(handle[h])'
  PROVE  OneInv'
<1>0. HBase /\ Unborn /\ Covered /\ Backed /\ writes \in Nat /\ writes' \in Nat
  BY HConsts DEF OneInv, HBase, HTypes
<1>1. \A e \in Entry : e # f => \A n \in Addr : At(n, e)' = At(n, e)
  BY DEF At
<1>2. Unborn'
  <2>1. \A e \in Entry : e # f => (Clean(e)' <=> Clean(e))
    BY DEF Clean
  <2> QED
    BY <1>0, <2>1 DEF Unborn
<1>3. Covered'
  <2>1. SUFFICES ASSUME NEW n \in Addr, NEW e \in Entry
                 PROVE  /\ Above(At(n, e)', acked'[e])
                        /\ \A i \in 1..Len(At(n, e)') : At(n, e)'[i] <= writes'
    BY DEF Covered
  <2>2. CASE e = f
    BY <2>2
  <2>3. CASE e # f
    <3>1. At(n, e)' = At(n, e) /\ acked'[e] = acked[e]
      BY <1>1, <2>3
    <3>2. /\ Above(At(n, e), acked[e])
          /\ \A i \in 1..Len(At(n, e)) : At(n, e)[i] <= writes
      BY <1>0 DEF Covered
    <3>3. \A i \in 1..Len(At(n, e)) : At(n, e)[i] \in Nat
      BY <1>0, AtFacts, BytesFacts
    <3>4. \A i \in 1..Len(At(n, e)) : At(n, e)[i] <= writes'
      BY <1>0, <3>2, <3>3
    <3> QED
      BY <3>1, <3>2, <3>4
  <2> QED
    BY <2>2, <2>3
<1>4. Backed'
  <2>1. SUFFICES ASSUME NEW e \in Entry, kind'[e] = "file",
                        ~Updating(e, {"truncate", "open"})', <<e, "truncate">> \notin failed',
                        NEW n \in Addr
                 PROVE  size'[e] <= Len(At(n, e)')
    BY DEF Backed
  <2>2. ~(handle'[h].on = e /\ handle'[h].op \in {"truncate", "open"})
    BY <2>1, OnlyWriter
  <2>3. CASE e = f
    BY <2>1, <2>2, <2>3
  <2>4. CASE e # f
    <3>1. <<e, "truncate">> \notin failed
      <4>1. <<e, "truncate">>[1] # f
        BY <2>4
      <4> QED
        BY <2>1, <4>1
    <3>2. ~Updating(e, {"truncate", "open"})
      <4>1. handle[h].on # e
        BY <2>4, NamespaceAssumption
      <4> QED
        BY <4>1, OnlyWriter
    <3>3. size[e] <= Len(At(n, e))
      BY <1>0, <2>1, <3>1, <3>2 DEF Backed
    <3> QED
      BY <1>1, <2>4, <3>3
  <2> QED
    BY <2>3, <2>4
<1>5. \A e \in Entry : Above(acked'[e], acked[e])
  BY <1>0, AtFacts, AboveFacts
<1> QED
  BY <1>2, <1>3, <1>4, <1>5, WriterStep

LEMMA OneWriteAt ==
  ASSUME OneInv, HBase', OneWriter, [HNext]_hvars, NEW h \in Handle, NEW i \in Offsets, WriteAt(h, i)
  PROVE  OneInv'
<1> DEFINE x == handle[h]
           y == [x EXCEPT !.pc = "writing", !.op = "write", !.on = x.id,
                   !.arg = i, !.ver = writes + 1, !.todo = x.replicas]
<1>0. /\ HBase /\ IInv /\ FlatFiles /\ HTypes /\ x \in HandleSet /\ Progress(x) /\ x.path \in Path
      /\ Role(h, x) /\ Binding(x) /\ Nil \notin Entry /\ Covered /\ Backed
  BY Standing DEF OneInv
<1>1. /\ x.pc = "open" /\ h \in Writers /\ Set(h, y) /\ writes' = writes + 1
      /\ UNCHANGED <<tree, content, acked, failed>>
  BY DEF WriteAt
<1>2. handle'[h] = y /\ \A g \in Handle : g # h => handle'[g] = handle[g]
  BY <1>0, <1>1 DEF Set, HTypes
<1>a. PICK f \in Entry : f = x.id
  BY <1>0, <1>1 DEF Progress
<1>3. f = x.id /\ lookup(x.path) = f /\ x.replicas = Addr \X {f} /\ x.on = Nil
  BY <1>0, <1>1, <1>a DEF Binding, Role
<1>4. kind[f] = "file"
  <2>1. FlatTree
    BY <1>0, FlatLookup
  <2> QED
    BY <1>0, <1>3, <2>1 DEF FlatTree
<1>5. PICK p \in Path : p = x.path
  BY <1>0
<1>6. lookup(p)' = f
  BY <1>0, <1>3, <1>5, SameLookup, <1>1 DEF tree
<1>7. /\ y.pc = "writing" /\ y.op = "write" /\ y.on = f /\ y.arg = i /\ y.ver = writes + 1
      /\ y.todo = Addr \X {f} /\ y.path = p /\ y.id = f /\ y.replicas = Addr \X {f}
  BY <1>0, <1>3, <1>5 DEF HandleSet
<1> HIDE DEF y
<1>8. Role(h, handle[h])' /\ Binding(handle[h])'
  BY <1>0, <1>1, <1>2, <1>3, <1>6, <1>7 DEF Role, Binding
<1>9. Answer(handle[h])'
  <2>1. i \in 1..MaxBytes
    BY HandlesAssumption
  <2>2. \A n \in Addr : <<n, f>> \in Addr \X {f}
    OBVIOUS
  <2> QED
    BY <1>1, <1>2, <1>7, <2>1, <2>2 DEF Answer
<1>10. writes \in Nat /\ writes <= writes' /\ writes' \in Nat
  BY <1>0, <1>1, HConsts DEF HTypes
<1>11. \A n \in Addr, e \in Entry : At(n, e)' = At(n, e)
  BY <1>1 DEF At
<1>12. \A n \in Addr : /\ Above(At(n, f)', acked'[f])
                       /\ \A j \in 1..Len(At(n, f)') : At(n, f)'[j] <= writes'
  <2>1. TAKE n \in Addr
  <2>2. /\ Above(At(n, f), acked[f]) /\ \A j \in 1..Len(At(n, f)) : At(n, f)[j] <= writes
    BY <1>0, <1>3 DEF Covered
  <2>3. \A j \in 1..Len(At(n, f)) : At(n, f)[j] \in Nat
    BY <1>0, <1>3, AtFacts, BytesFacts
  <2>4. \A j \in 1..Len(At(n, f)) : At(n, f)[j] <= writes'
    BY <1>10, <2>2, <2>3
  <2> QED
    BY <1>1, <1>3, <1>11, <2>2, <2>4
<1>13. <<f, "truncate">> \notin failed => \A n \in Addr : size'[f] <= Len(At(n, f)')
  <2>1. ~Updating(f, {"truncate", "open"})
    BY <1>0, <1>1, <1>2, <1>3, OnlyWriter
  <2> QED
    BY <1>0, <1>1, <1>3, <1>4, <1>11, <2>1 DEF Backed, tree
<1>14. kind' = kind /\ size' = size
  BY <1>1 DEF tree
<1>15. Above(acked'[f], acked[f])
  BY <1>0, <1>1, <1>3, AckedSame
<1> HIDE DEF x
<1>16. \A m : m \in failed' <=> m \in failed
  BY <1>1
<1>17. /\ handle[h].on \in {f, Nil} /\ handle'[h].on \in {f, Nil}
  BY <1>2, <1>3, <1>7 DEF x
<1> QED
  BY <1>1, <1>2, <1>3, <1>4, <1>8, <1>9, <1>10, <1>12, <1>13, <1>14, <1>15, <1>16, <1>17, FileStep

\* The handle after an update.
LEMMA OpenAgain ==
  ASSUME OneInv, HBase', OneWriter, [HNext]_hvars, NEW h \in Handle, handle[h].id \in Entry,
         handle'[h].pc = "open", handle'[h].op = "none", handle'[h].on = Nil,
         handle'[h].id = handle[h].id, handle'[h].path = handle[h].path,
         handle'[h].replicas = handle[h].replicas
  PROVE  Role(h, handle[h])' /\ Binding(handle[h])' /\ Answer(handle[h])'
<1> DEFINE x == handle[h]
<1>0. HBase /\ x \in HandleSet /\ x.path \in Path /\ Binding(x) /\ Nil \notin Entry
  BY Standing
<1>1. x.id # Nil /\ lookup(x.path) = x.id /\ x.replicas = Addr \X {x.id}
  BY <1>0 DEF Binding
<1>2. PICK p : p = x.path
  OBVIOUS
<1>3. lookup(p)' = x.id
  BY <1>0, <1>1, <1>2, PathsStay
<1>4. Role(h, handle[h])' /\ Answer(handle[h])'
  BY DEF Role, Answer
<1>5. Binding(handle[h])'
  BY <1>1, <1>2, <1>3 DEF Binding
<1> QED
  BY <1>4, <1>5

LEMMA ClosedAgain ==
  ASSUME NEW h \in Handle, handle'[h] = ClosedHandle
  PROVE  Role(h, handle[h])' /\ Binding(handle[h])' /\ Answer(handle[h])' /\ handle'[h].on = Nil
  BY DEF ClosedHandle, Role, Binding, Answer

\* PartialWrite and Truncate on one replica.
LEMMA OneReplica ==
  ASSUME OneInv, HBase', OneWriter, [HNext]_hvars, NEW h \in Handle, NEW r \in Replica,
         NEW took \in BOOLEAN, NEW ok \in BOOLEAN,
         PartialWrite(h, r, took, ok) \/ TruncateReplica(h, r, took, ok)
  PROVE  OneInv'
<1> DEFINE x == handle[h]
           y == [x EXCEPT !.todo = @ \ {r}, !.ok = @ /\ ok]
<1>0. /\ HBase /\ HTypes /\ x \in HandleSet /\ Progress(x) /\ x.path \in Path
      /\ Role(h, x) /\ Binding(x) /\ Answer(x) /\ Nil \notin Entry /\ Covered /\ Backed
  BY Standing DEF OneInv
<1>1. /\ x.pc \in {"writing", "truncating"} /\ r \in x.todo /\ Set(h, y) /\ (ok => took)
      /\ UNCHANGED <<tree, writes, acked, failed>>
  BY DEF PartialWrite, TruncateReplica
<1>2. handle'[h] = y /\ \A g \in Handle : g # h => handle'[g] = handle[g]
  BY <1>0, <1>1 DEF Set, HTypes
<1>3. h \in Writers /\ x.on \in Entry /\ kind[x.on] = "file" /\ lookup(x.path) = x.on
  BY <1>1, Updater
<1>4. PICK f \in Entry, p \in Path : f = x.on /\ p = x.path
  BY <1>0, <1>3
<1>5. lookup(p)' = f
  BY <1>0, <1>1, <1>3, <1>4, SameLookup DEF tree
<1>6. x.ok \in BOOLEAN /\ x.arg \in 0..MaxBytes /\ x.ver \in Byte /\ writes \in Nat
  BY <1>0, HConsts DEF HandleSet, HTypes, Byte
<1>7. /\ y.pc = x.pc /\ y.op = x.op /\ y.on = f /\ y.arg = x.arg /\ y.ver = x.ver
      /\ y.todo = x.todo \ {r} /\ y.path = p /\ y.id = x.id /\ y.replicas = x.replicas
      /\ y.ok = (x.ok /\ ok)
  BY <1>0, <1>4 DEF HandleSet
<1>8. PICK n \in Addr : r = <<n, f>>
  <2>1. x.todo \subseteq Addr \X {f}
    BY <1>0, <1>1, <1>4 DEF Binding
  <2> QED
    BY <1>1, <2>1
<1>9. /\ At(n, f) \in Bytes /\ BytesAt(r) = At(n, f) /\ acked[f] \in Bytes
      /\ Above(At(n, f), acked[f]) /\ \A j \in 1..Len(At(n, f)) : At(n, f)[j] <= writes
  BY <1>0, <1>8, AtFacts DEF Covered
<1> HIDE DEF y
<1>10. Role(h, handle[h])' /\ Binding(handle[h])'
  <2>1. Role(h, handle[h])'
    BY <1>0, <1>2, <1>4, <1>7 DEF Role
  <2>2. Binding(handle[h])'
    BY <1>0, <1>1, <1>2, <1>4, <1>5, <1>7 DEF Binding
  <2> QED
    BY <2>1, <2>2
<1>11. kind' = kind /\ size' = size /\ acked' = acked /\ failed' = failed /\ writes' = writes
  BY <1>1 DEF tree
\* The replica that was called has s now, the others keep what they have.
<1>12. ASSUME NEW s \in Bytes,
              \A m \in Addr, e \in Entry : At(m, e)' = IF m = n /\ e = f THEN s ELSE At(m, e),
              \A m \in Addr, e \in Entry : e # f => content'[m][e] = content[m][e],
              Above(s, acked[f]), \A j \in 1..Len(s) : s[j] <= writes,
              x.pc = "writing" => Len(At(n, f)) <= Len(s) /\ (ok => Wrote(s, x)),
              x.pc = "truncating" /\ ok => Len(s) = x.arg
       PROVE  OneInv'
  <2>1. Answer(handle[h])'
    <3>1. CASE x.pc = "writing"
      <4>1. x.op = "write"
        BY <1>0, <3>1 DEF Role
      <4>2. \A m \in Addr : y.ok /\ <<m, f>> \notin y.todo =>
              y.arg <= Len(At(m, f)') /\ At(m, f)'[y.arg] = y.ver
        <5>1. TAKE m \in Addr
        <5>2. HAVE y.ok /\ <<m, f>> \notin y.todo
        <5>3. x.ok /\ ok
          BY <1>7, <5>2
        <5>4. CASE m = n
          BY <1>7, <1>12, <3>1, <5>3, <5>4 DEF Wrote
        <5>5. CASE m # n
          <6>1. <<m, f>> \notin x.todo
            BY <1>7, <1>8, <5>2, <5>5
          <6>2. Wrote(At(m, f), x)
            BY <1>0, <1>4, <3>1, <5>3, <6>1 DEF Answer
          <6> QED
            BY <1>7, <1>12, <5>5, <6>2 DEF Wrote
        <5> QED
          BY <5>4, <5>5
      <4>3. x.ver = writes /\ x.arg \in 1..MaxBytes
        BY <1>0, <4>1 DEF Answer
      <4> QED
        BY <1>2, <1>7, <1>11, <3>1, <4>1, <4>2, <4>3 DEF Answer, Wrote
    <3>2. CASE x.pc = "truncating"
      <4>1. x.op # "write"
        BY <1>0, <3>2 DEF Role
      <4>2. \A m \in Addr : y.ok /\ <<m, f>> \notin y.todo => Len(At(m, f)') = y.arg
        <5>1. TAKE m \in Addr
        <5>2. HAVE y.ok /\ <<m, f>> \notin y.todo
        <5>3. x.ok /\ ok
          BY <1>7, <5>2
        <5>4. CASE m = n
          BY <1>7, <1>12, <3>2, <5>3, <5>4
        <5>5. CASE m # n
          <6>1. <<m, f>> \notin x.todo
            BY <1>7, <1>8, <5>2, <5>5
          <6>2. Len(At(m, f)) = x.arg
            BY <1>0, <1>4, <3>2, <5>3, <6>1 DEF Answer
          <6> QED
            BY <1>7, <1>12, <5>5, <6>2
        <5> QED
          BY <5>4, <5>5
      <4>3. Len(acked[f]) <= x.arg
        BY <1>0, <1>4, <3>2 DEF Answer
      <4> QED
        BY <1>2, <1>7, <1>11, <3>2, <4>1, <4>2, <4>3 DEF Answer
    <3> QED
      BY <1>1, <3>1, <3>2
  <2>2. \A m \in Addr : /\ Above(At(m, f)', acked'[f])
                        /\ \A j \in 1..Len(At(m, f)') : At(m, f)'[j] <= writes'
    <3>1. TAKE m \in Addr
    <3>2. CASE m = n
      BY <1>11, <1>12, <3>2
    <3>3. CASE m # n
      BY <1>0, <1>11, <1>12, <3>3 DEF Covered
    <3> QED
      BY <3>2, <3>3
  <2>3. /\ ~(handle'[h].on = f /\ handle'[h].op \in {"truncate", "open"})
        /\ <<f, "truncate">> \notin failed'
        => \A m \in Addr : size'[f] <= Len(At(m, f)')
    <3>1. SUFFICES ASSUME ~(handle'[h].on = f /\ handle'[h].op \in {"truncate", "open"}),
                          <<f, "truncate">> \notin failed, NEW m \in Addr
                   PROVE  size[f] <= Len(At(m, f)')
      BY <1>11
    <3>2. x.op \notin {"truncate", "open"}
      BY <1>2, <1>7, <3>1
    <3>3. x.pc = "writing"
      BY <1>0, <1>1, <3>2 DEF Role
    <3>4. ~Updating(f, {"truncate", "open"})
      BY <1>2, <1>3, <3>2, OnlyWriter
    <3>5. \A k \in Addr : size[f] <= Len(At(k, f))
      BY <1>3, <1>4, <1>0, <3>1, <3>4 DEF Backed
    <3>6. size[f] \in Nat /\ Len(At(n, f)) \in Nat /\ Len(s) \in Nat
      BY <1>0, <1>9, BytesFacts, HConsts DEF HBase, FlatFiles
    <3>7. CASE m = n
      BY <1>12, <3>3, <3>5, <3>6, <3>7
    <3>8. CASE m # n
      BY <1>12, <3>5, <3>8
    <3> QED
      BY <3>7, <3>8
  <2>4. \A e \in Entry : e # f =>
          /\ acked'[e] = acked[e] /\ size'[e] = size[e]
          /\ \A m \in Addr : content'[m][e] = content[m][e]
    BY <1>11, <1>12
  <2>5. Above(acked'[f], acked[f])
    BY <1>9, <1>11, AboveFacts
  <2>6. /\ handle[h].on \in {f, Nil} /\ handle'[h].on \in {f, Nil} /\ writes <= writes'
        /\ kind[f] = "file" /\ \A m : m[1] # f => (m \in failed' <=> m \in failed)
    BY <1>2, <1>3, <1>4, <1>6, <1>7, <1>11
  <2> HIDE DEF x
  <2> QED
    BY <1>2, <1>3, <1>10, <1>11, <2>1, <2>2, <2>3, <2>4, <2>5, <2>6, FileStep
<1>13. CASE content' = content
  <2>1. /\ \A m \in Addr, e \in Entry : At(m, e)' = IF m = n /\ e = f THEN At(n, f) ELSE At(m, e)
        /\ \A m \in Addr, e \in Entry : e # f => content'[m][e] = content[m][e]
    BY <1>13 DEF At
  <2>2. CASE ~ok
    <3>1. Len(At(n, f)) <= Len(At(n, f))
      BY <1>9, BytesFacts
    <3> QED
      BY <1>9, <1>12, <2>1, <2>2, <3>1
  <2>3. CASE ok
    <3>1. took
      BY <1>1, <2>3
    <3>2. ASSUME NEW s \in Bytes, content' = [content EXCEPT ![n][f] = s] PROVE At(n, f) = s
      <4>1. \A m \in Addr, e \in Entry :
              content'[m][e] = IF m = n /\ e = f THEN s ELSE content[m][e]
        BY <1>0, <3>2 DEF HTypes
      <4>2. \A m \in Addr, e \in Entry : At(m, e)' = IF m = n /\ e = f THEN s ELSE At(m, e)
        BY <1>0, <4>1, Stored
      <4>3. At(n, f)' = s
        BY <4>2
      <4> QED
        BY <1>13, <4>3 DEF At
    <3>3. CASE PartialWrite(h, r, took, ok)
      <4>1. /\ content' = [content EXCEPT ![n][f] = Write(At(n, f), x.arg, x.ver)]
            /\ x.pc = "writing"
        BY <1>8, <1>9, <3>1, <3>3 DEF PartialWrite
      <4>2. /\ Write(At(n, f), x.arg, x.ver) \in Bytes
            /\ Len(Write(At(n, f), x.arg, x.ver)) =
                 IF x.arg < Len(At(n, f)) THEN Len(At(n, f)) ELSE x.arg
            /\ \A j \in 1..Len(Write(At(n, f), x.arg, x.ver)) :
                 Write(At(n, f), x.arg, x.ver)[j] =
                   IF j = x.arg THEN x.ver ELSE IF j <= Len(At(n, f)) THEN At(n, f)[j] ELSE 0
        BY <1>6, <1>9, WriteFacts, SMTT(60)
      <4>3. At(n, f) = Write(At(n, f), x.arg, x.ver)
        BY <3>2, <4>1, <4>2
      <4>4. x.op = "write" /\ x.arg \in 1..MaxBytes
        BY <1>0, <4>1 DEF Role, Answer
      <4>5. Len(At(n, f)) \in Nat
        BY <1>9, BytesFacts
      <4>6. x.arg <= Len(At(n, f)) /\ x.arg \in 1..Len(At(n, f))
        <5>1. Len(At(n, f)) = IF x.arg < Len(At(n, f)) THEN Len(At(n, f)) ELSE x.arg
          BY <4>2, <4>3
        <5> QED
          BY <4>4, <4>5, <5>1, HConsts
      <4>7. At(n, f)[x.arg] = x.ver
        BY <4>2, <4>3, <4>6
      <4>8. Len(At(n, f)) <= Len(At(n, f))
        BY <4>5
      <4> QED
        BY <1>9, <1>12, <2>1, <4>1, <4>6, <4>7, <4>8 DEF Wrote
    <3>4. CASE TruncateReplica(h, r, took, ok)
      <4>1. /\ content' = [content EXCEPT ![n][f] = Resize(At(n, f), x.arg)]
            /\ x.pc = "truncating"
        BY <1>8, <1>9, <3>1, <3>4 DEF TruncateReplica
      <4>2. Resize(At(n, f), x.arg) \in Bytes /\ Len(Resize(At(n, f), x.arg)) = x.arg
        BY <1>6, <1>9, ResizeFacts
      <4>3. At(n, f) = Resize(At(n, f), x.arg)
        BY <3>2, <4>1, <4>2
      <4> QED
        BY <1>9, <1>12, <2>1, <4>1, <4>2, <4>3
    <3> QED
      BY <3>3, <3>4
  <2> QED
    BY <2>2, <2>3
<1>14. ASSUME took, PartialWrite(h, r, took, ok) PROVE OneInv'
  <2> DEFINE s == Write(At(n, f), x.arg, x.ver)
  <2>1. content' = [content EXCEPT ![n][f] = s] /\ x.pc = "writing"
    BY <1>8, <1>9, <1>14 DEF PartialWrite
  <2>2. x.ver = writes /\ x.arg \in 1..MaxBytes
    BY <1>0, <2>1 DEF Role, Answer
  <2>3. /\ s \in Bytes /\ Len(s) = (IF x.arg < Len(At(n, f)) THEN Len(At(n, f)) ELSE x.arg)
        /\ \A j \in 1..Len(s) :
             s[j] = IF j = x.arg THEN x.ver ELSE IF j <= Len(At(n, f)) THEN At(n, f)[j] ELSE 0
    BY <1>6, <1>9, WriteFacts
  <2>4. Above(s, acked[f]) /\ \A j \in 1..Len(s) : s[j] <= writes
    BY <1>6, <1>9, <2>2, WriteAbove
  <2> HIDE DEF s
  <2>5. Len(At(n, f)) \in Nat
    BY <1>9, BytesFacts
  <2>6. Len(At(n, f)) <= Len(s) /\ x.arg <= Len(s) /\ x.arg \in 1..Len(s)
    BY <2>2, <2>3, <2>5, HConsts
  <2>7. Wrote(s, x)
    BY <2>3, <2>6 DEF Wrote
  <2>a. PICK t \in Bytes : t = s
    BY <2>3
  <2>b. \A m \in Addr, e \in Entry :
          content'[m][e] = IF m = n /\ e = f THEN t ELSE content[m][e]
    BY <1>0, <2>1, <2>a DEF HTypes
  <2>8. \A m \in Addr, e \in Entry : At(m, e)' = IF m = n /\ e = f THEN t ELSE At(m, e)
    BY <1>0, <2>b, Stored
  <2>9. \A m \in Addr, e \in Entry : e # f => content'[m][e] = content[m][e]
    BY <1>0, <2>1 DEF HTypes
  <2> QED
    BY <1>12, <2>1, <2>3, <2>4, <2>6, <2>7, <2>8, <2>9, <2>a
<1>15. ASSUME took, TruncateReplica(h, r, took, ok) PROVE OneInv'
  <2> DEFINE s == Resize(At(n, f), x.arg)
  <2>1. content' = [content EXCEPT ![n][f] = s] /\ x.pc = "truncating"
    BY <1>8, <1>9, <1>15 DEF TruncateReplica
  <2>2. Len(acked[f]) <= x.arg
    BY <1>0, <1>4, <2>1 DEF Answer
  <2>3. s \in Bytes /\ Len(s) = x.arg
    BY <1>6, <1>9, ResizeFacts
  <2>4. Above(s, acked[f]) /\ \A j \in 1..Len(s) : s[j] <= writes
    BY <1>6, <1>9, <2>2, ResizeAbove
  <2> HIDE DEF s
  <2>a. PICK t \in Bytes : t = s
    BY <2>3
  <2>b. \A m \in Addr, e \in Entry :
          content'[m][e] = IF m = n /\ e = f THEN t ELSE content[m][e]
    BY <1>0, <2>1, <2>a DEF HTypes
  <2>8. \A m \in Addr, e \in Entry : At(m, e)' = IF m = n /\ e = f THEN t ELSE At(m, e)
    BY <1>0, <2>b, Stored
  <2>9. \A m \in Addr, e \in Entry : e # f => content'[m][e] = content[m][e]
    BY <1>0, <2>1 DEF HTypes
  <2> QED
    BY <1>12, <2>1, <2>3, <2>4, <2>8, <2>9, <2>a
<1> QED
  BY <1>13, <1>14, <1>15 DEF PartialWrite, TruncateReplica

\* Answers and errors that end a call, or have the size sent, write no bytes.
LEMMA UpdateMoves ==
  ASSUME OneInv, HBase', OneWriter, [HNext]_hvars, NEW h \in Writers, NEW f \in Entry,
         f = handle[h].on, kind[f] = "file",
         \A g \in Handle : g # h => handle'[g] = handle[g],
         UNCHANGED <<kind, content, writes>>, handle'[h].on \in {f, Nil},
         \A e \in Entry : e # f => acked'[e] = acked[e] /\ size'[e] = size[e],
         \A m : m[1] # f => (m \in failed' <=> m \in failed),
         Above(acked'[f], acked[f]), \A n \in Addr : Above(At(n, f), acked'[f]),
         \/ handle'[h].on = f /\ handle'[h].op \in {"truncate", "open"}
         \/ <<f, "truncate">> \in failed'
         \/ \A n \in Addr : size'[f] <= Len(At(n, f)),
         Role(h, handle[h])', Binding(handle[h])', Answer(handle[h])'
  PROVE  OneInv'
<1>1. \A n \in Addr : At(n, f)' = At(n, f)
  BY DEF At
<1>2. \A n \in Addr : \A i \in 1..Len(At(n, f)) : At(n, f)[i] <= writes
  BY DEF OneInv, Covered
<1>3. \A n \in Addr : /\ Above(At(n, f)', acked'[f])
                      /\ \A i \in 1..Len(At(n, f)') : At(n, f)'[i] <= writes'
  BY <1>1, <1>2
<1>4. writes <= writes'
  BY HConsts DEF OneInv, HBase, HTypes
<1>5. /\ ~(handle'[h].on = f /\ handle'[h].op \in {"truncate", "open"})
      /\ <<f, "truncate">> \notin failed'
      => \A n \in Addr : size'[f] <= Len(At(n, f)')
  BY <1>1
<1> QED
  BY <1>3, <1>4, <1>5, FileStep

\* What an update that is not a truncation knows of the size.
LEMMA SizeNow ==
  ASSUME OneInv, OneWriter, NEW h \in Writers, NEW f \in Entry, f = handle[h].on, kind[f] = "file",
         handle[h].op \notin {"truncate", "open"}, <<f, "truncate">> \notin failed,
         \A g \in Handle : g # h => handle'[g] = handle[g]
  PROVE  \A n \in Addr : size[f] <= Len(At(n, f))
<1>1. ~Updating(f, {"truncate", "open"})
  BY OnlyWriter
<1> QED
  BY <1>1 DEF OneInv, Backed

\* Facts of an update in progress.
LEMMA Standings ==
  ASSUME OneInv, HBase', OneWriter, [HNext]_hvars, NEW h \in Handle,
         handle[h].pc \in {"writing", "truncating", "sizing"}, NEW y, Set(h, y)
  PROVE  /\ h \in Writers /\ handle'[h] = y /\ \A g \in Handle : g # h => handle'[g] = handle[g]
         /\ \E f \in Entry, p \in Path :
              /\ f = handle[h].on /\ p = handle[h].path /\ kind[f] = "file"
              /\ lookup(p) = f /\ lookup(p)' = f /\ acked[f] \in Bytes
              /\ \A n \in Addr : At(n, f) \in Bytes /\ Above(At(n, f), acked[f])
<1>0. HBase /\ HTypes /\ handle[h].path \in Path /\ Nil \notin Entry /\ Covered
  BY Standing DEF OneInv
<1>1. handle'[h] = y /\ \A g \in Handle : g # h => handle'[g] = handle[g]
  BY <1>0 DEF Set, HTypes
<1>2. /\ h \in Writers /\ handle[h].on \in Entry /\ kind[handle[h].on] = "file"
      /\ lookup(handle[h].path) = handle[h].on
  BY Updater
<1>3. PICK f \in Entry, p \in Path : f = handle[h].on /\ p = handle[h].path
  BY <1>0, <1>2
<1>4. lookup(p) # Nil /\ lookup(p) = f
  BY <1>0, <1>2, <1>3
<1>5. lookup(p)' = lookup(p)
  BY <1>0, <1>3, <1>4, PathsStay
<1>6. acked[f] \in Bytes /\ \A n \in Addr : At(n, f) \in Bytes /\ Above(At(n, f), acked[f])
  BY <1>0, AtFacts DEF Covered
<1> QED
  BY <1>1, <1>2, <1>3, <1>4, <1>5, <1>6

LEMMA OneWriteAnswered ==
  ASSUME OneInv, HBase', OneWriter, [HNext]_hvars, NEW h \in Handle, WriteAnswered(h)
  PROVE  OneInv'
<1> DEFINE x == handle[h]
           z == [x EXCEPT !.pc = "sizing", !.size = x.arg]
           y == IF x.ok /\ x.arg > x.size THEN z ELSE Back(x)
<1>0. /\ HBase /\ HTypes /\ x \in HandleSet /\ Progress(x) /\ x.path \in Path
      /\ Role(h, x) /\ Binding(x) /\ Answer(x) /\ Nil \notin Entry
  BY Standing
<1>1. /\ x.pc = "writing" /\ x.todo = {} /\ Set(h, y)
      /\ acked' = IF x.ok /\ ~(x.arg > x.size) THEN [acked EXCEPT ![x.on] = Write(@, x.arg, x.ver)]
                  ELSE acked
      /\ failed' = IF x.ok THEN failed ELSE failed \cup {<<x.on, "write">>}
      /\ UNCHANGED <<tree, content, writes>>
  BY DEF WriteAnswered
<1>2. /\ h \in Writers /\ handle'[h] = y /\ \A g \in Handle : g # h => handle'[g] = handle[g]
      /\ \E f \in Entry, p \in Path :
           /\ f = handle[h].on /\ p = handle[h].path /\ kind[f] = "file"
           /\ lookup(p) = f /\ lookup(p)' = f /\ acked[f] \in Bytes
           /\ \A n \in Addr : At(n, f) \in Bytes /\ Above(At(n, f), acked[f])
  BY <1>1, Standings
<1>3. PICK f \in Entry, p \in Path :
           /\ f = handle[h].on /\ p = handle[h].path /\ kind[f] = "file"
           /\ lookup(p) = f /\ lookup(p)' = f /\ acked[f] \in Bytes
           /\ \A n \in Addr : At(n, f) \in Bytes /\ Above(At(n, f), acked[f])
  BY <1>2
<1>4. x.op = "write" /\ x.ver = writes /\ x.arg \in 1..MaxBytes /\ x.id \in Entry
      /\ x.ok \in BOOLEAN /\ x.ver \in Byte
  BY <1>0, <1>1 DEF Role, Answer, Progress, HandleSet, Byte
<1>5. x.ok => \A n \in Addr : Wrote(At(n, f), x)
  BY <1>0, <1>1, <1>3 DEF Answer
<1>6. UNCHANGED <<kind, size, content, writes>>
  BY <1>1 DEF tree
<1>7. \A m : m[1] # f => (m \in failed' <=> m \in failed)
  BY <1>1, <1>3
<1>8. <<f, "truncate">> \in failed' \/ \A n \in Addr : size'[f] <= Len(At(n, f))
  <2>1. CASE <<f, "truncate">> \in failed
    BY <1>1, <2>1
  <2>2. CASE <<f, "truncate">> \notin failed
    BY <1>2, <1>3, <1>4, <1>6, <2>2, SizeNow
  <2> QED
    BY <2>1, <2>2
<1>9. CASE x.ok /\ x.arg > x.size
  <2>1. y = z
    BY <1>9
  <2>2. /\ z.pc = "sizing" /\ z.op = "write" /\ z.on = f /\ z.arg = x.arg /\ z.ver = x.ver
        /\ z.todo = {} /\ z.path = p /\ z.id = x.id /\ z.replicas = x.replicas
    BY <1>0, <1>1, <1>3, <1>4 DEF HandleSet
  <2> HIDE DEF z, y
  <2>3. Role(h, handle[h])' /\ Binding(handle[h])'
    <3>1. Role(h, handle[h])'
      BY <1>0, <1>2, <1>3, <2>1, <2>2 DEF Role
    <3>2. Binding(handle[h])'
      BY <1>0, <1>2, <1>3, <1>4, <2>1, <2>2 DEF Binding
    <3> QED
      BY <3>1, <3>2
  <2>4. \A n \in Addr : At(n, f)' = At(n, f)
    BY <1>6 DEF At
  <2>5. Answer(handle[h])'
    BY <1>2, <1>4, <1>5, <1>6, <1>9, <2>1, <2>2, <2>4 DEF Answer, Wrote
  <2>6. acked' = acked
    BY <1>1, <1>9
  <2>7. /\ Above(acked'[f], acked[f]) /\ \A n \in Addr : Above(At(n, f), acked'[f])
    BY <1>3, <2>6, AboveFacts
  <2>8. handle'[h].on \in {f, Nil}
    BY <1>2, <2>1, <2>2
  <2>9. \A e \in Entry : e # f => acked'[e] = acked[e] /\ size'[e] = size[e]
    BY <1>6, <2>6
  <2> HIDE DEF x
  <2> QED
    BY <1>2, <1>3, <1>6, <1>7, <1>8, <2>3, <2>5, <2>7, <2>8, <2>9, UpdateMoves
<1>10. CASE ~(x.ok /\ x.arg > x.size)
  <2>1. handle'[h] = Back(x)
    BY <1>2, <1>10
  <2>2. /\ Back(x).pc = "open" /\ Back(x).op = "none" /\ Back(x).on = Nil /\ Back(x).id = x.id
        /\ Back(x).path = x.path /\ Back(x).replicas = x.replicas
    BY <1>0 DEF HandleSet, Back
  <2>3. Role(h, handle[h])' /\ Binding(handle[h])' /\ Answer(handle[h])'
    BY <1>4, <2>1, <2>2, OpenAgain
  <2>4. /\ Above(acked'[f], acked[f]) /\ \A n \in Addr : Above(At(n, f), acked'[f])
        /\ \A e \in Entry : e # f => acked'[e] = acked[e]
    <3>1. CASE x.ok
      <4>1. acked' = [acked EXCEPT ![f] = Write(acked[f], x.arg, x.ver)]
        BY <1>1, <1>3, <1>10, <3>1
      <4>2. acked'[f] = Write(acked[f], x.arg, x.ver) /\ \A e \in Entry : e # f => acked'[e] = acked[e]
        BY <1>0, <1>3, <4>1 DEF HTypes
      <4>3. ASSUME NEW n \in Addr
            PROVE  /\ Above(At(n, f), Write(acked[f], x.arg, x.ver))
                   /\ Above(Write(acked[f], x.arg, x.ver), acked[f])
        <5>1. x.arg <= Len(At(n, f)) /\ At(n, f)[x.arg] = x.ver
          BY <1>5, <3>1 DEF Wrote
        <5> QED
          BY <1>3, <1>4, <5>1, AckAbove
      <4>4. PICK n : n \in Addr
        BY HandlesAssumption
      <4> QED
        BY <4>2, <4>3, <4>4
    <3>2. CASE ~x.ok
      <4>1. acked' = acked
        BY <1>1, <3>2
      <4> QED
        BY <1>3, <4>1, AboveFacts
    <3> QED
      BY <1>4, <3>1, <3>2
  <2>5. handle'[h].on \in {f, Nil}
    BY <2>1, <2>2
  <2>6. \A e \in Entry : e # f => acked'[e] = acked[e] /\ size'[e] = size[e]
    BY <1>6, <2>4
  <2> HIDE DEF x
  <2> QED
    BY <1>2, <1>3, <1>6, <1>7, <1>8, <2>3, <2>4, <2>5, <2>6, UpdateMoves
<1> QED
  BY <1>9, <1>10

LEMMA OneTruncateAnswered ==
  ASSUME OneInv, HBase', OneWriter, [HNext]_hvars, NEW h \in Handle, TruncateAnswered(h)
  PROVE  OneInv'
<1> DEFINE x == handle[h]
           z == [x EXCEPT !.pc = "sizing"]
           y == CASE x.ok -> z
                  [] ~x.ok /\ x.op = "open" -> ClosedHandle
                  [] OTHER -> Back(x)
<1>0. /\ HBase /\ HTypes /\ x \in HandleSet /\ Progress(x) /\ x.path \in Path
      /\ Role(h, x) /\ Binding(x) /\ Answer(x) /\ Nil \notin Entry
  BY Standing
<1>1. /\ x.pc = "truncating" /\ x.todo = {} /\ Set(h, y)
      /\ failed' = IF x.ok THEN failed ELSE failed \cup {<<x.on, "truncate">>}
      /\ UNCHANGED <<tree, content, writes, acked>>
  BY DEF TruncateAnswered
<1>2. /\ h \in Writers /\ handle'[h] = y /\ \A g \in Handle : g # h => handle'[g] = handle[g]
      /\ \E f \in Entry, p \in Path :
           /\ f = handle[h].on /\ p = handle[h].path /\ kind[f] = "file"
           /\ lookup(p) = f /\ lookup(p)' = f /\ acked[f] \in Bytes
           /\ \A n \in Addr : At(n, f) \in Bytes /\ Above(At(n, f), acked[f])
  BY <1>1, Standings
<1>3. PICK f \in Entry, p \in Path :
           /\ f = handle[h].on /\ p = handle[h].path /\ kind[f] = "file"
           /\ lookup(p) = f /\ lookup(p)' = f /\ acked[f] \in Bytes
           /\ \A n \in Addr : At(n, f) \in Bytes /\ Above(At(n, f), acked[f])
  BY <1>2
<1>4. /\ x.op \in {"truncate", "open"} /\ x.ok \in BOOLEAN /\ (x.op # "open" => x.id \in Entry)
      /\ Len(acked[f]) <= x.arg
  BY <1>0, <1>1, <1>3 DEF Role, Answer, Progress, HandleSet
<1>5. UNCHANGED <<kind, size, content, writes, acked>>
  BY <1>1 DEF tree
<1>6. \A m : m[1] # f => (m \in failed' <=> m \in failed)
  BY <1>1, <1>3
<1>7. Above(acked'[f], acked[f]) /\ \A n \in Addr : Above(At(n, f), acked'[f])
  BY <1>3, <1>5, AboveFacts
<1>8. CASE x.ok
  <2>1. y = z
    BY <1>8
  <2>2. /\ z.pc = "sizing" /\ z.op = x.op /\ z.on = f /\ z.arg = x.arg
        /\ z.todo = {} /\ z.path = p /\ z.id = x.id /\ z.replicas = x.replicas
    BY <1>0, <1>1, <1>3 DEF HandleSet
  <2> HIDE DEF z, y
  <2>3. Role(h, handle[h])'
    BY <1>0, <1>2, <1>3, <1>4, <2>1, <2>2 DEF Role
  <2>4. Binding(handle[h])'
    BY <1>0, <1>1, <1>2, <1>3, <2>1, <2>2 DEF Binding
  <2>5. \A n \in Addr : At(n, f)' = At(n, f) /\ Len(At(n, f)) = x.arg
    BY <1>0, <1>1, <1>3, <1>8 DEF At, Answer
  <2>6. Answer(handle[h])'
    BY <1>1, <1>2, <1>4, <2>1, <2>2, <2>5 DEF Answer
  <2>7. handle'[h].on \in {f, Nil} /\ handle'[h].on = f /\ handle'[h].op \in {"truncate", "open"}
    BY <1>2, <1>4, <2>1, <2>2
  <2> HIDE DEF x
  <2> QED
    BY <1>2, <1>3, <1>5, <1>6, <1>7, <2>3, <2>4, <2>6, <2>7, UpdateMoves
<1>9. CASE ~x.ok
  <2>1. <<f, "truncate">> \in failed'
    BY <1>1, <1>3, <1>9
  <2>2. Role(h, handle[h])' /\ Binding(handle[h])' /\ Answer(handle[h])' /\ handle'[h].on = Nil
    <3>1. CASE x.op = "open"
      <4>1. handle'[h] = ClosedHandle
        BY <1>2, <1>9, <3>1
      <4> QED
        BY <4>1, ClosedAgain
    <3>2. CASE x.op # "open"
      <4>1. handle'[h] = Back(x)
        BY <1>2, <1>9, <3>2
      <4>2. /\ Back(x).pc = "open" /\ Back(x).op = "none" /\ Back(x).on = Nil
            /\ Back(x).id = x.id /\ Back(x).path = x.path /\ Back(x).replicas = x.replicas
        BY <1>0 DEF HandleSet, Back
      <4> QED
        BY <1>4, <3>2, <4>1, <4>2, OpenAgain
    <3> QED
      BY <3>1, <3>2
  <2> HIDE DEF x
  <2> QED
    BY <1>2, <1>3, <1>5, <1>6, <1>7, <2>1, <2>2, UpdateMoves
<1> QED
  BY <1>4, <1>8, <1>9

\* The MDS changes the size of the file that the handle updates.
LEMMA SizeSent ==
  ASSUME OneInv, NEW h \in Handle, NEW took \in BOOLEAN, NEW ok \in BOOLEAN,
         updateSize(h, took, ok), NEW f \in Entry, lookup(handle[h].path) = f
  PROVE  /\ kind' = kind /\ (ok => took)
         /\ \A e \in Entry : size'[e] = IF took /\ e = f THEN handle[h].arg ELSE size[e]
<1>1. size \in [Entry -> Size \cup {0}]
  BY Standing DEF IInv, TypeOK
<1>2. CASE took
  <2>1. kind' = kind /\ size' = [size EXCEPT ![f] = handle[h].arg] /\ (ok => took)
    BY <1>2 DEF updateSize, applyUpdateSize
  <2> QED
    BY <1>1, <1>2, <2>1
<1>3. CASE ~took
  <2>1. kind' = kind /\ size' = size /\ (ok => took)
    BY <1>3 DEF updateSize, tree
  <2> QED
    BY <1>3, <2>1
<1> QED
  BY <1>2, <1>3

LEMMA OneWriteReturns ==
  ASSUME OneInv, HBase', OneWriter, [HNext]_hvars, NEW h \in Handle,
         NEW took \in BOOLEAN, NEW ok \in BOOLEAN, WriteReturns(h, took, ok)
  PROVE  OneInv'
<1> DEFINE x == handle[h]
<1>0. /\ HBase /\ HTypes /\ x \in HandleSet /\ Progress(x) /\ x.path \in Path
      /\ Role(h, x) /\ Binding(x) /\ Answer(x) /\ Nil \notin Entry
  BY Standing
<1>1. /\ x.pc = "sizing" /\ x.op = "write" /\ Set(h, Back(x)) /\ updateSize(h, took, ok)
      /\ acked' = [acked EXCEPT ![x.on] = Write(@, x.arg, x.ver)]
      /\ failed' = IF ok THEN failed ELSE failed \cup {<<x.on, "size">>}
      /\ UNCHANGED <<content, writes>>
  BY DEF WriteReturns, updateSize
<1>2. /\ h \in Writers /\ handle'[h] = Back(x) /\ \A g \in Handle : g # h => handle'[g] = handle[g]
      /\ \E f \in Entry, p \in Path :
           /\ f = handle[h].on /\ p = handle[h].path /\ kind[f] = "file"
           /\ lookup(p) = f /\ lookup(p)' = f /\ acked[f] \in Bytes
           /\ \A n \in Addr : At(n, f) \in Bytes /\ Above(At(n, f), acked[f])
  BY <1>1, Standings
<1>3. PICK f \in Entry, p \in Path :
           /\ f = handle[h].on /\ p = handle[h].path /\ kind[f] = "file"
           /\ lookup(p) = f /\ lookup(p)' = f /\ acked[f] \in Bytes
           /\ \A n \in Addr : At(n, f) \in Bytes /\ Above(At(n, f), acked[f])
  BY <1>2
<1>4. x.ver = writes /\ x.arg \in 1..MaxBytes /\ x.id \in Entry /\ x.ver \in Byte
  BY <1>0, <1>1 DEF Role, Answer, Progress, HandleSet, Byte
<1>5. \A n \in Addr : x.arg <= Len(At(n, f)) /\ At(n, f)[x.arg] = x.ver
  BY <1>0, <1>1, <1>3 DEF Answer, Wrote
<1>6. /\ kind' = kind
      /\ \A e \in Entry : size'[e] = IF took /\ e = f THEN x.arg ELSE size[e]
  BY <1>1, <1>3, SizeSent
<1>7. \A m : m[1] # f => (m \in failed' <=> m \in failed)
  BY <1>1, <1>3
<1>8. <<f, "truncate">> \in failed' \/ \A n \in Addr : size'[f] <= Len(At(n, f))
  <2>1. CASE <<f, "truncate">> \in failed
    BY <1>1, <2>1
  <2>2. CASE <<f, "truncate">> \notin failed
    <3>1. \A n \in Addr : size[f] <= Len(At(n, f))
      BY <1>1, <1>2, <1>3, <2>2, SizeNow
    <3> QED
      BY <1>5, <1>6, <3>1
  <2> QED
    BY <2>1, <2>2
<1>9. /\ Back(x).pc = "open" /\ Back(x).op = "none" /\ Back(x).on = Nil /\ Back(x).id = x.id
      /\ Back(x).path = x.path /\ Back(x).replicas = x.replicas
  BY <1>0 DEF HandleSet, Back
<1>10. Role(h, handle[h])' /\ Binding(handle[h])' /\ Answer(handle[h])'
  BY <1>2, <1>4, <1>9, OpenAgain
<1>11. /\ Above(acked'[f], acked[f]) /\ \A n \in Addr : Above(At(n, f), acked'[f])
       /\ \A e \in Entry : e # f => acked'[e] = acked[e]
  <2>1. acked'[f] = Write(acked[f], x.arg, x.ver) /\ \A e \in Entry : e # f => acked'[e] = acked[e]
    BY <1>0, <1>1, <1>3 DEF HTypes
  <2>2. ASSUME NEW n \in Addr
        PROVE  /\ Above(At(n, f), Write(acked[f], x.arg, x.ver))
               /\ Above(Write(acked[f], x.arg, x.ver), acked[f])
    BY <1>3, <1>4, <1>5, AckAbove
  <2>3. PICK n : n \in Addr
    BY HandlesAssumption
  <2> QED
    BY <2>1, <2>2, <2>3
<1>12. handle'[h].on \in {f, Nil}
  BY <1>2, <1>9
<1>13. \A e \in Entry : e # f => acked'[e] = acked[e] /\ size'[e] = size[e]
  BY <1>6, <1>11
<1>14. UNCHANGED <<kind, content, writes>>
  BY <1>1, <1>6
<1> HIDE DEF x
<1> QED
  BY <1>2, <1>3, <1>7, <1>8, <1>10, <1>11, <1>12, <1>13, <1>14, UpdateMoves

LEMMA OneTruncateReturns ==
  ASSUME OneInv, HBase', OneWriter, [HNext]_hvars, NEW h \in Handle,
         NEW took \in BOOLEAN, NEW ok \in BOOLEAN, TruncateReturns(h, took, ok)
  PROVE  OneInv'
<1> DEFINE x == handle[h]
           b == Back(x)
           y == CASE ok /\ x.op = "open" -> [b EXCEPT !.pc = "locate", !.op = "open"]
                  [] ok /\ x.op # "open" -> [b EXCEPT !.size = x.arg]
                  [] ~ok /\ x.op = "open" -> ClosedHandle
                  [] OTHER -> b
<1>0. /\ HBase /\ HTypes /\ x \in HandleSet /\ Progress(x) /\ x.path \in Path
      /\ Role(h, x) /\ Binding(x) /\ Answer(x) /\ Nil \notin Entry
  BY Standing
<1>1. /\ x.pc = "sizing" /\ x.op \in {"truncate", "open"} /\ Set(h, y) /\ updateSize(h, took, ok)
      /\ acked' = IF ok THEN [acked EXCEPT ![x.on] = Resize(@, x.arg)] ELSE acked
      /\ failed' = CASE ~ok -> failed \cup {<<x.on, "truncate">>}
                     [] ok /\ x.arg = 0 -> {m \in failed : m[1] # x.on}
                     [] OTHER -> failed
      /\ UNCHANGED <<content, writes>>
  BY DEF TruncateReturns, updateSize
<1>2. /\ h \in Writers /\ handle'[h] = y /\ \A g \in Handle : g # h => handle'[g] = handle[g]
      /\ \E f \in Entry, p \in Path :
           /\ f = handle[h].on /\ p = handle[h].path /\ kind[f] = "file"
           /\ lookup(p) = f /\ lookup(p)' = f /\ acked[f] \in Bytes
           /\ \A n \in Addr : At(n, f) \in Bytes /\ Above(At(n, f), acked[f])
  BY <1>1, Standings
<1>3. PICK f \in Entry, p \in Path :
           /\ f = handle[h].on /\ p = handle[h].path /\ kind[f] = "file"
           /\ lookup(p) = f /\ lookup(p)' = f /\ acked[f] \in Bytes
           /\ \A n \in Addr : At(n, f) \in Bytes /\ Above(At(n, f), acked[f])
  BY <1>2
<1>4. /\ x.arg \in 0..MaxBytes /\ (x.op # "open" => x.id \in Entry) /\ Len(acked[f]) <= x.arg
      /\ \A n \in Addr : Len(At(n, f)) = x.arg
  BY <1>0, <1>1, <1>3 DEF Answer, Progress, HandleSet
<1>5. /\ kind' = kind /\ (ok => took)
      /\ \A e \in Entry : size'[e] = IF took /\ e = f THEN x.arg ELSE size[e]
  BY <1>1, <1>3, SizeSent
<1>6. \A m : m[1] # f => (m \in failed' <=> m \in failed)
  <2>1. \/ failed' = failed \cup {<<f, "truncate">>}
        \/ failed' = {m \in failed : m[1] # f}
        \/ failed' = failed
    BY <1>1, <1>3
  <2> QED
    BY <2>1
<1>7. <<f, "truncate">> \in failed' \/ \A n \in Addr : size'[f] <= Len(At(n, f))
  <2>1. CASE ~ok
    <3>1. failed' = failed \cup {<<f, "truncate">>}
      BY <1>1, <1>3, <2>1
    <3> QED
      BY <3>1
  <2>2. CASE ok
    <3>1. size'[f] = x.arg /\ x.arg \in Nat
      BY <1>4, <1>5, <2>2, HConsts
    <3> QED
      BY <1>4, <3>1
  <2> QED
    BY <2>1, <2>2
<1>8. /\ b.pc = "open" /\ b.op = "none" /\ b.on = Nil /\ b.id = x.id
      /\ b.path = x.path /\ b.replicas = x.replicas /\ b \in HandleSet
  <2>1. b \in HandleSet
    <3>1. <<>> \in Seq(Int) /\ 0 \in Nat /\ 0 \in 0..MaxWrites
      BY HConsts
    <3> HIDE DEF x
    <3> QED
      BY <1>0, <3>1, HConsts DEF HandleSet, Back, Points, Calls
  <2> QED
    BY <1>0, <2>1 DEF HandleSet, Back
<1>9. Role(h, handle[h])' /\ Binding(handle[h])' /\ Answer(handle[h])' /\ handle'[h].on = Nil
  <2> HIDE DEF b
  <2>1. CASE ok /\ x.op = "open"
    <3> DEFINE z == [b EXCEPT !.pc = "locate", !.op = "open"]
    <3>1. handle'[h] = z
      BY <1>2, <2>1
    <3>2. /\ z.pc = "locate" /\ z.op = "open" /\ z.on = Nil /\ z.id = x.id
          /\ z.path = p /\ z.replicas = x.replicas
      BY <1>3, <1>8 DEF HandleSet
    <3> HIDE DEF z
    <3>3. Role(h, handle[h])' /\ Answer(handle[h])'
      BY <1>2, <3>1, <3>2 DEF Role, Answer
    <3>4. /\ x.id # Nil => f = x.id /\ x.replicas = Addr \X {x.id}
          /\ x.id = Nil => x.replicas = {}
      BY <1>0, <1>1, <1>3 DEF Binding
    <3>5. Binding(handle[h])'
      BY <1>0, <1>3, <3>1, <3>2, <3>4 DEF Binding
    <3> QED
      BY <3>1, <3>2, <3>3, <3>5
  <2>2. CASE ok /\ x.op # "open"
    <3>1. handle'[h] = [b EXCEPT !.size = x.arg]
      BY <1>2, <2>2
    <3>2. /\ handle'[h].pc = "open" /\ handle'[h].op = "none" /\ handle'[h].on = Nil
          /\ handle'[h].id = x.id /\ handle'[h].path = x.path /\ handle'[h].replicas = x.replicas
      BY <1>8, <3>1 DEF HandleSet
    <3> QED
      BY <1>4, <2>2, <3>2, OpenAgain
  <2>3. CASE ~ok /\ x.op = "open"
    <3>1. handle'[h] = ClosedHandle
      BY <1>2, <2>3
    <3> QED
      BY <3>1, ClosedAgain
  <2>4. CASE ~ok /\ x.op # "open"
    <3>1. handle'[h] = b
      BY <1>2, <2>4
    <3> QED
      BY <1>4, <1>8, <2>4, <3>1, OpenAgain
  <2> QED
    BY <2>1, <2>2, <2>3, <2>4
<1>10. /\ Above(acked'[f], acked[f]) /\ \A n \in Addr : Above(At(n, f), acked'[f])
       /\ \A e \in Entry : e # f => acked'[e] = acked[e]
  <2>1. CASE ok
    <3>1. acked'[f] = Resize(acked[f], x.arg) /\ \A e \in Entry : e # f => acked'[e] = acked[e]
      BY <1>0, <1>1, <1>3, <2>1 DEF HTypes
    <3>2. writes \in Nat /\ \A n \in Addr : \A i \in 1..Len(At(n, f)) : At(n, f)[i] <= writes
      BY <1>0, HConsts DEF OneInv, Covered, HTypes
    <3>3. ASSUME NEW n \in Addr
          PROVE  Above(At(n, f), Resize(acked[f], x.arg)) /\ Above(Resize(acked[f], x.arg), acked[f])
      BY <1>3, <1>4, <3>2, ResizeAbove
    <3>4. PICK n : n \in Addr
      BY HandlesAssumption
    <3> QED
      BY <3>1, <3>3, <3>4
  <2>2. CASE ~ok
    <3>1. acked' = acked
      BY <1>1, <2>2
    <3> QED
      BY <1>3, <3>1, AboveFacts
  <2> QED
    BY <2>1, <2>2
<1>11. \A e \in Entry : e # f => acked'[e] = acked[e] /\ size'[e] = size[e]
  BY <1>5, <1>10
<1>12. UNCHANGED <<kind, content, writes>> /\ handle'[h].on \in {f, Nil}
  BY <1>1, <1>5, <1>9
<1> HIDE DEF x
<1> QED
  BY <1>2, <1>3, <1>6, <1>7, <1>9, <1>10, <1>11, <1>12, UpdateMoves

LEMMA OneStop ==
  ASSUME OneInv, HBase', OneWriter, [HNext]_hvars, NEW h \in Handle, Stop(h)
  PROVE  OneInv'
<1> DEFINE x == handle[h]
<1>0. /\ HBase /\ HTypes /\ x \in HandleSet /\ Role(h, x) /\ Nil \notin Entry
  BY Standing
<1>1. /\ Set(h, ClosedHandle) /\ UNCHANGED <<tree, content, writes, acked>>
      /\ failed' = IF x.on = Nil THEN failed
                   ELSE failed \cup {<<x.on, IF x.op = "write" THEN "write" ELSE "truncate">>}
  BY DEF Stop
<1>2. CASE x.on = Nil
  <2>1. failed' = failed
    BY <1>1, <1>2
  <2> QED
    BY <1>1, <1>2, <2>1, ClosedFine, QuietSet
<1>3. CASE x.on # Nil
  <2>1. x.pc \in {"writing", "truncating", "sizing"}
    BY <1>0, <1>3 DEF Role
  <2>2. /\ h \in Writers /\ handle'[h] = ClosedHandle
        /\ \A g \in Handle : g # h => handle'[g] = handle[g]
        /\ \E f \in Entry, p \in Path :
             /\ f = handle[h].on /\ p = handle[h].path /\ kind[f] = "file"
             /\ lookup(p) = f /\ lookup(p)' = f /\ acked[f] \in Bytes
             /\ \A n \in Addr : At(n, f) \in Bytes /\ Above(At(n, f), acked[f])
    BY <1>1, <2>1, Standings
  <2>3. PICK f \in Entry, p \in Path :
             /\ f = handle[h].on /\ p = handle[h].path /\ kind[f] = "file"
             /\ lookup(p) = f /\ lookup(p)' = f /\ acked[f] \in Bytes
             /\ \A n \in Addr : At(n, f) \in Bytes /\ Above(At(n, f), acked[f])
    BY <2>2
  <2>4. Role(h, handle[h])' /\ Binding(handle[h])' /\ Answer(handle[h])' /\ handle'[h].on = Nil
    BY <2>2, ClosedAgain
  <2>5. UNCHANGED <<kind, size, content, writes, acked>>
    BY <1>1 DEF tree
  <2>6. \A m : m[1] # f => (m \in failed' <=> m \in failed)
    BY <1>1, <1>3, <2>3
  <2>7. <<f, "truncate">> \in failed' \/ \A n \in Addr : size'[f] <= Len(At(n, f))
    <3>1. CASE <<f, "truncate">> \in failed \/ x.op # "write"
      BY <1>1, <1>3, <2>3, <3>1
    <3>2. CASE <<f, "truncate">> \notin failed /\ x.op = "write"
      BY <2>2, <2>3, <2>5, <3>2, SizeNow
    <3> QED
      BY <3>1, <3>2
  <2>8. Above(acked'[f], acked[f]) /\ \A n \in Addr : Above(At(n, f), acked'[f])
    BY <2>3, <2>5, AboveFacts
  <2> HIDE DEF x
  <2> QED
    BY <2>2, <2>3, <2>4, <2>5, <2>6, <2>7, <2>8, UpdateMoves
<1> QED
  BY <1>2, <1>3

\* A read may no longer count on what a truncation that began is to cut off.
LEMMA FloorCut ==
  ASSUME OneInv, NEW g \in Handle, NEW k \in 0..MaxBytes, NEW e \in Entry, NEW y,
         handle[g].id = e, y = [handle[g] EXCEPT !.floor = Cut(@, k)],
         handle'[g] = y, acked'[e] = Cut(acked[e], k)
  PROVE  Floor(handle[g])'
<1>0. /\ HBase /\ handle[g] \in HandleSet /\ Progress(handle[g]) /\ Floor(handle[g])
      /\ acked[e] \in Bytes
  BY Standing, AtFacts
<1>1. PICK x \in HandleSet : x = handle[g]
  BY <1>0
<1>2. PICK t \in Bytes : t = Cut(x.floor, k)
  BY <1>1, CutFacts DEF HandleSet
<1>3. /\ y.pc = x.pc /\ y.id = e /\ y.buf = x.buf /\ y.todo = x.todo /\ y.n = x.n
      /\ y.arg = x.arg /\ y.status = x.status /\ y.floor = t
  BY <1>1, <1>2 DEF HandleSet
<1>4. /\ x.floor \in Bytes /\ Len(x.floor) \in Nat /\ Len(t) \in Nat /\ x.arg \in Nat
      /\ Len(x.buf) \in Nat /\ x.n \in Nat
  BY BytesFacts, HConsts DEF HandleSet
<1>5. Len(t) <= Len(x.floor) /\ \A j \in 1..Len(t) : t[j] = x.floor[j]
  <2>1. /\ Len(t) = (IF k < Len(x.floor) THEN k ELSE Len(x.floor))
        /\ \A j \in 1..Len(t) : t[j] = x.floor[j]
    BY <1>2, <1>4, CutFacts
  <2>2. k \in Nat
    BY HConsts
  <2> QED
    BY <1>4, <2>1, <2>2
<1>6. x.pc \in {"reading", "getting", "got"} => Above(acked'[e], t)
  <2>1. HAVE x.pc \in {"reading", "getting", "got"}
  <2>2. Above(acked[e], x.floor)
    BY <1>0, <1>1, <2>1 DEF Floor
  <2>3. Above(Cut(acked[e], k), Cut(x.floor, k))
    BY <1>0, <1>4, <2>2, CutAbove
  <2> QED
    BY <1>2, <2>3
<1>7. ASSUME x.pc = "reading"
      PROVE  /\ Cardinality(Upto(Filled(Len(x.buf), x.todo), Len(t) - x.arg)) <= x.n
             /\ \A j \in Filled(Len(x.buf), x.todo) : x.arg + j <= Len(t) => t[x.arg + j] <= x.buf[j]
  <2> DEFINE F == Filled(Len(x.buf), x.todo)
             A == Upto(F, Len(t) - x.arg)
             B == Upto(F, Len(x.floor) - x.arg)
  <2>1. /\ Cardinality(B) <= x.n
        /\ \A j \in F : x.arg + j <= Len(x.floor) => x.floor[x.arg + j] <= x.buf[j]
    BY <1>0, <1>1, <1>7 DEF Floor
  <2>2. IsFiniteSet(F) /\ \A j \in F : j \in Nat /\ j >= 1
    <3>1. IsFiniteSet(F)
      BY <1>4, FilledBound
    <3>2. \A j \in F : j \in 1..Len(x.buf)
      BY DEF Filled
    <3> QED
      BY <1>4, <3>1, <3>2
  <2> HIDE DEF F
  <2>3. B \in SUBSET F /\ A \in SUBSET B
    BY <1>4, <1>5, <2>2 DEF Upto
  <2>4. IsFiniteSet(B) /\ IsFiniteSet(A) /\ Cardinality(A) <= Cardinality(B)
    BY <2>2, <2>3, FS_Subset
  <2>5. Cardinality(A) \in Nat /\ Cardinality(B) \in Nat
    BY <2>4, FS_CardinalityType
  <2> HIDE DEF A, B
  <2>6. Cardinality(A) <= x.n
    BY <1>4, <2>1, <2>4, <2>5
  <2>7. ASSUME NEW j \in F, x.arg + j <= Len(t) PROVE t[x.arg + j] <= x.buf[j]
    <3>1. x.arg + j \in 1..Len(t) /\ x.arg + j <= Len(x.floor)
      BY <1>4, <1>5, <2>2, <2>7
    <3>2. t[x.arg + j] = x.floor[x.arg + j]
      BY <1>5, <3>1
    <3> QED
      BY <2>1, <3>1, <3>2
  <2> QED
    BY <2>6, <2>7 DEF A, F
<1>8. ASSUME x.pc = "got", x.status # "pending"
      PROVE  Len(t) <= x.n /\ \A j \in 1..Len(t) : t[j] <= x.buf[j]
  <2>1. Len(x.floor) <= x.n /\ \A j \in 1..Len(x.floor) : x.floor[j] <= x.buf[j]
    BY <1>0, <1>1, <1>8 DEF Floor
  <2>2. \A j \in 1..Len(t) : j \in 1..Len(x.floor)
    BY <1>4, <1>5
  <2> QED
    BY <1>4, <1>5, <2>1, <2>2
<1> QED
  BY <1>3, <1>6, <1>7, <1>8 DEF Floor

LEMMA OneTruncate ==
  ASSUME OneInv, HBase', OneWriter, [HNext]_hvars, NEW h \in Handle, NEW k \in 0..MaxBytes,
         handle[h].pc \in {"open", "located"}, h \in Writers, truncateAllReplicas(h, k)
  PROVE  OneInv'
<1> DEFINE x == handle[h]
           o == IF x.op = "open" THEN x.op ELSE "truncate"
<1>0. /\ HBase /\ IInv /\ FlatFiles /\ HTypes /\ x \in HandleSet /\ x.path \in Path
      /\ Role(h, x) /\ Binding(x) /\ Nil \notin Entry /\ Unborn /\ Covered /\ Backed
  BY Standing DEF OneInv
<1>1. IsFile(lookup(x.path)) /\ UNCHANGED <<tree, content, writes, failed>>
  BY DEF truncateAllReplicas
<1>2. PICK e \in Entry, p \in Path : e = lookup(x.path) /\ p = x.path
  BY <1>0, <1>1, FileFacts
<1>3. kind[e] = "file" /\ fileID[e] = e /\ replicas[e] = Addr \X {e} /\ lookup(p) = e
  BY <1>0, <1>1, <1>2, FileFacts
<1> DEFINE y == [x EXCEPT !.pc = "truncating", !.arg = k, !.on = e, !.op = o, !.todo = Addr \X {e}]
<1>4. /\ handle'[h] = y
      /\ \A g \in Handle : g # h =>
           handle'[g] = IF handle[g].id = e THEN [handle[g] EXCEPT !.floor = Cut(@, k)] ELSE handle[g]
  BY <1>2, <1>3 DEF truncateAllReplicas
<1>5. acked'[e] = Cut(acked[e], k) /\ \A d \in Entry : d # e => acked'[d] = acked[d]
  BY <1>0, <1>2, <1>3 DEF truncateAllReplicas, HTypes
<1>6. x.on = Nil
  BY <1>0 DEF Role
<1>7. \A q \in Path : lookup(q)' = lookup(q)
  BY <1>0, <1>1, SameLookup DEF tree
<1>8. /\ y.pc = "truncating" /\ y.arg = k /\ y.on = e /\ y.op = o /\ y.todo = Addr \X {e}
      /\ y.path = p /\ y.id = x.id /\ y.replicas = x.replicas
  BY <1>0, <1>2 DEF HandleSet
<1>9. o \in {"truncate", "open"}
  OBVIOUS
<1> HIDE DEF y, o
<1>10. acked[e] \in Bytes /\ \A n \in Addr : At(n, e) \in Bytes /\ Above(At(n, e), acked[e])
  BY <1>0, AtFacts DEF Covered
<1>11. Len(Cut(acked[e], k)) <= k /\ \A n \in Addr : Above(At(n, e), Cut(acked[e], k))
  <2>1. PICK n : n \in Addr
    BY HandlesAssumption
  <2> QED
    BY <1>10, <2>1, CutAbove
<1>12. Fine(h)'
  <2>1. Role(h, handle[h])'
    BY <1>4, <1>8, <1>9, <1>0 DEF Role
  <2>2. Binding(handle[h])'
    <3>1. lookup(p)' = e
      BY <1>3, <1>7
    <3>2. /\ x.id # Nil => e = x.id /\ x.replicas = Addr \X {x.id}
          /\ x.id = Nil => x.replicas = {}
      BY <1>0, <1>2 DEF Binding
    <3> QED
      BY <1>0, <1>4, <1>8, <3>1, <3>2 DEF Binding
  <2>3. Answer(handle[h])'
    <3>1. \A n \in Addr : <<n, e>> \in Addr \X {e}
      OBVIOUS
    <3> QED
      BY <1>4, <1>5, <1>8, <1>9, <1>11, <3>1 DEF Answer
  <2>4. Floor(handle[h])'
    BY <1>4, <1>8 DEF Floor
  <2> QED
    BY <2>1, <2>2, <2>3, <2>4 DEF Fine
<1>13. ASSUME NEW g \in Handle, g # h PROVE Fine(g)' /\ handle[g].on = Nil /\ handle'[g].on = Nil
  <2>0. /\ handle[g] \in HandleSet /\ handle[g].path \in Path /\ Role(g, handle[g])
        /\ Binding(handle[g]) /\ Floor(handle[g])
    BY Standing
  <2>1. g \notin Writers
    BY <1>13 DEF OneWriter
  <2>2. PICK u \in HandleSet : u = handle[g]
    BY <2>0
  <2>3. PICK v : v = handle'[g]
    OBVIOUS
  <2>4. /\ v.pc = u.pc /\ v.op = u.op /\ v.on = u.on /\ v.id = u.id /\ v.path = u.path
        /\ v.replicas = u.replicas /\ v.todo = u.todo
    <3>1. CASE u.id = e
      BY <1>4, <1>13, <2>2, <2>3, <3>1 DEF HandleSet
    <3>2. CASE u.id # e
      BY <1>4, <1>13, <2>2, <2>3, <3>2
    <3> QED
      BY <3>1, <3>2
  <2>5. u.on = Nil /\ u.pc \notin {"writing", "truncating", "sizing"} /\ u.op # "write"
    BY <2>0, <2>1, <2>2 DEF Role
  <2>6. Role(g, handle[g])'
    BY <2>0, <2>2, <2>3, <2>4 DEF Role
  <2>7. Answer(handle[g])'
    BY <2>3, <2>4, <2>5 DEF Answer
  <2>8. Binding(handle[g])'
    <3>1. PICK q \in Path : q = u.path
      BY <2>0, <2>2
    <3>2. lookup(q)' = lookup(q)
      BY <1>7
    <3>3. Binding(u)
      BY <2>0, <2>2
    <3> QED
      BY <2>3, <2>4, <3>1, <3>2, <3>3 DEF Binding
  <2>9. Floor(handle[g])'
    <3>1. CASE handle[g].id = e
      <4>1. handle'[g] = [handle[g] EXCEPT !.floor = Cut(@, k)]
        BY <1>4, <1>13, <3>1
      <4> QED
        BY <1>5, <3>1, <4>1, FloorCut
    <3>2. CASE handle[g].id # e
      <4>1. handle'[g] = handle[g]
        BY <1>4, <1>13, <3>2
      <4>2. handle[g].id \in Entry => acked'[handle[g].id] = acked[handle[g].id]
        BY <1>5, <3>2
      <4> QED
        BY <2>0, <4>1, <4>2 DEF Floor
    <3> QED
      BY <3>1, <3>2
  <2> QED
    BY <2>2, <2>3, <2>4, <2>5, <2>6, <2>7, <2>8, <2>9 DEF Fine
<1>14. kind' = kind /\ size' = size /\ \A n \in Addr, d \in Entry : At(n, d)' = At(n, d)
  BY <1>1 DEF tree, At
<1>15. Unborn'
  <2>1. \A d \in Entry : Clean(d)' <=> Clean(d)
    BY <1>1 DEF Clean
  <2> QED
    BY <1>0, <1>1, <1>3, <1>5, <1>14, <2>1 DEF Unborn
<1>16. Covered'
  <2>1. SUFFICES ASSUME NEW n \in Addr, NEW d \in Entry
                 PROVE  /\ Above(At(n, d), acked'[d])
                        /\ \A i \in 1..Len(At(n, d)) : At(n, d)[i] <= writes
    BY <1>1, <1>14 DEF Covered
  <2>2. Above(At(n, d), acked[d]) /\ \A i \in 1..Len(At(n, d)) : At(n, d)[i] <= writes
    BY <1>0 DEF Covered
  <2> QED
    BY <1>5, <1>11, <2>2
<1>17. Backed'
  <2>1. SUFFICES ASSUME NEW d \in Entry, kind[d] = "file",
                        ~Updating(d, {"truncate", "open"})', <<d, "truncate">> \notin failed,
                        NEW n \in Addr
                 PROVE  size[d] <= Len(At(n, d))
    BY <1>1, <1>14 DEF Backed
  <2>2. ~Updating(d, {"truncate", "open"})
    BY <1>0, <1>6, <1>13 DEF Updating
  <2> QED
    BY <1>0, <2>1, <2>2 DEF Backed
<1> QED
  BY <1>12, <1>13, <1>15, <1>16, <1>17 DEF OneInv, Fine

----------------------------------------------------------------------------
(* The invariant, and what follows from it.                                 *)

LEMMA OneInit == HInit => OneInv
<1> SUFFICES ASSUME HInit PROVE OneInv
  OBVIOUS
<1>1. HBase
  BY HInitBase
<1>2. \A h \in Handle : Role(h, handle[h]) /\ Binding(handle[h]) /\ Answer(handle[h]) /\ Floor(handle[h])
  BY DEF HInit, ClosedHandle, Role, Binding, Answer, Floor
<1>3. failed = {} /\ \A e \in Entry : acked[e] = <<>> /\ \A n \in Addr : content[n][e] = Absent
  BY DEF HInit
<1>4. \A n \in Addr, e \in Entry : At(n, e) = <<>>
  BY <1>3 DEF At
<1>5. Unborn
  BY <1>3 DEF Unborn, Clean
<1>6. Above(<<>>, <<>>) /\ \A i : i \notin 1..Len(<<>>)
  BY HConsts, AboveFacts
<1>7. Covered
  BY <1>3, <1>4, <1>6 DEF Covered
<1>8. \A e \in Entry : kind[e] # "file"
  BY DEF HInit, Init
<1> QED
  BY <1>1, <1>2, <1>5, <1>7, <1>8 DEF OneInv, Backed

LEMMA OneNext ==
  ASSUME OneWriter, OneInv, [HNext]_hvars
  PROVE  OneInv'
<1>0. HBase /\ HBase'
  BY HNextBase DEF OneInv
<1>1. ASSUME NEW h \in Handle, OpenStep(h) PROVE OneInv'
  <2>1. ASSUME OpenTruncate(h), truncateAllReplicas(h, 0) PROVE OneInv'
    <3>1. handle[h].pc = "located"
      BY <2>1 DEF OpenTruncate
    <3>2. h \in Writers
      BY <3>1, Standing DEF Role
    <3> QED
      BY <1>0, <2>1, <3>1, <3>2, OneTruncate, HConsts
  <2> QED
    BY <1>0, <1>1, <2>1, OneOpen, OneCreate DEF OpenStep
<1>2. ASSUME NEW h \in Handle, UpdateStep(h) PROVE OneInv'
  <2>1. ASSUME NEW k \in Sizes, Truncate(h, k) PROVE OneInv'
    <3>1. handle[h].pc = "open" /\ h \in Writers /\ truncateAllReplicas(h, k) /\ k \in 0..MaxBytes
      BY <2>1, HandlesAssumption DEF Truncate
    <3> QED
      BY <1>0, <3>1, OneTruncate
  <2>2. ASSUME NEW i \in Offsets, WriteAt(h, i) PROVE OneInv'
    BY <1>0, <2>2, OneWriteAt
  <2>3. ASSUME NEW r \in Replica, NEW took \in BOOLEAN, NEW ok \in BOOLEAN,
               PartialWrite(h, r, took, ok) \/ TruncateReplica(h, r, took, ok)
        PROVE  OneInv'
    BY <1>0, <2>3, OneReplica
  <2>4. ASSUME WriteAnswered(h) \/ TruncateAnswered(h) PROVE OneInv'
    BY <1>0, <2>4, OneWriteAnswered, OneTruncateAnswered
  <2>5. ASSUME NEW took \in BOOLEAN, NEW ok \in BOOLEAN,
               WriteReturns(h, took, ok) \/ TruncateReturns(h, took, ok)
        PROVE  OneInv'
    BY <1>0, <2>5, OneWriteReturns, OneTruncateReturns
  <2> QED
    BY <1>2, <2>1, <2>2, <2>3, <2>4, <2>5 DEF UpdateStep
<1>3. ASSUME NEW h \in Handle, ReadStep(h) PROVE OneInv'
  BY <1>0, <1>3, OneReadAt, OneRangeRead, OneGet DEF ReadStep
<1>4. ASSUME NEW h \in Handle, Stop(h) PROVE OneInv'
  BY <1>0, <1>4, OneStop
<1>5. ASSUME NEW h \in Handle, Close(h) PROVE OneInv'
  BY <1>0, <1>5, OneClose
<1>6. ASSUME NEW p \in Path, Repairs(p) PROVE OneInv'
  BY <1>0, <1>6, OneClose
<1>7. ASSUME NEW src \in Path, NEW dst \in Path, Rename(src, dst) PROVE OneInv'
  BY <1>0, <1>7, OneClose
<1>8. ASSUME UNCHANGED hvars PROVE OneInv'
  BY <1>0, <1>8, OneClose
<1> QED
  BY <1>1, <1>2, <1>3, <1>4, <1>5, <1>6, <1>7, <1>8 DEF HNext

LEMMA OneInvHolds ==
  ASSUME OneWriter
  PROVE  HSpec => []OneInv
<1>1. OneInv /\ [HNext]_hvars => OneInv'
  BY OneNext
<1> QED
  BY <1>1, OneInit, PTL DEF HSpec

\* Data before metadata: the size that the MDS shows is never more than any
\* replica has, whatever calls of WriteAt fail and wherever its client stops
\* (WriteAt sends the size after every replica answered).
THEOREM SizesBacked ==
  ASSUME OneWriter
  PROVE  HSpec => []SizeBacked
<1>1. OneInv => SizeBacked
  <2> SUFFICES ASSUME OneInv, NEW e \in Reachable, IsFile(e),
                      ~Updating(fileID[e], {"truncate", "open"}),
                      <<fileID[e], "truncate">> \notin failed, NEW r \in replicas[e]
               PROVE  size[e] <= Len(BytesAt(r))
    BY DEF SizeBacked
  <2>1. HBase /\ IInv /\ FlatFiles /\ Backed
    BY DEF OneInv, HBase
  <2>2. e \in Entry /\ kind[e] = "file"
    BY <2>1, ReachableAllocated DEF IsFile
  <2>3. fileID[e] = e /\ replicas[e] = Addr \X {e}
    BY <2>1, <2>2 DEF FlatFiles
  <2>4. PICK n \in Addr : r = <<n, e>>
    BY <2>3
  <2>5. BytesAt(r) = At(n, e)
    BY <2>1, <2>2, <2>4, AtFacts
  <2> QED
    BY <2>1, <2>2, <2>3, <2>5 DEF Backed
<1> QED
  BY <1>1, OneInvHolds, PTL

\* ReadAt returns what was acknowledged before it began, or newer bytes,
\* whichever replicas its segments are read from, while the writer goes on.
THEOREM ReadsAreCurrent ==
  ASSUME OneWriter
  PROVE  HSpec => []ReadsCurrent
<1>1. OneInv => ReadsCurrent
  <2> SUFFICES ASSUME OneInv, NEW h \in Handle, NEW x, x = handle[h],
                      x.pc = "reading", x.todo = {},
                      NEW j \in 1..Len(x.buf), x.arg + j <= Len(x.floor)
               PROVE  j <= x.n /\ x.buf[j] >= x.floor[x.arg + j]
    BY DEF ReadsCurrent
  <2>1. x \in HandleSet /\ Floor(x)
    BY Standing
  <2>2. /\ x.arg \in Nat /\ Len(x.buf) \in Nat /\ x.n \in Nat /\ Len(x.floor) \in Nat
        /\ x.floor \in Bytes /\ x.buf \in Seq(Int)
    <3>1. x.arg \in 0..MaxBytes /\ x.n \in Nat /\ x.floor \in Bytes /\ x.buf \in Seq(Int)
      BY <2>1 DEF HandleSet
    <3>2. x.arg \in Nat
      BY <3>1, HConsts
    <3>3. Len(x.floor) \in Nat /\ Len(x.buf) \in Nat
      BY <3>1, BytesFacts
    <3> QED
      BY <3>1, <3>2, <3>3
  <2>3. Filled(Len(x.buf), x.todo) = 1..Len(x.buf)
    BY DEF Filled
  <2> DEFINE B == Upto(1..Len(x.buf), Len(x.floor) - x.arg)
  <2>4. /\ Cardinality(B) <= x.n /\ x.floor[x.arg + j] <= x.buf[j]
    BY <2>1, <2>3 DEF Floor
  <2>5. IsFiniteSet(1..Len(x.buf)) /\ B \in SUBSET (1..Len(x.buf)) /\ (1..j) \in SUBSET B
    <3>1. IsFiniteSet(1..Len(x.buf)) /\ B \in SUBSET (1..Len(x.buf))
      <4>1. IsFiniteSet(1..Len(x.buf))
        BY <2>2, FS_Interval
      <4>2. B \in SUBSET (1..Len(x.buf))
        BY DEF Upto
      <4> QED
        BY <4>1, <4>2
    <3>2. \A i \in 1..j : i \in 1..Len(x.buf) /\ i <= Len(x.floor) - x.arg
      BY <2>2, SMTT(60)
    <3>3. \A i \in 1..j : i \in B
      BY <3>2 DEF Upto
    <3> HIDE DEF B
    <3> QED
      BY <3>1, <3>3
  <2>6. IsFiniteSet(B) /\ Cardinality(1..j) <= Cardinality(B)
    BY <2>5, FS_Subset
  <2>7. Cardinality(1..j) = j /\ Cardinality(B) \in Nat
    BY <2>2, <2>6, FS_Interval, FS_CardinalityType
  <2> HIDE DEF B
  <2>8. x.floor[x.arg + j] \in Nat /\ x.buf[j] \in Int
    <3>1. x.arg + j \in 1..Len(x.floor)
      BY <2>2
    <3>2. \A i \in 1..Len(x.floor) : x.floor[i] \in Nat
      BY <2>2, BytesFacts
    <3> QED
      BY <2>2, <3>1, <3>2, SMTT(60)
  <2> QED
    BY <2>2, <2>4, <2>6, <2>7, <2>8
<1> QED
  BY <1>1, OneInvHolds, PTL

\* So does GetFile, from the first replica that answers.
THEOREM DownloadsAreCurrent ==
  ASSUME OneWriter
  PROVE  HSpec => []DownloadsCurrent
<1>1. OneInv => DownloadsCurrent
  <2> SUFFICES ASSUME OneInv, NEW h \in Handle, NEW x, x = handle[h],
                      x.pc = "got", x.status # "pending", NEW j \in 1..Len(x.floor)
               PROVE  j <= x.n /\ x.buf[j] >= x.floor[j]
    BY DEF DownloadsCurrent
  <2>1. x \in HandleSet /\ Floor(x) /\ Progress(x)
    BY Standing
  <2>2. /\ Len(x.buf) \in Nat /\ x.n \in Nat /\ Len(x.floor) \in Nat
        /\ x.floor \in Bytes /\ x.buf \in Seq(Int) /\ x.n <= Len(x.buf)
    BY <2>1, BytesFacts DEF HandleSet, Progress
  <2>3. Len(x.floor) <= x.n /\ x.floor[j] <= x.buf[j]
    BY <2>1 DEF Floor
  <2>4. x.floor[j] \in Nat /\ j \in 1..Len(x.buf)
    <3>1. \A i \in 1..Len(x.floor) : x.floor[i] \in Nat
      BY <2>2, BytesFacts
    <3> QED
      BY <2>2, <2>3, <3>1
  <2>5. x.buf[j] \in Int
    BY <2>2, <2>4
  <2> QED
    BY <2>2, <2>3, <2>4, <2>5
<1> QED
  BY <1>1, OneInvHolds, PTL

----------------------------------------------------------------------------
(* What acknowledged updates make of files.                                 *)

\* The file that a handle leads to.
LEMMA FileOf ==
  ASSUME OneInv, NEW h \in Handle
  PROVE  /\ handle[h].id # Nil => /\ handle[h].id \in Entry /\ kind[handle[h].id] = "file"
                                  /\ lookup(handle[h].path) = handle[h].id
         /\ handle[h].pc = "locate" => /\ lookup(handle[h].path) \in Entry
                                       /\ kind[lookup(handle[h].path)] = "file"
                                       /\ lookup(handle[h].path) # Nil
         /\ handle[h].on # Nil => /\ handle[h].on \in Entry /\ kind[handle[h].on] = "file"
                                  /\ h \in Writers /\ lookup(handle[h].path) = handle[h].on
<1> DEFINE x == handle[h]
<1>0. /\ IInv /\ FlatFiles /\ x.path \in Path /\ Role(h, x) /\ Binding(x) /\ Nil \notin Entry
  BY Standing
<1>1. FlatTree
  BY <1>0, FlatLookup
<1>2. lookup(x.path) # Nil => lookup(x.path) \in Entry /\ kind[lookup(x.path)] = "file"
  BY <1>0, <1>1 DEF FlatTree
<1>3. x.on # Nil => h \in Writers
  BY <1>0 DEF Role
<1> QED
  BY <1>0, <1>2, <1>3 DEF Binding

LEMMA QuietSettled ==
  ASSUME SettledInv, OneInv', OneWriter, [HNext]_hvars, UNCHANGED <<content, acked, failed>>,
         \A e \in Entry : kind[e] = "file" => size'[e] = size[e],
         \A e \in Entry : kind'[e] = "file" /\ kind[e] # "file" => size'[e] = 0,
         \A g \in Writers : \/ handle'[g] = handle[g]
                            \/ handle[g].on = Nil /\ handle'[g].on = Nil /\ Sized(handle[g])'
  PROVE  SettledInv'
<1>0. OneInv /\ HBase /\ HBase' /\ Unborn
  BY DEF SettledInv, OneInv
<1>1. /\ \A n \in Addr, e \in Entry : At(n, e)' = At(n, e)
      /\ \A e \in Entry : Clean(e)' <=> Clean(e)
  BY DEF At, Clean
<1>2. \A g \in Handle : handle'[g].on = handle[g].on
  <2>1. TAKE g \in Handle
  <2>2. CASE g \in Writers
    BY <2>2
  <2>3. CASE g \notin Writers
    BY <1>0, <2>3 DEF OneInv, Role
  <2> QED
    BY <2>2, <2>3
<1>3. ASSUME NEW g \in Writers PROVE Sized(handle[g])'
  <2>1. CASE handle'[g] = handle[g]
    <3>0. g \in Handle
      BY HandlesAssumption
    <3>1. PICK x, p : x = handle[g] /\ p = x.path
      OBVIOUS
    <3>2. Sized(x)
      BY <3>1 DEF SettledInv
    <3>3. /\ x.pc = "locate" => lookup(p) \in Entry /\ kind[lookup(p)] = "file"
                                /\ lookup(p)' = lookup(p)
          /\ x.id # Nil => x.id \in Entry /\ kind[x.id] = "file"
      BY <1>0, <3>0, <3>1, FileOf, PathsStay
    <3>4. handle'[g] = x
      BY <2>1, <3>1
    <3> QED
      BY <1>1, <3>1, <3>2, <3>3, <3>4 DEF Sized
  <2> QED
    BY <2>1
<1>4. ASSUME NEW g \in Handle, handle'[g].on # Nil, Clean(handle[g].on)' PROVE Course(handle[g])'
  <2>1. handle[g].on \in Entry /\ kind[handle[g].on] = "file" /\ g \in Writers
    BY <1>0, <1>2, <1>4, FileOf
  <2>a. PICK x : x = handle[g]
    OBVIOUS
  <2>b. PICK e \in Entry : e = x.on
    BY <2>1, <2>a
  <2>2. x = handle[g] /\ e = x.on
    BY <2>a, <2>b
  <2>3. handle'[g] = x
    BY <1>4, <2>1, <2>2
  <2>4. Clean(e)'
    BY <1>4, <2>2, <2>3
  <2>5. Clean(e)
    BY <1>1, <2>4
  <2>6. Course(x)
    BY <1>2, <1>4, <2>2, <2>5 DEF SettledInv
  <2>7. size'[e] = size[e] /\ acked'[e] = acked[e] /\ \A n \in Addr : At(n, e)' = At(n, e)
    BY <1>1, <2>1, <2>2
  <2> QED
    BY <2>2, <2>3, <2>6, <2>7 DEF Course
<1>5. ASSUME NEW e \in Entry, kind'[e] = "file", Clean(e)', \A h \in Handle : handle'[h].on # e
      PROVE  Still(e)'
  <2>1. CASE kind[e] = "file"
    <3>1. Still(e)
      BY <1>1, <1>2, <1>5, <2>1 DEF SettledInv
    <3> QED
      BY <1>1, <2>1, <3>1 DEF Still
  <2>2. CASE kind[e] # "file"
    <3>1. acked[e] = <<>> /\ \A n \in Addr : content[n][e] = Absent
      BY <1>0, <2>2 DEF Unborn
    <3>2. \A n \in Addr : At(n, e) = <<>>
      BY <3>1 DEF At
    <3> QED
      BY <1>1, <1>5, <2>2, <3>1, <3>2, HConsts DEF Still
  <2> QED
    BY <2>1, <2>2
<1> QED
  BY <1>3, <1>4, <1>5 DEF SettledInv

\* A step of the writer on file f.
LEMMA FileSettled ==
  ASSUME SettledInv, OneInv', OneWriter, NEW h \in Writers, NEW f \in Entry, kind' = kind,
         handle[h].on \in {f, Nil}, handle'[h].on \in {f, Nil},
         \A e \in Entry : e # f =>
           /\ acked'[e] = acked[e] /\ size'[e] = size[e]
           /\ \A n \in Addr : content'[n][e] = content[n][e],
         \A m : m[1] # f => (m \in failed' <=> m \in failed),
         Sized(handle[h])',
         Clean(f)' /\ handle'[h].on = f => Course(handle[h])',
         Clean(f)' /\ handle'[h].on = Nil => Still(f)'
  PROVE  SettledInv'
<1>0. OneInv /\ Nil \notin Entry /\ h \in Handle
  BY NamespaceAssumption, HandlesAssumption DEF SettledInv
<1>1. \A g \in Handle : g # h => g \notin Writers /\ handle[g].on = Nil /\ handle'[g].on = Nil
  <2>1. TAKE g \in Handle
  <2>2. HAVE g # h
  <2>3. g \notin Writers
    BY <2>2 DEF OneWriter
  <2> QED
    BY <1>0, <2>3 DEF OneInv, Role
<1>2. \A g \in Writers : Sized(handle[g])'
  <2>1. \A g \in Writers : g = h
    BY DEF OneWriter
  <2> QED
    BY <2>1
<1>3. ASSUME NEW g \in Handle, handle'[g].on # Nil, Clean(handle[g].on)' PROVE Course(handle[g])'
  <2>1. g = h /\ handle'[g].on = f
    BY <1>1, <1>3
  <2>2. Clean(f)'
    BY <1>3, <2>1
  <2> QED
    BY <2>1, <2>2
<1>4. ASSUME NEW e \in Entry, kind'[e] = "file", Clean(e)', \A g \in Handle : handle'[g].on # e
      PROVE  Still(e)'
  <2>1. CASE e = f
    <3>1. handle'[h].on = Nil
      BY <1>0, <1>4, <2>1
    <3> QED
      BY <1>4, <2>1, <3>1
  <2>2. CASE e # f
    <3>1. Clean(e)
      BY <1>4, <2>2 DEF Clean
    <3>2. \A g \in Handle : handle[g].on # e
      BY <1>0, <1>1, <2>2
    <3>3. Still(e)
      BY <1>4, <3>1, <3>2 DEF SettledInv
    <3>4. \A n \in Addr : At(n, e)' = At(n, e)
      BY <2>2 DEF At
    <3> QED
      BY <2>2, <3>3, <3>4 DEF Still
  <2> QED
    BY <2>1, <2>2
<1> QED
  BY <1>2, <1>3, <1>4 DEF SettledInv

LEMMA SetSettled ==
  ASSUME SettledInv, OneInv', OneWriter, [HNext]_hvars, NEW h \in Handle, NEW y, Set(h, y),
         UNCHANGED <<kind, size, content, acked, failed>>,
         h \in Writers => handle[h].on = Nil /\ y.on = Nil /\ Sized(handle[h])'
  PROVE  SettledInv'
<1>0. handle \in [Handle -> HandleSet] /\ Writers \subseteq Handle
  BY HandlesAssumption DEF SettledInv, OneInv, HBase, HTypes
<1>1. handle'[h] = y /\ \A g \in Handle : g # h => handle'[g] = handle[g]
  BY <1>0 DEF Set
<1>2. \A g \in Writers : \/ handle'[g] = handle[g]
                         \/ handle[g].on = Nil /\ handle'[g].on = Nil /\ Sized(handle[g])'
  BY <1>0, <1>1
<1> QED
  BY <1>2, QuietSettled

LEMMA ClosedSized ==
  ASSUME NEW h \in Handle, handle'[h] = ClosedHandle
  PROVE  Sized(handle[h])' /\ ClosedHandle.on = Nil
  BY DEF ClosedHandle, Sized

\* The steps that update no file.
LEMMA SettledQuiet ==
  ASSUME SettledInv, OneInv', OneWriter, [HNext]_hvars, NEW h \in Handle,
         \/ \E p \in Path, flags \in OpenFlags \cup {{}} : OpenStat(h, p, flags)
         \/ \E e \in Entry : OpenCreate(h, e)
         \/ OpenLocate(h) \/ ReadStep(h) \/ Close(h)
         \/ OpenTruncate(h) /\ ~truncateAllReplicas(h, 0)
         \/ Stop(h) /\ handle[h].on = Nil
  PROVE  SettledInv'
<1> DEFINE x == handle[h]
<1>0. /\ OneInv /\ HBase /\ HBase' /\ IInv /\ FlatFiles /\ x \in HandleSet /\ x.path \in Path
      /\ Role(h, x) /\ Binding(x) /\ Nil \notin Entry
  BY Standing DEF SettledInv, OneInv
<1>a. handle \in [Handle -> HandleSet]
  BY <1>0 DEF HBase, HTypes
<1>b. h \in Writers => Sized(x)
  BY DEF SettledInv
<1> HIDE DEF x
<1>1. ASSUME NEW p \in Path, NEW flags \in OpenFlags \cup {{}}, OpenStat(h, p, flags)
      PROVE  SettledInv'
  <2> DEFINE c == [ClosedHandle EXCEPT !.path = p, !.op = "open", !.flags = flags]
             y == IF "O_TRUNC" \in flags THEN [c EXCEPT !.pc = "located"]
                  ELSE [c EXCEPT !.pc = "locate", !.size = size[lookup(p)]]
             z == [c EXCEPT !.pc = "create"]
  <2>1. /\ x.pc = "closed" /\ UNCHANGED <<tree, content, writes, acked, failed>>
        /\ Set(h, z) \/ Set(h, y)
    BY <1>1 DEF OpenStat, x
  <2>2. UNCHANGED <<kind, size, children, content, acked, failed>> /\ x.on = Nil
    BY <1>0, <2>1 DEF Role, tree
  <2>3. lookup(p)' = lookup(p)
    BY <1>0, <2>2, SameLookup
  <2>4. ASSUME NEW u, Set(h, u), u.on = Nil, u.id = Nil, u.op = "open", u.path = p,
               \/ u.pc \in {"create", "located"} /\ u.size = 0
               \/ u.pc = "locate" /\ u.size = size[lookup(p)]
        PROVE  SettledInv'
    <3>1. handle'[h] = u
      BY <1>a, <2>4 DEF Set
    <3>2. Sized(handle[h])'
      BY <2>2, <2>3, <2>4, <3>1 DEF Sized
    <3> QED
      BY <2>2, <2>4, <3>2, SetSettled DEF x
  <2>5. CASE Set(h, z)
    <3>1. /\ z.on = Nil /\ z.id = Nil /\ z.op = "open" /\ z.path = p /\ z.pc = "create"
          /\ z.size = 0
      BY DEF ClosedHandle
    <3> HIDE DEF z
    <3> QED
      BY <2>4, <2>5, <3>1
  <2>6. CASE Set(h, y)
    <3>1. /\ y.on = Nil /\ y.id = Nil /\ y.op = "open" /\ y.path = p
          /\ \/ y.pc = "located" /\ y.size = 0
             \/ y.pc = "locate" /\ y.size = size[lookup(p)]
      <4>1. CASE "O_TRUNC" \in flags
        <5>1. y = [c EXCEPT !.pc = "located"]
          BY <4>1
        <5> QED
          BY <5>1 DEF ClosedHandle
      <4>2. CASE "O_TRUNC" \notin flags
        <5>1. y = [c EXCEPT !.pc = "locate", !.size = size[lookup(p)]]
          BY <4>2
        <5> QED
          BY <5>1 DEF ClosedHandle
      <4> QED
        BY <4>1, <4>2
    <3> HIDE DEF y
    <3> QED
      BY <2>4, <2>6, <3>1
  <2> QED
    BY <2>1, <2>5, <2>6
<1>2. ASSUME Set(h, ClosedHandle), UNCHANGED <<kind, size, content, acked, failed>>, x.on = Nil
      PROVE  SettledInv'
  <2>1. handle'[h] = ClosedHandle
    BY <1>a, <1>2 DEF Set
  <2> QED
    BY <1>2, <2>1, ClosedSized, SetSettled DEF x
<1>3. ASSUME NEW e \in Entry, OpenCreate(h, e) PROVE SettledInv'
  <2>1. x.pc = "create" /\ UNCHANGED <<content, acked, failed>>
    BY <1>3 DEF OpenCreate, x
  <2>2. x.on = Nil /\ h \in Writers
    BY <1>0, <2>1 DEF Role
  <2>3. CASE Set(h, ClosedHandle) /\ UNCHANGED tree
    BY <1>2, <2>1, <2>2, <2>3 DEF tree
  <2>4. ASSUME applyCreateFile(x.path, e, "CreateIfNotExist", 0, Addr),
               handle' = [handle EXCEPT ![h].pc = "locate", ![h].status = "pending",
                                        ![h].replicas = Addr \X {e}]
        PROVE  SettledInv'
    <3>1. /\ lookup(x.path) = Nil
          /\ kind' = [kind EXCEPT ![e] = "file"] /\ size' = [size EXCEPT ![e] = 0]
      BY <2>4 DEF applyCreateFile, MayCreate, Fresh
    <3>2. kind \in [Entry -> {"free", "dir", "file"}] /\ size \in [Entry -> Size \cup {0}]
          /\ kind[e] = "free"
      BY <1>0, <2>4, <3>1 DEF IInv, TypeOK, applyCreateFile, Fresh
    <3>3. /\ \A d \in Entry : kind[d] = "file" => size'[d] = size[d]
          /\ \A d \in Entry : kind'[d] = "file" /\ kind[d] # "file" => size'[d] = 0
          /\ size'[e] = 0
      BY <3>1, <3>2
    <3>4. /\ \A g \in Handle : g # h => handle'[g] = handle[g]
          /\ handle'[h] = [x EXCEPT !.pc = "locate", !.status = "pending", !.replicas = Addr \X {e}]
      BY <1>a, <2>4 DEF x
    <3>5. /\ handle'[h].pc = "locate" /\ handle'[h].path = x.path /\ handle'[h].replicas = Addr \X {e}
          /\ handle'[h].id = x.id /\ handle'[h].on = Nil /\ handle'[h].op = x.op
          /\ handle'[h].size = x.size
      BY <1>0, <2>2, <3>4 DEF HandleSet
    <3>6. x.id = Nil /\ x.op = "open" /\ x.size = 0
      <4>1. x.id # Nil => lookup(x.path) = x.id
        BY <1>0 DEF Binding
      <4> QED
        BY <1>b, <2>1, <2>2, <3>1, <4>1 DEF Sized
    <3>7. lookup(handle[h].path)' = e
      <4>1. Binding(handle[h])'
        BY DEF OneInv
      <4>2. Addr \X {e} # {} /\ lookup(handle[h].path)' # Nil
            /\ Addr \X {e} = Addr \X {lookup(handle[h].path)'}
        BY <3>5, <3>6, <4>1, ReplicasOf DEF Binding
      <4>3. PICK v : v = lookup(handle[h].path)'
        OBVIOUS
      <4>4. PICK a : a \in Addr
        BY HandlesAssumption
      <4>5. <<a, e>> \in Addr \X {v}
        BY <4>2, <4>3, <4>4
      <4> QED
        BY <4>3, <4>5
    <3>8. Sized(handle[h])'
      BY <3>3, <3>5, <3>6, <3>7 DEF Sized
    <3>9. Writers \subseteq Handle
      BY HandlesAssumption
    <3> QED
      BY <2>1, <2>2, <3>3, <3>4, <3>5, <3>8, <3>9, QuietSettled DEF x
  <2> QED
    BY <1>3, <2>3, <2>4 DEF OpenCreate, x
<1>4. ASSUME OpenLocate(h) PROVE SettledInv'
  <2> DEFINE e == lookup(x.path)
             st == IF x.status = "none" THEN status[e] ELSE x.status
             y == [x EXCEPT !.pc = "open", !.op = "none", !.flags = {}, !.status = st,
                     !.id = fileID[e], !.replicas = IF @ = {} THEN replicas[e] ELSE @]
  <2>1. /\ x.pc = "locate" /\ UNCHANGED <<tree, content, acked, failed>>
        /\ Set(h, ClosedHandle) \/ (IsFile(e) /\ Set(h, y))
    BY <1>4 DEF OpenLocate, x
  <2>2. x.on = Nil /\ UNCHANGED <<kind, size, content, acked, failed>>
    BY <1>0, <2>1 DEF Role, tree
  <2>3. CASE Set(h, ClosedHandle)
    BY <1>2, <2>2, <2>3
  <2>4. CASE IsFile(e) /\ Set(h, y)
    <3>1. fileID[e] = e /\ e \in Entry
      BY <1>0, <2>4, FileFacts
    <3>2. y.pc = "open" /\ y.op = "none" /\ y.id = e /\ y.on = Nil /\ y.size = x.size
      BY <1>0, <2>2, <3>1 DEF HandleSet
    <3>3. handle'[h] = y
      BY <1>a, <2>4 DEF Set
    <3> HIDE DEF y
    <3>4. PICK d \in Entry : d = e
      BY <3>1
    <3>5. h \in Writers => (Clean(d) => x.size = size[d])
      BY <1>b, <2>1, <3>4 DEF Sized
    <3>6. Clean(d)' <=> Clean(d)
      BY <2>2 DEF Clean
    <3>7. h \in Writers => Sized(handle[h])'
      BY <2>2, <3>2, <3>3, <3>4, <3>5, <3>6 DEF Sized
    <3> QED
      BY <2>2, <2>4, <3>2, <3>7, SetSettled DEF x
  <2> QED
    BY <2>1, <2>3, <2>4
<1>5. ASSUME OpenTruncate(h), ~truncateAllReplicas(h, 0) PROVE SettledInv'
  <2>1. /\ x.pc = "located" /\ Set(h, ClosedHandle)
        /\ UNCHANGED <<kind, size, content, acked, failed>>
    BY <1>5 DEF OpenTruncate, x, tree
  <2>2. x.on = Nil
    BY <1>0, <2>1 DEF Role
  <2> QED
    BY <1>2, <2>1, <2>2
<1>6. ASSUME ReadStep(h) PROVE SettledInv'
  <2>1. /\ UNCHANGED <<kind, size, content, acked, failed>> /\ \E y : Set(h, y)
        /\ h \notin Writers \/ x.pc \in {"reading", "getting", "got"}
    BY <1>6 DEF ReadStep, ReadAt, RangeRead, ReadReturns, GetLocation, GetData, GetReturns, x, tree
  <2>2. h \notin Writers
    BY <1>0, <2>1 DEF Role
  <2> QED
    BY <2>1, <2>2, SetSettled
<1>7. ASSUME Close(h) PROVE SettledInv'
  <2>1. /\ x.pc = "open" /\ Set(h, ClosedHandle)
        /\ UNCHANGED <<kind, size, content, acked, failed>>
    BY <1>7 DEF Close, applyCompleteFile, x, tree
  <2>2. x.on = Nil
    BY <1>0, <2>1 DEF Role
  <2> QED
    BY <1>2, <2>1, <2>2
<1>8. ASSUME Stop(h), handle[h].on = Nil PROVE SettledInv'
  BY <1>2, <1>8 DEF Stop, x, tree
<1> QED
  BY <1>1, <1>3, <1>4, <1>5, <1>6, <1>7, <1>8

LEMMA StillNow ==
  ASSUME SettledInv, OneWriter, NEW h \in Writers, handle[h].on = Nil,
         NEW f \in Entry, kind[f] = "file", Clean(f)
  PROVE  Still(f)
<1>1. \A g \in Handle : handle[g].on # f
  <2>1. TAKE g \in Handle
  <2>2. g \in Writers => g = h
    BY DEF OneWriter
  <2>3. g \notin Writers => handle[g].on = Nil
    BY DEF SettledInv, OneInv, Role
  <2> QED
    BY <2>2, <2>3, NamespaceAssumption
<1> QED
  BY <1>1 DEF SettledInv

LEMMA SettledWriteAt ==
  ASSUME SettledInv, OneInv', OneWriter, NEW h \in Handle, NEW i \in Offsets, WriteAt(h, i)
  PROVE  SettledInv'
<1> DEFINE x == handle[h]
           y == [x EXCEPT !.pc = "writing", !.op = "write", !.on = x.id,
                   !.arg = i, !.ver = writes + 1, !.todo = x.replicas]
<1>0. /\ OneInv /\ HBase /\ HTypes /\ x \in HandleSet /\ Progress(x)
      /\ Role(h, x) /\ Binding(x) /\ Nil \notin Entry
  BY Standing DEF SettledInv
<1>1. /\ x.pc = "open" /\ h \in Writers /\ Set(h, y)
      /\ UNCHANGED <<tree, content, acked, failed>>
  BY DEF WriteAt
<1>2. handle'[h] = y
  BY <1>0, <1>1 DEF Set, HTypes
<1>3. PICK f \in Entry : f = x.id
  BY <1>0, <1>1 DEF Progress
<1>4. kind[f] = "file" /\ x.replicas = Addr \X {f} /\ x.on = Nil
  BY <1>0, <1>1, <1>3, FileOf DEF Binding, Role
<1>5. /\ y.pc = "writing" /\ y.op = "write" /\ y.on = f /\ y.todo = Addr \X {f} /\ y.id = f
      /\ y.size = x.size
  BY <1>0, <1>3, <1>4 DEF HandleSet
<1>6. UNCHANGED <<kind, size, acked, failed, content>> /\ \A n \in Addr : At(n, f)' = At(n, f)
  BY <1>1 DEF tree, At
<1>7. Sized(x)
  BY <1>1 DEF SettledInv
<1> HIDE DEF y
<1>8. Clean(f)' <=> Clean(f)
  BY <1>6 DEF Clean
<1>9. Sized(handle[h])'
  <2>1. Clean(f) => x.size = size[f]
    BY <1>0, <1>1, <1>3, <1>7 DEF Sized
  <2> QED
    BY <1>2, <1>5, <1>6, <1>8, <2>1 DEF Sized
<1>10. Clean(f)' => Course(handle[h])'
  <2>1. HAVE Clean(f)'
  <2>2. Still(f)
    BY <1>1, <1>4, <1>8, <2>1, StillNow
  <2>3. \A n \in Addr : <<n, f>> \in Addr \X {f}
    OBVIOUS
  <2> QED
    BY <1>2, <1>5, <1>6, <2>2, <2>3 DEF Course, Still
<1>11. handle[h].on \in {f, Nil} /\ handle'[h].on \in {f, Nil} /\ handle'[h].on # Nil
  BY <1>0, <1>2, <1>4, <1>5
<1> HIDE DEF x
<1> QED
  BY <1>1, <1>6, <1>9, <1>10, <1>11, FileSettled

\* What is left of the bytes after a cut decides what a truncation makes of
\* them.
LEMMA ResizeCut ==
  ASSUME NEW s \in Bytes, NEW k \in 0..MaxBytes
  PROVE  Resize(Cut(s, k), k) = Resize(s, k)
<1> DEFINE c == Cut(s, k)
           a == Resize(c, k)
           b == Resize(s, k)
<1>1. /\ c \in Bytes /\ Len(c) = (IF k < Len(s) THEN k ELSE Len(s))
      /\ \A j \in 1..Len(c) : c[j] = s[j]
  BY CutFacts
<1> HIDE DEF c
<1>2. /\ a \in Bytes /\ Len(a) = k /\ \A j \in 1..k : a[j] = IF j <= Len(c) THEN c[j] ELSE 0
  BY <1>1, ResizeFacts
<1>3. /\ b \in Bytes /\ Len(b) = k /\ \A j \in 1..k : b[j] = IF j <= Len(s) THEN s[j] ELSE 0
  BY ResizeFacts
<1> HIDE DEF a, b
<1>4. k \in Nat /\ Len(s) \in Nat
  BY BytesFacts, HConsts
<1>5. ASSUME NEW j \in 1..k PROVE a[j] = b[j]
  <2>1. j <= Len(c) <=> j <= Len(s)
    BY <1>1, <1>4
  <2>2. j <= Len(c) => j \in 1..Len(c)
    BY <1>1, <1>4
  <2> QED
    BY <1>1, <1>2, <1>3, <2>1, <2>2
<1>6. a = b
  BY <1>2, <1>3, <1>5, BytesEqual
<1> QED
  BY <1>6 DEF a, b, c

LEMMA SettledReplica ==
  ASSUME SettledInv, OneInv', OneWriter, [HNext]_hvars, NEW h \in Handle, NEW r \in Replica,
         NEW took \in BOOLEAN, NEW ok \in BOOLEAN,
         PartialWrite(h, r, took, ok) \/ TruncateReplica(h, r, took, ok)
  PROVE  SettledInv'
<1> DEFINE x == handle[h]
           y == [x EXCEPT !.todo = @ \ {r}, !.ok = @ /\ ok]
<1>0. /\ OneInv /\ HBase /\ HBase' /\ HTypes /\ x \in HandleSet /\ x.path \in Path
      /\ Role(h, x) /\ Binding(x) /\ Nil \notin Entry
  BY Standing DEF SettledInv, OneInv
<1>1. /\ x.pc \in {"writing", "truncating"} /\ r \in x.todo /\ Set(h, y) /\ (ok => took)
      /\ UNCHANGED <<tree, writes, acked, failed>>
  BY DEF PartialWrite, TruncateReplica
<1>2. /\ h \in Writers /\ handle'[h] = y
      /\ \E f \in Entry, p \in Path :
           /\ f = handle[h].on /\ p = handle[h].path /\ kind[f] = "file"
           /\ lookup(p) = f /\ lookup(p)' = f /\ acked[f] \in Bytes
           /\ \A n \in Addr : At(n, f) \in Bytes /\ Above(At(n, f), acked[f])
  BY <1>0, <1>1, Standings
<1>3. PICK f \in Entry, p \in Path :
           /\ f = handle[h].on /\ p = handle[h].path /\ kind[f] = "file"
           /\ lookup(p) = f /\ lookup(p)' = f /\ acked[f] \in Bytes
           /\ \A n \in Addr : At(n, f) \in Bytes /\ Above(At(n, f), acked[f])
  BY <1>2
<1>4. PICK n \in Addr : r = <<n, f>>
  <2>1. x.todo \subseteq Addr \X {f}
    BY <1>0, <1>1, <1>3 DEF Binding
  <2> QED
    BY <1>1, <2>1
<1>5. /\ y.pc = x.pc /\ y.op = x.op /\ y.on = f /\ y.arg = x.arg /\ y.ver = x.ver
      /\ y.todo = x.todo \ {r} /\ y.path = p /\ y.id = x.id /\ y.size = x.size
      /\ y.ok = (x.ok /\ ok)
  BY <1>0, <1>3 DEF HandleSet
<1>6. UNCHANGED <<kind, size, acked, failed>> /\ x.arg \in 0..MaxBytes /\ x.ver \in Byte
  BY <1>0, <1>1 DEF tree, HandleSet, Byte
<1>7. Sized(x)
  BY <1>2 DEF SettledInv
<1> HIDE DEF y
<1>8. \A e \in Entry : Clean(e)' <=> Clean(e)
  BY <1>6 DEF Clean
<1>9. Sized(handle[h])'
  <2>1. x.id # Nil => x.id \in Entry
    BY <1>0 DEF HandleSet
  <2> QED
    BY <1>0, <1>1, <1>2, <1>3, <1>5, <1>6, <1>7, <1>8, <2>1 DEF Sized
<1>10. \A m \in Addr, e \in Entry : e # f => content'[m][e] = content[m][e]
  <2>1. \/ content' = content
        \/ \E s : content' = [content EXCEPT ![n][f] = s]
    BY <1>4 DEF PartialWrite, TruncateReplica
  <2> QED
    BY <1>0, <2>1 DEF HTypes
<1>11. \A m \in Addr : m # n => At(m, f)' = At(m, f)
  <2>1. \/ content' = content
        \/ \E s : content' = [content EXCEPT ![n][f] = s]
    BY <1>4 DEF PartialWrite, TruncateReplica
  <2>2. \A m \in Addr : m # n => content'[m][f] = content[m][f]
    BY <1>0, <2>1 DEF HTypes
  <2> QED
    BY <2>2 DEF At
<1>12. /\ ok /\ x.pc = "writing" => At(n, f)' = Write(At(n, f), x.arg, x.ver)
       /\ ok /\ x.pc = "truncating" => At(n, f)' = Resize(At(n, f), x.arg)
  <2>1. BytesAt(r) = At(n, f)
    BY <1>0, <1>4, AtFacts
  <2>2. ASSUME NEW s \in Bytes, content' = [content EXCEPT ![n][f] = s] PROVE At(n, f)' = s
    <3>1. content'[n][f] = s /\ s # Absent
      BY <1>0, <2>2, BytesFacts DEF HTypes
    <3> QED
      BY <3>1 DEF At
  <2>3. ASSUME ok, x.pc = "writing" PROVE At(n, f)' = Write(At(n, f), x.arg, x.ver)
    <3>1. content' = [content EXCEPT ![n][f] = Write(At(n, f), x.arg, x.ver)]
      BY <1>1, <1>4, <2>1, <2>3 DEF PartialWrite, TruncateReplica
    <3>2. PICK s \in Bytes : s = Write(At(n, f), x.arg, x.ver)
      BY <1>3, <1>6, WriteFacts
    <3> QED
      BY <2>2, <3>1, <3>2
  <2>4. ASSUME ok, x.pc = "truncating" PROVE At(n, f)' = Resize(At(n, f), x.arg)
    <3>1. content' = [content EXCEPT ![n][f] = Resize(At(n, f), x.arg)]
      BY <1>1, <1>4, <2>1, <2>4 DEF PartialWrite, TruncateReplica
    <3>2. PICK s \in Bytes : s = Resize(At(n, f), x.arg)
      BY <1>3, <1>6, ResizeFacts
    <3> QED
      BY <2>2, <3>1, <3>2
  <2> QED
    BY <2>3, <2>4
<1>13. Clean(f)' => Course(handle[h])'
  <2>1. HAVE Clean(f)'
  <2>2. Course(x)
    BY <1>0, <1>3, <1>8, <2>1 DEF SettledInv
  <2>3. CASE x.pc = "writing"
    <3>1. x.op = "write" /\ size[f] = Len(acked[f])
      BY <1>0, <1>3, <2>2, <2>3 DEF Role, Course
    <3>2. \A m \in Addr : IF <<m, f>> \in y.todo THEN At(m, f)' = acked[f]
                          ELSE y.ok => At(m, f)' = Write(acked[f], x.arg, x.ver)
      <4>1. TAKE m \in Addr
      <4>2. IF <<m, f>> \in x.todo THEN At(m, f) = acked[f]
            ELSE x.ok => At(m, f) = Write(acked[f], x.arg, x.ver)
        BY <1>3, <2>2, <2>3 DEF Course
      <4>3. CASE m # n
        <5>1. <<m, f>> \in y.todo <=> <<m, f>> \in x.todo
          BY <1>4, <1>5, <4>3
        <5> QED
          BY <1>5, <1>11, <4>2, <4>3, <5>1
      <4>4. CASE m = n
        <5>1. At(n, f) = acked[f] /\ <<m, f>> \notin y.todo
          BY <1>1, <1>4, <1>5, <4>2, <4>4
        <5> QED
          BY <1>5, <1>12, <2>3, <4>4, <5>1
      <4> QED
        BY <4>3, <4>4
    <3> QED
      BY <1>2, <1>5, <1>6, <2>3, <3>1, <3>2 DEF Course
  <2>4. CASE x.pc = "truncating"
    <3>1. x.op # "write"
      BY <1>0, <2>4 DEF Role
    <3>2. \A m \in Addr : IF <<m, f>> \in y.todo THEN Cut(At(m, f)', x.arg) = acked[f]
                          ELSE y.ok => At(m, f)' = Resize(acked[f], x.arg)
      <4>1. TAKE m \in Addr
      <4>2. IF <<m, f>> \in x.todo THEN Cut(At(m, f), x.arg) = acked[f]
            ELSE x.ok => At(m, f) = Resize(acked[f], x.arg)
        BY <1>3, <2>2, <2>4 DEF Course
      <4>3. CASE m # n
        <5>1. <<m, f>> \in y.todo <=> <<m, f>> \in x.todo
          BY <1>4, <1>5, <4>3
        <5> QED
          BY <1>5, <1>11, <4>2, <4>3, <5>1
      <4>4. CASE m = n
        <5>1. Cut(At(n, f), x.arg) = acked[f] /\ <<m, f>> \notin y.todo
          BY <1>1, <1>4, <1>5, <4>2, <4>4
        <5>2. Resize(Cut(At(n, f), x.arg), x.arg) = Resize(At(n, f), x.arg)
          BY <1>3, <1>6, ResizeCut
        <5> QED
          BY <1>5, <1>12, <2>4, <4>4, <5>1, <5>2
      <4> QED
        BY <4>3, <4>4
    <3> QED
      BY <1>2, <1>5, <1>6, <2>4, <3>1, <3>2 DEF Course
  <2> QED
    BY <1>1, <2>3, <2>4
<1>14. handle[h].on \in {f, Nil} /\ handle'[h].on \in {f, Nil} /\ handle'[h].on # Nil
  BY <1>0, <1>2, <1>3, <1>5
<1> HIDE DEF x
<1> QED
  BY <1>2, <1>6, <1>9, <1>10, <1>13, <1>14, FileSettled

\* An update that failed marks the file.
LEMMA SettledMarked ==
  ASSUME SettledInv, OneInv', OneWriter, NEW h \in Writers, NEW f \in Entry, f = handle[h].on,
         UNCHANGED <<kind, content, acked>>,
         \A e \in Entry : e # f => size'[e] = size[e],
         NEW op, failed' = failed \cup {<<f, op>>},
         handle'[h].on = Nil, handle'[h].op = "none",
         \/ handle'[h].pc = "closed" /\ handle'[h].id = Nil
         \/ handle'[h].pc = "open" /\ handle'[h].id = f
  PROVE  SettledInv'
<1>1. ~Clean(f)'
  <2>1. PICK m : m = <<f, op>>
    OBVIOUS
  <2>2. m \in failed' /\ m[1] = f
    BY <2>1
  <2> QED
    BY <2>2 DEF Clean
<1>2. PICK y : y = handle'[h]
  OBVIOUS
<1>3. Sized(handle[h])'
  BY <1>1, <1>2 DEF Sized
<1>4. \A m : m[1] # f => (m \in failed' <=> m \in failed)
  <2>1. \A m : m[1] # f => m # <<f, op>>
    OBVIOUS
  <2> QED
    BY <2>1
<1> QED
  BY <1>1, <1>3, <1>4, FileSettled

LEMMA SettledWriteAnswered ==
  ASSUME SettledInv, OneInv', OneWriter, [HNext]_hvars, NEW h \in Handle, WriteAnswered(h)
  PROVE  SettledInv'
<1> DEFINE x == handle[h]
           z == [x EXCEPT !.pc = "sizing", !.size = x.arg]
           y == IF x.ok /\ x.arg > x.size THEN z ELSE Back(x)
<1>0. /\ OneInv /\ HBase /\ HBase' /\ HTypes /\ x \in HandleSet /\ x.path \in Path /\ Progress(x)
      /\ Role(h, x) /\ Binding(x) /\ Answer(x) /\ Nil \notin Entry
  BY Standing DEF SettledInv, OneInv
<1>1. /\ x.pc = "writing" /\ x.todo = {} /\ Set(h, y)
      /\ acked' = IF x.ok /\ ~(x.arg > x.size) THEN [acked EXCEPT ![x.on] = Write(@, x.arg, x.ver)]
                  ELSE acked
      /\ failed' = IF x.ok THEN failed ELSE failed \cup {<<x.on, "write">>}
      /\ UNCHANGED <<tree, content, writes>>
  BY DEF WriteAnswered
<1>2. /\ h \in Writers /\ handle'[h] = y
      /\ \E f \in Entry, p \in Path :
           /\ f = handle[h].on /\ p = handle[h].path /\ kind[f] = "file"
           /\ lookup(p) = f /\ lookup(p)' = f /\ acked[f] \in Bytes
           /\ \A n \in Addr : At(n, f) \in Bytes /\ Above(At(n, f), acked[f])
  BY <1>0, <1>1, Standings
<1>3. PICK f \in Entry, p \in Path :
           /\ f = handle[h].on /\ p = handle[h].path /\ kind[f] = "file"
           /\ lookup(p) = f /\ lookup(p)' = f /\ acked[f] \in Bytes
           /\ \A n \in Addr : At(n, f) \in Bytes /\ Above(At(n, f), acked[f])
  BY <1>2
<1>4. /\ x.op = "write" /\ x.id = f /\ x.arg \in 1..MaxBytes /\ x.ok \in BOOLEAN
      /\ x.ver \in Byte /\ x.size \in 0..MaxBytes
  BY <1>0, <1>1, <1>3 DEF Role, Answer, Progress, HandleSet, Byte, Binding
<1>5. UNCHANGED <<kind, size, content>> /\ \A n \in Addr : At(n, f)' = At(n, f)
  BY <1>1 DEF tree, At
<1>6. Sized(x)
  BY <1>2 DEF SettledInv
<1>7. Clean(f) => /\ x.size = size[f] /\ size[f] = Len(acked[f])
                  /\ x.ok => \A n \in Addr : At(n, f) = Write(acked[f], x.arg, x.ver)
  <2>1. HAVE Clean(f)
  <2>2. Course(x)
    BY <1>0, <1>3, <2>1 DEF SettledInv
  <2>3. \A n \in Addr : <<n, f>> \notin x.todo
    BY <1>1
  <2> QED
    BY <1>0, <1>1, <1>3, <1>4, <1>6, <2>1, <2>2, <2>3 DEF Course, Sized
<1>8. CASE ~x.ok
  <2>1. handle'[h] = Back(x) /\ acked' = acked /\ failed' = failed \cup {<<f, "write">>}
    BY <1>1, <1>2, <1>3, <1>8
  <2>2. Back(x).pc = "open" /\ Back(x).op = "none" /\ Back(x).on = Nil /\ Back(x).id = f
    BY <1>0, <1>4 DEF HandleSet, Back
  <2> HIDE DEF x
  <2> QED
    BY <1>2, <1>3, <1>5, <2>1, <2>2, SettledMarked
<1>9. CASE x.ok /\ x.arg > x.size
  <2>1. y = z /\ acked' = acked /\ failed' = failed
    BY <1>1, <1>9
  <2>2. /\ z.pc = "sizing" /\ z.op = "write" /\ z.on = f /\ z.arg = x.arg /\ z.ver = x.ver
        /\ z.size = x.arg /\ z.id = f
    BY <1>0, <1>1, <1>3, <1>4 DEF HandleSet
  <2> HIDE DEF z, y
  <2>3. Sized(handle[h])'
    BY <1>2, <2>1, <2>2 DEF Sized
  <2>4. Clean(f)' => Course(handle[h])'
    <3>1. HAVE Clean(f)'
    <3>2. Clean(f)
      BY <2>1, <3>1 DEF Clean
    <3> QED
      BY <1>2, <1>5, <1>7, <1>9, <2>1, <2>2, <3>2 DEF Course
  <2>5. handle[h].on \in {f, Nil} /\ handle'[h].on \in {f, Nil} /\ handle'[h].on # Nil
    BY <1>0, <1>2, <1>3, <2>1, <2>2
  <2> HIDE DEF x
  <2> QED
    BY <1>2, <1>5, <2>1, <2>3, <2>4, <2>5, FileSettled
<1>10. CASE x.ok /\ ~(x.arg > x.size)
  <2>1. handle'[h] = Back(x) /\ failed' = failed
    BY <1>1, <1>2, <1>10
  <2>2. /\ Back(x).pc = "open" /\ Back(x).op = "none" /\ Back(x).on = Nil /\ Back(x).id = f
        /\ Back(x).size = x.size
    BY <1>0, <1>4 DEF HandleSet, Back
  <2>3. /\ acked'[f] = Write(acked[f], x.arg, x.ver)
        /\ \A e \in Entry : e # f => acked'[e] = acked[e]
    BY <1>0, <1>1, <1>3, <1>10 DEF HTypes
  <2>4. Clean(f)' <=> Clean(f)
    BY <2>1 DEF Clean
  <2>5. Sized(handle[h])'
    BY <1>5, <1>7, <2>1, <2>2, <2>4 DEF Sized
  <2>6. Clean(f)' => Still(f)'
    <3>1. HAVE Clean(f)'
    <3>2. /\ x.size = size[f] /\ size[f] = Len(acked[f])
          /\ \A n \in Addr : At(n, f) = Write(acked[f], x.arg, x.ver)
      BY <1>7, <1>10, <2>4, <3>1
    <3>3. Len(Write(acked[f], x.arg, x.ver)) = IF x.arg < Len(acked[f]) THEN Len(acked[f]) ELSE x.arg
      <4>1. x.arg \in 0..MaxBytes
        BY <1>4, HConsts
      <4> QED
        BY <1>3, <1>4, <4>1, WriteFacts
    <3>4. Len(acked'[f]) = size'[f]
      <4>1. Len(acked[f]) \in Nat /\ x.arg \in Nat /\ x.arg <= Len(acked[f])
        BY <1>3, <1>4, <1>10, <3>2, BytesFacts, HConsts
      <4> QED
        BY <1>5, <2>3, <3>2, <3>3, <4>1
    <3> QED
      BY <1>5, <2>3, <3>2, <3>4 DEF Still
  <2>7. handle[h].on \in {f, Nil} /\ handle'[h].on = Nil
    BY <1>3, <2>1, <2>2
  <2> HIDE DEF x
  <2> QED
    BY <1>0, <1>2, <1>5, <2>1, <2>3, <2>5, <2>6, <2>7, FileSettled
<1> QED
  BY <1>4, <1>8, <1>9, <1>10

LEMMA SettledTruncateAnswered ==
  ASSUME SettledInv, OneInv', OneWriter, [HNext]_hvars, NEW h \in Handle, TruncateAnswered(h)
  PROVE  SettledInv'
<1> DEFINE x == handle[h]
           z == [x EXCEPT !.pc = "sizing"]
           y == CASE x.ok -> z
                  [] ~x.ok /\ x.op = "open" -> ClosedHandle
                  [] OTHER -> Back(x)
<1>0. /\ OneInv /\ HBase /\ HBase' /\ HTypes /\ x \in HandleSet /\ x.path \in Path /\ Progress(x)
      /\ Role(h, x) /\ Binding(x) /\ Nil \notin Entry
  BY Standing DEF SettledInv, OneInv
<1>1. /\ x.pc = "truncating" /\ x.todo = {} /\ Set(h, y)
      /\ failed' = IF x.ok THEN failed ELSE failed \cup {<<x.on, "truncate">>}
      /\ UNCHANGED <<tree, content, writes, acked>>
  BY DEF TruncateAnswered
<1>2. /\ h \in Writers /\ handle'[h] = y
      /\ \E f \in Entry, p \in Path :
           /\ f = handle[h].on /\ p = handle[h].path /\ kind[f] = "file"
           /\ lookup(p) = f /\ lookup(p)' = f /\ acked[f] \in Bytes
           /\ \A n \in Addr : At(n, f) \in Bytes /\ Above(At(n, f), acked[f])
  BY <1>0, <1>1, Standings
<1>3. PICK f \in Entry, p \in Path :
           /\ f = handle[h].on /\ p = handle[h].path /\ kind[f] = "file"
           /\ lookup(p) = f /\ lookup(p)' = f /\ acked[f] \in Bytes
           /\ \A n \in Addr : At(n, f) \in Bytes /\ Above(At(n, f), acked[f])
  BY <1>2
<1>4. /\ x.op \in {"truncate", "open"} /\ x.ok \in BOOLEAN /\ (x.op # "open" => x.id = f)
  BY <1>0, <1>1, <1>3 DEF Role, Progress, HandleSet, Binding
<1>5. UNCHANGED <<kind, size, content, acked>> /\ \A n \in Addr : At(n, f)' = At(n, f)
  BY <1>1 DEF tree, At
<1>6. Sized(x)
  BY <1>2 DEF SettledInv
<1>7. CASE ~x.ok
  <2>1. failed' = failed \cup {<<f, "truncate">>}
    BY <1>1, <1>3, <1>7
  <2>2. /\ handle'[h].on = Nil /\ handle'[h].op = "none"
        /\ \/ handle'[h].pc = "closed" /\ handle'[h].id = Nil
           \/ handle'[h].pc = "open" /\ handle'[h].id = f
    <3>1. CASE x.op = "open"
      <4>1. handle'[h] = ClosedHandle
        BY <1>2, <1>7, <3>1
      <4> QED
        BY <4>1 DEF ClosedHandle
    <3>2. CASE x.op # "open"
      <4>1. handle'[h] = Back(x)
        BY <1>2, <1>7, <3>2
      <4>2. Back(x).pc = "open" /\ Back(x).op = "none" /\ Back(x).on = Nil /\ Back(x).id = f
        BY <1>0, <1>4, <3>2 DEF HandleSet, Back
      <4> QED
        BY <4>1, <4>2
    <3> QED
      BY <3>1, <3>2
  <2> HIDE DEF x
  <2> QED
    BY <1>2, <1>3, <1>5, <2>1, <2>2, SettledMarked
<1>8. CASE x.ok
  <2>1. handle'[h] = z /\ failed' = failed
    BY <1>1, <1>2, <1>8
  <2>2. /\ z.pc = "sizing" /\ z.op = x.op /\ z.on = f /\ z.arg = x.arg /\ z.size = x.size
    BY <1>0, <1>3 DEF HandleSet
  <2> HIDE DEF z
  <2>3. Sized(handle[h])'
    BY <1>0, <1>1, <1>3, <1>4, <1>6, <2>1, <2>2 DEF Sized
  <2>4. Clean(f)' => Course(handle[h])'
    <3>1. HAVE Clean(f)'
    <3>2. Clean(f)
      BY <2>1, <3>1 DEF Clean
    <3>3. Course(x)
      BY <1>0, <1>3, <3>2 DEF SettledInv
    <3>4. \A n \in Addr : At(n, f) = Resize(acked[f], x.arg)
      BY <1>1, <1>3, <1>8, <3>3 DEF Course
    <3> QED
      BY <1>4, <1>5, <2>1, <2>2, <3>4 DEF Course
  <2>5. handle[h].on \in {f, Nil} /\ handle'[h].on \in {f, Nil} /\ handle'[h].on # Nil
    BY <1>0, <1>3, <2>1, <2>2
  <2> HIDE DEF x
  <2> QED
    BY <1>2, <1>5, <2>1, <2>3, <2>4, <2>5, FileSettled
<1> QED
  BY <1>4, <1>7, <1>8

LEMMA SettledWriteReturns ==
  ASSUME SettledInv, OneInv', OneWriter, [HNext]_hvars, NEW h \in Handle,
         NEW took \in BOOLEAN, NEW ok \in BOOLEAN, WriteReturns(h, took, ok)
  PROVE  SettledInv'
<1> DEFINE x == handle[h]
<1>0. /\ OneInv /\ HBase /\ HBase' /\ HTypes /\ x \in HandleSet /\ x.path \in Path /\ Progress(x)
      /\ Role(h, x) /\ Binding(x) /\ Answer(x) /\ Nil \notin Entry
  BY Standing DEF SettledInv, OneInv
<1>1. /\ x.pc = "sizing" /\ x.op = "write" /\ Set(h, Back(x)) /\ updateSize(h, took, ok)
      /\ acked' = [acked EXCEPT ![x.on] = Write(@, x.arg, x.ver)]
      /\ failed' = IF ok THEN failed ELSE failed \cup {<<x.on, "size">>}
      /\ UNCHANGED <<content, writes>>
  BY DEF WriteReturns, updateSize
<1>2. /\ h \in Writers /\ handle'[h] = Back(x)
      /\ \E f \in Entry, p \in Path :
           /\ f = handle[h].on /\ p = handle[h].path /\ kind[f] = "file"
           /\ lookup(p) = f /\ lookup(p)' = f /\ acked[f] \in Bytes
           /\ \A n \in Addr : At(n, f) \in Bytes /\ Above(At(n, f), acked[f])
  BY <1>0, <1>1, Standings
<1>3. PICK f \in Entry, p \in Path :
           /\ f = handle[h].on /\ p = handle[h].path /\ kind[f] = "file"
           /\ lookup(p) = f /\ lookup(p)' = f /\ acked[f] \in Bytes
           /\ \A n \in Addr : At(n, f) \in Bytes /\ Above(At(n, f), acked[f])
  BY <1>2
<1>4. x.arg \in 1..MaxBytes /\ x.id = f /\ x.ver \in Byte
  BY <1>0, <1>1, <1>3 DEF Role, Answer, Progress, HandleSet, Byte, Binding
<1>5. /\ kind' = kind /\ (ok => took)
      /\ \A e \in Entry : size'[e] = IF took /\ e = f THEN x.arg ELSE size[e]
  BY <1>0, <1>1, <1>3, SizeSent
<1>6. /\ acked'[f] = Write(acked[f], x.arg, x.ver)
      /\ \A e \in Entry : e # f => acked'[e] = acked[e]
  BY <1>0, <1>1, <1>3 DEF HTypes
<1>7. \A n \in Addr : At(n, f)' = At(n, f)
  BY <1>1 DEF At
<1>8. /\ Back(x).pc = "open" /\ Back(x).op = "none" /\ Back(x).on = Nil /\ Back(x).id = f
      /\ Back(x).size = x.size
  BY <1>0, <1>4 DEF HandleSet, Back
<1>9. Clean(f)' => ok /\ Clean(f)
  <2>1. ASSUME ~ok PROVE ~Clean(f)'
    <3>1. PICK m : m = <<f, "size">>
      OBVIOUS
    <3>2. m \in failed' /\ m[1] = f
      BY <1>1, <1>3, <2>1, <3>1
    <3> QED
      BY <3>2 DEF Clean
  <2>2. ASSUME ok, Clean(f)' PROVE Clean(f)
    BY <1>1, <2>2 DEF Clean
  <2> QED
    BY <2>1, <2>2
<1>10. x.size = x.arg
  BY <1>1, <1>2 DEF SettledInv, Sized
<1>11. Sized(handle[h])'
  BY <1>2, <1>5, <1>8, <1>9, <1>10 DEF Sized
<1>12. Clean(f)' => Still(f)'
  <2>1. HAVE Clean(f)'
  <2>2. Course(x)
    BY <1>0, <1>3, <1>9, <2>1 DEF SettledInv
  <2>3. /\ size[f] = Len(acked[f]) /\ x.arg > size[f]
        /\ \A n \in Addr : At(n, f) = Write(acked[f], x.arg, x.ver)
    BY <1>1, <1>3, <2>2 DEF Course
  <2>4. x.arg \in 0..MaxBytes /\ Len(acked[f]) \in Nat /\ x.arg \in Nat
    BY <1>3, <1>4, BytesFacts, HConsts
  <2>5. Len(Write(acked[f], x.arg, x.ver)) = IF x.arg < Len(acked[f]) THEN Len(acked[f]) ELSE x.arg
    BY <1>3, <1>4, <2>4, WriteFacts
  <2>6. Len(acked'[f]) = size'[f]
    BY <1>5, <1>6, <1>9, <2>1, <2>3, <2>4, <2>5
  <2> QED
    BY <1>6, <1>7, <2>3, <2>6 DEF Still
<1>13. handle[h].on \in {f, Nil} /\ handle'[h].on = Nil
  BY <1>2, <1>3, <1>8
<1>14. /\ \A m : m[1] # f => (m \in failed' <=> m \in failed)
       /\ \A e \in Entry : e # f => acked'[e] = acked[e] /\ size'[e] = size[e]
  BY <1>1, <1>3, <1>5, <1>6
<1> HIDE DEF x
<1> QED
  BY <1>0, <1>1, <1>2, <1>5, <1>11, <1>12, <1>13, <1>14, FileSettled

LEMMA SettledTruncateReturns ==
  ASSUME SettledInv, OneInv', OneWriter, [HNext]_hvars, NEW h \in Handle,
         NEW took \in BOOLEAN, NEW ok \in BOOLEAN, TruncateReturns(h, took, ok)
  PROVE  SettledInv'
<1> DEFINE x == handle[h]
           b == Back(x)
           y == CASE ok /\ x.op = "open" -> [b EXCEPT !.pc = "locate", !.op = "open"]
                  [] ok /\ x.op # "open" -> [b EXCEPT !.size = x.arg]
                  [] ~ok /\ x.op = "open" -> ClosedHandle
                  [] OTHER -> b
<1>0. /\ OneInv /\ HBase /\ HBase' /\ HTypes /\ x \in HandleSet /\ x.path \in Path /\ Progress(x)
      /\ Role(h, x) /\ Binding(x) /\ Answer(x) /\ Nil \notin Entry
  BY Standing DEF SettledInv, OneInv
<1>1. /\ x.pc = "sizing" /\ x.op \in {"truncate", "open"} /\ Set(h, y) /\ updateSize(h, took, ok)
      /\ acked' = IF ok THEN [acked EXCEPT ![x.on] = Resize(@, x.arg)] ELSE acked
      /\ failed' = CASE ~ok -> failed \cup {<<x.on, "truncate">>}
                     [] ok /\ x.arg = 0 -> {m \in failed : m[1] # x.on}
                     [] OTHER -> failed
      /\ UNCHANGED <<content, writes>>
  BY DEF TruncateReturns, updateSize
<1>2. /\ h \in Writers /\ handle'[h] = y
      /\ \E f \in Entry, p \in Path :
           /\ f = handle[h].on /\ p = handle[h].path /\ kind[f] = "file"
           /\ lookup(p) = f /\ lookup(p)' = f /\ acked[f] \in Bytes
           /\ \A n \in Addr : At(n, f) \in Bytes /\ Above(At(n, f), acked[f])
  BY <1>0, <1>1, Standings
<1>3. PICK f \in Entry, p \in Path :
           /\ f = handle[h].on /\ p = handle[h].path /\ kind[f] = "file"
           /\ lookup(p) = f /\ lookup(p)' = f /\ acked[f] \in Bytes
           /\ \A n \in Addr : At(n, f) \in Bytes /\ Above(At(n, f), acked[f])
  BY <1>2
<1>4. /\ x.arg \in 0..MaxBytes /\ (x.op # "open" => x.id = f) /\ (x.id # Nil => x.id = f)
      /\ \A n \in Addr : Len(At(n, f)) = x.arg
  BY <1>0, <1>1, <1>3 DEF Answer, Progress, HandleSet, Binding
<1>5. /\ kind' = kind /\ (ok => took)
      /\ \A e \in Entry : size'[e] = IF took /\ e = f THEN x.arg ELSE size[e]
  BY <1>0, <1>1, <1>3, SizeSent
<1>6. \A n \in Addr : At(n, f)' = At(n, f)
  BY <1>1 DEF At
<1>7. /\ b.pc = "open" /\ b.op = "none" /\ b.on = Nil /\ b.id = x.id /\ b.size = x.size
      /\ b.path = x.path /\ b \in HandleSet
  <2>1. b \in HandleSet
    <3>1. <<>> \in Seq(Int) /\ 0 \in Nat /\ 0 \in 0..MaxWrites
      BY HConsts
    <3> HIDE DEF x
    <3> QED
      BY <1>0, <3>1, HConsts DEF HandleSet, Back, Points, Calls
  <2> QED
    BY <1>0, <2>1 DEF HandleSet, Back
<1> HIDE DEF b
<1>8. CASE ~ok
  <2>1. failed' = failed \cup {<<f, "truncate">>} /\ acked' = acked
    BY <1>1, <1>3, <1>8
  <2>2. /\ handle'[h].on = Nil /\ handle'[h].op = "none"
        /\ \/ handle'[h].pc = "closed" /\ handle'[h].id = Nil
           \/ handle'[h].pc = "open" /\ handle'[h].id = f
    <3>1. CASE x.op = "open"
      <4>1. handle'[h] = ClosedHandle
        BY <1>2, <1>8, <3>1
      <4> QED
        BY <4>1 DEF ClosedHandle
    <3>2. CASE x.op # "open"
      <4>1. handle'[h] = b
        BY <1>2, <1>8, <3>2
      <4> QED
        BY <1>4, <1>7, <3>2, <4>1
    <3> QED
      BY <3>1, <3>2
  <2>3. UNCHANGED <<kind, content, acked>> /\ \A e \in Entry : e # f => size'[e] = size[e]
    BY <1>1, <1>5, <2>1
  <2> HIDE DEF x
  <2> QED
    BY <1>2, <1>3, <2>1, <2>2, <2>3, SettledMarked
<1>9. CASE ok
  <2>1. took /\ size'[f] = x.arg
    BY <1>5, <1>9
  <2>2. acked'[f] = Resize(acked[f], x.arg) /\ \A e \in Entry : e # f => acked'[e] = acked[e]
    BY <1>0, <1>1, <1>3, <1>9 DEF HTypes
  <2>3. Resize(acked[f], x.arg) \in Bytes /\ Len(Resize(acked[f], x.arg)) = x.arg
    BY <1>3, <1>4, ResizeFacts
  <2>4. failed' = IF x.arg = 0 THEN {m \in failed : m[1] # f} ELSE failed
    BY <1>1, <1>3, <1>9
  <2>5. Clean(f)' => Still(f)'
    <3>1. HAVE Clean(f)'
    <3>2. \A n \in Addr : At(n, f) = Resize(acked[f], x.arg)
      <4>1. CASE x.arg = 0
        <5>1. TAKE n \in Addr
        <5>2. /\ Len(At(n, f)) = Len(Resize(acked[f], x.arg))
              /\ \A i \in 1..Len(At(n, f)) : At(n, f)[i] = Resize(acked[f], x.arg)[i]
          <6>1. Len(At(n, f)) = 0
            BY <1>4, <4>1
          <6>2. \A i \in 1..Len(At(n, f)) : FALSE
            BY <6>1
          <6> QED
            BY <1>4, <2>3, <6>2
        <5> QED
          BY <1>3, <2>3, <5>2, BytesEqual
      <4>2. CASE x.arg # 0
        <5>1. Clean(f)
          BY <2>4, <3>1, <4>2 DEF Clean
        <5>2. Course(x)
          BY <1>0, <1>3, <5>1 DEF SettledInv
        <5> QED
          BY <1>1, <1>3, <5>2 DEF Course
      <4> QED
        BY <4>1, <4>2
    <3> QED
      BY <1>6, <2>1, <2>2, <2>3, <3>2 DEF Still
  <2>6. handle'[h].on = Nil /\ Sized(handle[h])'
    <3>0. Sized(x)
      BY <1>2 DEF SettledInv
    <3>1. CASE x.op = "open"
      <4> DEFINE z == [b EXCEPT !.pc = "locate", !.op = "open"]
      <4>1. handle'[h] = z
        BY <1>2, <1>9, <3>1
      <4>2. /\ z.pc = "locate" /\ z.op = "open" /\ z.on = Nil /\ z.id = x.id
            /\ z.path = p /\ z.size = x.size
        BY <1>3, <1>7 DEF HandleSet
      <4>3. x.size = 0 /\ x.arg = 0
        BY <1>0, <1>1, <1>3, <3>0, <3>1 DEF Sized
      <4> HIDE DEF z
      <4>4. lookup(p)' = f /\ size'[f] = 0
        BY <1>3, <2>1, <4>3
      <4> QED
        BY <1>4, <4>1, <4>2, <4>3, <4>4 DEF Sized
    <3>2. CASE x.op # "open"
      <4>1. handle'[h] = [b EXCEPT !.size = x.arg]
        BY <1>2, <1>9, <3>2
      <4>2. /\ handle'[h].pc = "open" /\ handle'[h].op = "none" /\ handle'[h].on = Nil
            /\ handle'[h].id = f /\ handle'[h].size = x.arg
        BY <1>4, <1>7, <3>2, <4>1 DEF HandleSet
      <4> QED
        BY <2>1, <4>2 DEF Sized
    <3> QED
      BY <3>1, <3>2
  <2>7. \A m : m[1] # f => (m \in failed' <=> m \in failed)
    BY <2>4
  <2>8. /\ \A e \in Entry : e # f => acked'[e] = acked[e] /\ size'[e] = size[e]
        /\ handle[h].on \in {f, Nil}
    BY <1>3, <1>5, <2>2
  <2> HIDE DEF x
  <2> QED
    BY <1>0, <1>1, <1>2, <1>5, <2>5, <2>6, <2>7, <2>8, FileSettled, ZenonT(60)
<1> QED
  BY <1>8, <1>9

LEMMA SettledStop ==
  ASSUME SettledInv, OneInv', OneWriter, [HNext]_hvars, NEW h \in Handle, Stop(h),
         handle[h].on # Nil
  PROVE  SettledInv'
<1> DEFINE op == IF handle[h].op = "write" THEN "write" ELSE "truncate"
<1>0. OneInv /\ HTypes
  BY DEF SettledInv, OneInv, HBase
<1>1. handle[h].on \in Entry /\ h \in Writers
  BY <1>0, FileOf
<1>2. PICK f \in Entry : f = handle[h].on
  BY <1>1
<1>3. /\ Set(h, ClosedHandle) /\ UNCHANGED <<tree, content, acked>>
      /\ failed' = failed \cup {<<f, op>>}
  BY <1>2 DEF Stop
<1>4. handle'[h] = ClosedHandle
  BY <1>0, <1>3 DEF Set, HTypes
<1>5. /\ handle'[h].on = Nil /\ handle'[h].op = "none" /\ handle'[h].pc = "closed"
      /\ handle'[h].id = Nil /\ UNCHANGED <<kind, size, content, acked>>
  BY <1>3, <1>4 DEF ClosedHandle, tree
<1> HIDE DEF op
<1> QED
  BY <1>1, <1>2, <1>3, <1>5, SettledMarked

LEMMA SettledTruncate ==
  ASSUME SettledInv, OneInv', OneWriter, NEW h \in Handle, NEW k \in 0..MaxBytes,
         handle[h].pc = "open" \/ (handle[h].pc = "located" /\ k = 0),
         h \in Writers, truncateAllReplicas(h, k)
  PROVE  SettledInv'
<1> DEFINE x == handle[h]
           o == IF x.op = "open" THEN x.op ELSE "truncate"
<1>0. /\ OneInv /\ HBase /\ IInv /\ FlatFiles /\ HTypes /\ x \in HandleSet /\ x.path \in Path
      /\ Role(h, x) /\ Binding(x) /\ Nil \notin Entry
  BY Standing DEF SettledInv
<1>1. IsFile(lookup(x.path)) /\ UNCHANGED <<tree, content, writes, failed>>
  BY DEF truncateAllReplicas
<1>2. PICK e \in Entry : e = lookup(x.path)
  BY <1>0, <1>1, FileFacts
<1>3. kind[e] = "file" /\ fileID[e] = e /\ replicas[e] = Addr \X {e}
  BY <1>0, <1>1, <1>2, FileFacts
<1> DEFINE y == [x EXCEPT !.pc = "truncating", !.arg = k, !.on = e, !.op = o, !.todo = Addr \X {e}]
<1>4. handle'[h] = y
  BY <1>2, <1>3 DEF truncateAllReplicas
<1>5. acked'[e] = Cut(acked[e], k) /\ \A d \in Entry : d # e => acked'[d] = acked[d]
  BY <1>0, <1>2, <1>3 DEF truncateAllReplicas, HTypes
<1>6. x.on = Nil /\ Sized(x)
  BY <1>0 DEF Role, SettledInv
<1>7. /\ y.pc = "truncating" /\ y.arg = k /\ y.on = e /\ y.op = o /\ y.todo = Addr \X {e}
      /\ y.id = x.id /\ y.size = x.size
  BY <1>0 DEF HandleSet
<1>8. /\ o \in {"truncate", "open"}
      /\ o = "open" => x.pc = "located" /\ k = 0 /\ x.size = 0
  BY <1>6 DEF Sized
<1> HIDE DEF y, o
<1>9. UNCHANGED <<kind, size, content, failed>> /\ \A n \in Addr : At(n, e)' = At(n, e)
  BY <1>1 DEF tree, At
<1>10. \A d \in Entry : Clean(d)' <=> Clean(d)
  BY <1>9 DEF Clean
<1>11. Sized(handle[h])'
  <2>1. x.id # Nil => x.id \in Entry /\ (Clean(x.id) => x.size = size[x.id])
    BY <1>0, <1>6 DEF Sized, HandleSet
  <2> QED
    BY <1>4, <1>7, <1>8, <1>9, <1>10, <2>1 DEF Sized
<1>12. Clean(e)' => Course(handle[h])'
  <2>1. HAVE Clean(e)'
  <2>2. Still(e)
    BY <1>3, <1>6, <1>10, <2>1, StillNow
  <2>3. \A n \in Addr : <<n, e>> \in Addr \X {e} /\ Cut(At(n, e), k) = acked'[e]
    BY <1>5, <2>2 DEF Still
  <2> QED
    BY <1>4, <1>7, <1>8, <1>9, <2>3 DEF Course
<1>13. handle[h].on \in {e, Nil} /\ handle'[h].on \in {e, Nil} /\ handle'[h].on # Nil
  BY <1>0, <1>4, <1>6, <1>7
<1> HIDE DEF x
<1> QED
  BY <1>5, <1>9, <1>11, <1>12, <1>13, FileSettled

LEMMA SettledInit == HInit => SettledInv
<1> SUFFICES ASSUME HInit PROVE SettledInv
  OBVIOUS
<1>1. OneInv
  BY OneInit
<1>2. \A h \in Handle : handle[h].on = Nil /\ Sized(handle[h])
  BY DEF HInit, ClosedHandle, Sized
<1>3. Writers \subseteq Handle /\ \A e \in Entry : kind[e] # "file"
  BY HandlesAssumption DEF HInit, Init
<1> QED
  BY <1>1, <1>2, <1>3 DEF SettledInv

LEMMA SettledNext ==
  ASSUME OneWriter, SettledInv, [HNext]_hvars
  PROVE  SettledInv'
<1>0. OneInv /\ OneInv'
  BY OneNext DEF SettledInv
<1>1. ASSUME NEW h \in Handle, OpenStep(h) PROVE SettledInv'
  <2>1. ASSUME OpenTruncate(h), truncateAllReplicas(h, 0) PROVE SettledInv'
    <3>1. handle[h].pc = "located"
      BY <2>1 DEF OpenTruncate
    <3>2. h \in Writers
      BY <1>0, <3>1, Standing DEF Role
    <3> QED
      BY <1>0, <2>1, <3>1, <3>2, SettledTruncate, HConsts
  <2>2. ASSUME OpenTruncate(h), ~truncateAllReplicas(h, 0) PROVE SettledInv'
    BY <1>0, <2>2, SettledQuiet
  <2>3. ASSUME \/ \E p \in Path, flags \in OpenFlags \cup {{}} : OpenStat(h, p, flags)
               \/ \E e \in Entry : OpenCreate(h, e)
               \/ OpenLocate(h)
        PROVE  SettledInv'
    BY <1>0, <2>3, SettledQuiet
  <2> QED
    BY <1>1, <2>1, <2>2, <2>3 DEF OpenStep
<1>2. ASSUME NEW h \in Handle, UpdateStep(h) PROVE SettledInv'
  <2>1. ASSUME NEW k \in Sizes, Truncate(h, k) PROVE SettledInv'
    <3>1. handle[h].pc = "open" /\ h \in Writers /\ truncateAllReplicas(h, k) /\ k \in 0..MaxBytes
      BY <2>1, HandlesAssumption DEF Truncate
    <3> QED
      BY <1>0, <3>1, SettledTruncate
  <2>2. ASSUME NEW i \in Offsets, WriteAt(h, i) PROVE SettledInv'
    BY <1>0, <2>2, SettledWriteAt
  <2>3. ASSUME NEW r \in Replica, NEW took \in BOOLEAN, NEW ok \in BOOLEAN,
               PartialWrite(h, r, took, ok) \/ TruncateReplica(h, r, took, ok)
        PROVE  SettledInv'
    BY <1>0, <2>3, SettledReplica
  <2>4. ASSUME WriteAnswered(h) \/ TruncateAnswered(h) PROVE SettledInv'
    BY <1>0, <2>4, SettledWriteAnswered, SettledTruncateAnswered
  <2>5. ASSUME NEW took \in BOOLEAN, NEW ok \in BOOLEAN,
               WriteReturns(h, took, ok) \/ TruncateReturns(h, took, ok)
        PROVE  SettledInv'
    BY <1>0, <2>5, SettledWriteReturns, SettledTruncateReturns
  <2> QED
    BY <1>2, <2>1, <2>2, <2>3, <2>4, <2>5 DEF UpdateStep
<1>3. ASSUME NEW h \in Handle, ReadStep(h) \/ Close(h) PROVE SettledInv'
  BY <1>0, <1>3, SettledQuiet
<1>4. ASSUME NEW h \in Handle, Stop(h) PROVE SettledInv'
  BY <1>0, <1>4, SettledQuiet, SettledStop
<1>5. ASSUME UNCHANGED <<kind, size, content, acked, failed, handle>> PROVE SettledInv'
  BY <1>0, <1>5, QuietSettled
<1>6. ASSUME NEW p \in Path, Repairs(p) PROVE SettledInv'
  BY <1>5, <1>6 DEF Repairs, applyUpdateStatus
<1>7. ASSUME NEW src \in Path, NEW dst \in Path, Rename(src, dst) PROVE SettledInv'
  BY <1>5, <1>7 DEF Rename, applyRename, data
<1>8. ASSUME UNCHANGED hvars PROVE SettledInv'
  BY <1>5, <1>8 DEF hvars, tree
<1> QED
  BY <1>1, <1>2, <1>3, <1>4, <1>6, <1>7, <1>8 DEF HNext

\* Once an update has returned and none failed since the file was last
\* emptied, every replica has the bytes, and the MDS the size, that the
\* acknowledged WriteAt and Truncate calls made: a WriteAt that returned was
\* taken by every replica, and no reader, repair or restart disturbs that.
THEOREM UpdatesSettle ==
  ASSUME OneWriter
  PROVE  HSpec => []Settled
<1>1. SettledInv /\ [HNext]_hvars => SettledInv'
  BY SettledNext
<1>2. SettledInv => Settled
  <2> SUFFICES ASSUME SettledInv, NEW e \in Reachable, IsFile(e),
                      ~Updating(fileID[e], {"write", "truncate", "open"}),
                      \A m \in failed : m[1] # fileID[e]
               PROVE  /\ size[e] = Len(acked[fileID[e]])
                      /\ \A r \in replicas[e] : BytesAt(r) = acked[fileID[e]]
    BY DEF Settled
  <2>1. OneInv /\ HBase /\ IInv /\ FlatFiles
    BY DEF SettledInv, OneInv, HBase
  <2>2. e \in Entry /\ kind[e] = "file"
    BY <2>1, ReachableAllocated DEF IsFile
  <2>3. fileID[e] = e /\ replicas[e] = Addr \X {e}
    BY <2>1, <2>2 DEF FlatFiles
  <2>4. \A h \in Handle : handle[h].on # e
    <3>1. SUFFICES ASSUME NEW h \in Handle, handle[h].on = e PROVE FALSE
      OBVIOUS
    <3>2. Role(h, handle[h]) /\ handle[h].on # Nil
      BY <2>1, <2>2, <3>1, Standing
    <3>3. handle[h].op \in {"write", "truncate", "open"}
      BY <3>2 DEF Role
    <3> QED
      BY <2>3, <3>1, <3>3 DEF Updating
  <2>5. Clean(e)
    BY <2>3 DEF Clean
  <2>6. Still(e)
    BY <2>2, <2>4, <2>5 DEF SettledInv
  <2>7. ASSUME NEW r \in replicas[e] PROVE BytesAt(r) = acked[e]
    <3>1. PICK n \in Addr : r = <<n, e>>
      BY <2>3, <2>7
    <3>2. BytesAt(r) = At(n, e)
      BY <2>1, <2>2, <3>1, AtFacts
    <3> QED
      BY <2>6, <3>2 DEF Still
  <2> QED
    BY <2>3, <2>6, <2>7 DEF Still
<1> QED
  BY <1>1, <1>2, SettledInit, PTL DEF HSpec
=============================================================================
