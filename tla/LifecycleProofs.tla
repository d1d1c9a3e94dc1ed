-------------------------- MODULE LifecycleProofs --------------------------
(***************************************************************************)
(* The bytes of files, for any number of data nodes and collectors.         *)
(*                                                                          *)
(* The orphan collector deletes nothing that is referenced, with any number  *)
(* of clients, as long as nobody overwrites and the safety window exceeds    *)
(* the clock difference and the age of a deposed server's tree together: a  *)
(* file that a collector did not see in its tree and that is in the tree    *)
(* now was created after that tree was read, since FileIDs never return     *)
(* (TreeGrowth); so its bytes were stored after that, and the window        *)
(* protects them (Young).  What is on a kill list is therefore dead when it *)
(* is listed, and stays dead.                                               *)
(*                                                                          *)
(* What the calls of clients rely on is about races on paths.  A deletion   *)
(* erases the right bytes as long as nobody renames (EInv): what stays in   *)
(* the tree stays at its path.  Uploads that race with each other, and with *)
(* cleanups of uploads that failed, complete and delete what is theirs when *)
(* nobody overwrites and no user deletes (UInv): a path that an upload has  *)
(* created leads to its file until its own cleanup is through.              *)
(***************************************************************************)
EXTENDS Lifecycle, NamespaceProofs

\* Uploads write to the file they created; only files have bytes.
StoringFile ==
  \A c \in Client :
    op[c].pc = "storing" => op[c].file \in Entry /\ kind[op[c].file] = "file"

BytesOfFiles ==
  \A n \in Addr, f \in Entry : mtime[n][f] # Absent => kind[f] = "file"

Started == \A g \in Collector : gc[g].pc # "idle" => gc[g].start <= now

\* A file in the tree that a collector did not see there was stored too late
\* to be deleted.
Young ==
  \A g \in Collector, f \in Reachable, n \in Addr :
    kind[f] = "file" /\ f \notin gc[g].valid /\ mtime[n][f] # Absent =>
      /\ gc[g].pc = "behind" => mtime[n][f] >= gc[g].start - Skew
      /\ gc[g].pc \in {"stale", "scan"} => mtime[n][f] > gc[g].start - Window

Dead ==
  \A g \in Collector : \A f \in gc[g].kill :
    kind[f] = "file" /\ f \notin Reachable

\* What every step preserves, whatever the clients and the clocks do.
LBase == IInv /\ LTypeOK /\ StoringFile

LInv ==
  /\ LBase /\ DataInv
  /\ BytesOfFiles /\ Started /\ Young /\ Dead

----------------------------------------------------------------------------

\* The MDS commands in the steps of clients are steps of Namespace.
LEMMA TreeStep ==
  ASSUME LTypeOK, [LNext]_lvars
  PROVE  [ClientNext]_vars
<1>1. ASSUME NEW c \in Client, ClientStep(c)
      PROVE  [ClientNext]_vars
  <2>1. op[c].path \in Path
    BY DEF LTypeOK
  <2>2. CASE \E p \in Path, e \in Entry : Mkdir(c, p, e)
    BY <2>2 DEF Mkdir, ClientNext
  <2>3. CASE \E src, dst \in Path : Rename(c, src, dst)
    BY <2>3 DEF Rename, ClientNext
  <2>4. CASE \E p \in Path, e \in Entry, mode \in CreateModes, sz \in Size,
                addrs \in SUBSET Addr : PutCreate(c, p, e, mode, sz, addrs)
    BY <2>4 DEF PutCreate, ClientNext
  <2>5. CASE PutComplete(c)
    BY <2>1, <2>5 DEF PutComplete, ClientNext, tree, vars
  <2>6. CASE DeleteApply(c)
    BY <2>1, <2>6 DEF DeleteApply, ClientNext, tree, vars
  <2>7. CASE UNCHANGED tree
    BY <2>7 DEF tree, vars
  <2>8. QED
    BY <1>1, <2>2, <2>3, <2>4, <2>5, <2>6, <2>7 DEF ClientStep, StoreData,
       StoreFails, PutCleanup, Delete, LookupTarget, Erase, ClientFails
<1>2. ASSUME NEW g \in Collector, CollectorStep(g)
      PROVE  [ClientNext]_vars
  BY <1>2 DEF CollectorStep, FallsBehind, runGC, Collect, ListAllPaths, SkipNode,
     DeleteOrphan, DeleteOrphanFails, EndGC, MDSFails, tree, vars
<1>3. QED
  BY <1>1, <1>2 DEF LNext, Tick, lvars, tree, vars

Ops == [pc : {"idle", "storing", "deleting", "erasing"}, path : Path,
        own : Entry \cup {Nil}, file : Entry \cup {Nil},
        todo : SUBSET Addr, stored : BOOLEAN]

Gcs == [pc : {"idle", "behind", "collect", "stale", "scan"}, start : Nat,
        valid : SUBSET Entry, queue : SUBSET Addr, at : Addr \cup {Nil}, kill : SUBSET Entry]

Disks == [Addr -> [Entry -> Int \cup {Absent}]]

\* What a client step does to its own record.
LEMMA OpStep ==
  ASSUME LBase, NEW c \in Client, ClientStep(c)
  PROVE  /\ \E o \in Ops :
              /\ op' = [op EXCEPT ![c] = o]
              /\ o.pc = "storing" =>
                   \/ op[c].pc = "storing" /\ o.file = op[c].file
                   \/ o.file \in Entry /\ kind'[o.file] = "file"
         /\ now' = now /\ gc' = gc
<1>1. op \in [Client -> Ops] /\ op[c] \in Ops /\ TypeOK /\ IInv
  BY DEF LBase, LTypeOK, Ops, IInv
<1>2. Idle \in Ops /\ Idle.pc = "idle"
  <2>1. <<>> \in Path
    BY NamespaceAssumption, SeqDef DEF Path
  <2>2. QED
    BY <2>1 DEF Idle, Ops
<1>3. CASE UNCHANGED op /\ UNCHANGED <<now, gc>>
  BY <1>1, <1>3
<1>4. CASE op' = [op EXCEPT ![c] = Idle] /\ UNCHANGED <<now, gc>>
  BY <1>2, <1>4
<1>5. ASSUME NEW p \in Path, NEW e \in Entry, NEW mode \in CreateModes,
             NEW sz \in Size, NEW addrs \in SUBSET Addr,
             PutCreate(c, p, e, mode, sz, addrs)
      PROVE  /\ \E o \in Ops : /\ op' = [op EXCEPT ![c] = o]
                               /\ o.file \in Entry /\ kind'[o.file] = "file"
             /\ UNCHANGED <<now, gc>>
  <2> DEFINE o == [pc |-> "storing", path |-> p, own |-> e,
                   file |-> e, todo |-> addrs, stored |-> FALSE]
  <2>1. o \in Ops /\ o.file = e
    BY DEF Ops
  <2>2. op' = [op EXCEPT ![c] = o] /\ UNCHANGED <<now, gc>>
    BY <1>5 DEF PutCreate
  <2>3. kind'[e] = "file"
    BY <1>1, <1>5 DEF PutCreate, applyCreateFile, TypeOK
  <2>4. QED
    BY <2>1, <2>2, <2>3
<1>6. ASSUME NEW n \in Addr, NEW ack \in BOOLEAN, op[c].pc = "storing",
             op' = [op EXCEPT ![c].todo = @ \ {n}, ![c].stored = @ \/ ack]
      PROVE  \E o \in Ops : /\ op' = [op EXCEPT ![c] = o]
                            /\ o.file = op[c].file
  <2> DEFINE o == [op[c] EXCEPT !.todo = @ \ {n}, !.stored = @ \/ ack]
  <2>1. o \in Ops /\ o.file = op[c].file
    BY <1>1 DEF Ops
  <2>2. op' = [op EXCEPT ![c] = o]
    BY <1>1, <1>6
  <2>3. QED
    BY <2>1, <2>2
<1>7. ASSUME NEW n \in Addr, op[c].pc = "storing",
             op' = [op EXCEPT ![c].todo = @ \ {n}]
      PROVE  \E o \in Ops : /\ op' = [op EXCEPT ![c] = o]
                            /\ o.file = op[c].file
  <2> DEFINE o == [op[c] EXCEPT !.todo = @ \ {n}]
  <2>1. o \in Ops /\ o.file = op[c].file
    BY <1>1 DEF Ops
  <2>2. op' = [op EXCEPT ![c] = o]
    BY <1>1, <1>7
  <2>3. QED
    BY <2>1, <2>2
<1>8. ASSUME NEW p \in Path, NEW own \in Entry \cup {Nil}, LookupTarget(c, p, own)
      PROVE  /\ \E o \in Ops : op' = [op EXCEPT ![c] = o] /\ o.pc # "storing"
             /\ UNCHANGED <<now, gc>>
  <2> DEFINE o == [pc |-> "deleting", path |-> p, own |-> own, file |-> lookup(p),
                   todo |-> {r[1] : r \in replicas[lookup(p)]}, stored |-> FALSE]
  <2>1. CASE lookup(p) = Nil
    <3>1. op' = [op EXCEPT ![c] = Idle] /\ UNCHANGED <<now, gc>>
      BY <1>8, <2>1 DEF LookupTarget
    <3>2. QED
      BY <1>2, <3>1
  <2>2. CASE lookup(p) # Nil
    <3>1. lookup(p) \in Entry
      BY <1>1, <2>2, LookupFacts DEF IInv
    <3>2. replicas[lookup(p)] \in SUBSET (Addr \X Entry)
      BY <1>1, <3>1 DEF TypeOK
    <3>3. {r[1] : r \in replicas[lookup(p)]} \in SUBSET Addr
      BY <3>2
    <3>4. o \in Ops /\ o.pc = "deleting"
      BY <3>1, <3>3 DEF Ops
    <3>5. op' = [op EXCEPT ![c] = o] /\ UNCHANGED <<now, gc>>
      BY <1>8, <2>2 DEF LookupTarget
    <3>6. QED
      BY <3>4, <3>5
  <2>3. QED
    BY <2>1, <2>2
<1>9. ASSUME DeleteApply(c)
      PROVE  /\ \E o \in Ops : op' = [op EXCEPT ![c] = o] /\ o.pc # "storing"
             /\ UNCHANGED <<now, gc>>
  <2> DEFINE o == [op[c] EXCEPT !.pc = "erasing"]
  <2>1. o \in Ops /\ o.pc = "erasing"
    BY <1>1 DEF Ops
  <2>2. op' = [op EXCEPT ![c] = Idle] \/ op' = [op EXCEPT ![c] = o]
    BY <1>1, <1>9 DEF DeleteApply
  <2>3. UNCHANGED <<now, gc>>
    BY <1>9 DEF DeleteApply
  <2>4. QED
    BY <1>2, <2>1, <2>2, <2>3
<1>10. ASSUME NEW n \in Addr, NEW erased \in BOOLEAN, Erase(c, n, erased)
       PROVE  /\ \E o \in Ops : op' = [op EXCEPT ![c] = o] /\ o.pc # "storing"
              /\ UNCHANGED <<now, gc>>
  <2> DEFINE o == [op[c] EXCEPT !.todo = @ \ {n}]
  <2>1. o \in Ops /\ o.pc = "erasing"
    BY <1>1, <1>10 DEF Ops, Erase
  <2>2. op' = [op EXCEPT ![c] = Idle] \/ op' = [op EXCEPT ![c] = o]
    BY <1>1, <1>10 DEF Erase
  <2>3. UNCHANGED <<now, gc>>
    BY <1>10 DEF Erase
  <2>4. QED
    BY <1>2, <2>1, <2>2, <2>3
<1>11. CASE \/ \E p \in Path, e \in Entry : Mkdir(c, p, e)
            \/ \E src, dst \in Path : Rename(c, src, dst)
  BY <1>3, <1>11 DEF Mkdir, Rename
<1>12. CASE PutComplete(c) \/ ClientFails(c)
  BY <1>4, <1>12 DEF PutComplete, ClientFails
<1>13. CASE \E n \in Addr, t \in (now - Skew)..(now + Skew), ack \in BOOLEAN :
              StoreData(c, n, t, ack)
  BY <1>6, <1>13 DEF StoreData
<1>14. CASE \E n \in Addr : StoreFails(c, n)
  BY <1>7, <1>14 DEF StoreFails
<1>15. CASE PutCleanup(c) \/ \E p \in Path : Delete(c, p)
  <2>1. op[c].path \in Path /\ op[c].own \in Entry \cup {Nil}
    BY <1>1 DEF Ops
  <2>2. QED
    BY <1>8, <1>15, <2>1 DEF PutCleanup, Delete
<1>16. QED
  BY <1>5, <1>9, <1>10, <1>11, <1>12, <1>13, <1>14, <1>15 DEF ClientStep

\* What a step does to the disks: bytes disappear, or an upload writes some
\* now, by the clock of the data node.
LEMMA DiskStep ==
  ASSUME LBase, [LNext]_lvars
  PROVE  /\ mtime' \in Disks
         /\ \A n \in Addr, f \in Entry :
              \/ mtime'[n][f] \in {mtime[n][f], Absent}
              \/ /\ mtime'[n][f] \in (now - Skew)..(now + Skew)
                 /\ kind[f] = "file"
                 /\ UNCHANGED <<kind, children, gc>>
<1>1. mtime \in Disks /\ now \in Nat /\ op \in [Client -> Ops] /\ gc \in [Collector -> Gcs]
  BY DEF LBase, LTypeOK, Disks, Ops, Gcs
<1>2. CASE UNCHANGED mtime
  BY <1>1, <1>2
<1>3. ASSUME NEW c \in Client, NEW n \in Addr, NEW t \in (now - Skew)..(now + Skew),
             NEW ack \in BOOLEAN, StoreData(c, n, t, ack)
      PROVE  /\ mtime' \in Disks
             /\ \A k \in Addr, f \in Entry :
                  \/ mtime'[k][f] = mtime[k][f]
                  \/ /\ mtime'[k][f] \in (now - Skew)..(now + Skew)
                     /\ kind[f] = "file"
             /\ UNCHANGED <<kind, children, gc>>
  <2>1. /\ op[c].file \in Entry /\ kind[op[c].file] = "file"
        /\ mtime' = [mtime EXCEPT ![n][op[c].file] = t]
        /\ UNCHANGED <<kind, children, gc>>
    BY <1>3 DEF StoreData, LBase, StoringFile, tree
  <2>2. t \in Int
    BY <1>1, LifecycleAssumption
  <2> DEFINE x == op[c].file
  <2> HIDE DEF x
  <2>3. mtime' = [mtime EXCEPT ![n] = [mtime[n] EXCEPT ![x] = t]] /\ x \in Entry
    BY <2>1 DEF x
  <2>4. [mtime[n] EXCEPT ![x] = t] \in [Entry -> Int \cup {Absent}]
    BY <1>1, <2>2 DEF Disks
  <2>5. mtime' \in Disks
    BY <1>1, <2>3, <2>4 DEF Disks
  <2>6. \A k \in Addr, f \in Entry :
          mtime'[k][f] = IF k = n /\ f = x THEN t ELSE mtime[k][f]
    BY <1>1, <2>3 DEF Disks
  <2>7. QED
    BY <2>1, <2>5, <2>6 DEF x
<1>4. ASSUME NEW n \in Addr, NEW f \in Entry, mtime' = [mtime EXCEPT ![n][f] = Absent]
      PROVE  /\ mtime' \in Disks
             /\ \A k \in Addr, x \in Entry : mtime'[k][x] \in {mtime[k][x], Absent}
  <2>1. mtime' = [mtime EXCEPT ![n] = [mtime[n] EXCEPT ![f] = Absent]]
    BY <1>4
  <2>2. [mtime[n] EXCEPT ![f] = Absent] \in [Entry -> Int \cup {Absent}]
    BY <1>1 DEF Disks
  <2>3. mtime' \in Disks
    BY <1>1, <2>1, <2>2 DEF Disks
  <2>4. \A k \in Addr, x \in Entry : mtime'[k][x] \in {mtime[k][x], Absent}
    BY <1>1, <2>1 DEF Disks
  <2>5. QED
    BY <2>3, <2>4
<1>5. ASSUME NEW c \in Client, NEW n \in Addr, NEW erased \in BOOLEAN,
             Erase(c, n, erased)
      PROVE  /\ mtime' \in Disks
             /\ \A k \in Addr, x \in Entry : mtime'[k][x] \in {mtime[k][x], Absent}
  <2>1. CASE op[c].file \in Entry
    BY <1>1, <1>4, <1>5, <2>1 DEF Erase
  <2>2. CASE op[c].file \notin Entry
    <3>1. mtime' = [mtime EXCEPT ![n][op[c].file] = Absent] \/ mtime' = mtime
      BY <1>5 DEF Erase
    <3>2. [mtime EXCEPT ![n][op[c].file] = Absent] = mtime
      BY <1>1, <2>2 DEF Disks
    <3>3. QED
      BY <1>1, <3>1, <3>2
  <2>3. QED
    BY <2>1, <2>2
<1>6. ASSUME NEW g \in Collector, NEW f \in Entry, DeleteOrphan(g, f)
      PROVE  /\ mtime' \in Disks
             /\ \A k \in Addr, x \in Entry : mtime'[k][x] \in {mtime[k][x], Absent}
  <2>1. mtime' = [mtime EXCEPT ![gc[g].at][f] = Absent]
    BY <1>6 DEF DeleteOrphan
  <2>2. CASE gc[g].at \in Addr
    BY <1>4, <2>1, <2>2
  <2>3. CASE gc[g].at \notin Addr
    <3>1. mtime' = mtime
      BY <1>1, <2>1, <2>3 DEF Disks
    <3>2. QED
      BY <1>1, <3>1
  <2>4. QED
    BY <2>2, <2>3
<1>7. ASSUME NEW c \in Client, ClientStep(c), mtime' # mtime
      PROVE  \/ \E n \in Addr, t \in (now - Skew)..(now + Skew), ack \in BOOLEAN :
                  StoreData(c, n, t, ack)
             \/ \E n \in Addr, erased \in BOOLEAN : Erase(c, n, erased)
  BY <1>7 DEF ClientStep, Mkdir, Rename, PutCreate, StoreFails, PutComplete,
     PutCleanup, Delete, LookupTarget, DeleteApply, ClientFails
<1>8. ASSUME NEW g \in Collector, CollectorStep(g), mtime' # mtime
      PROVE  \E f \in Entry : DeleteOrphan(g, f)
  BY <1>8 DEF CollectorStep, FallsBehind, runGC, Collect, ListAllPaths, SkipNode,
     DeleteOrphanFails, EndGC, MDSFails
<1>9. QED
  BY <1>2, <1>3, <1>5, <1>6, <1>7, <1>8 DEF LNext, Tick, lvars

\* What a step does to the record of collector g.
LEMMA GcStep ==
  ASSUME LBase, [LNext]_lvars, NEW g \in Collector
  PROVE  /\ gc' \in [Collector -> Gcs]
         /\ gc'[g].pc # "idle" =>
              \/ gc[g].pc # "idle" /\ gc'[g].start = gc[g].start
              \/ gc'[g].start = now
         /\ gc'[g].pc = "scan" =>
              /\ gc'[g].start = gc[g].start
              /\ gc[g].pc # "idle"
              /\ \/ /\ gc[g].pc \in {"stale", "scan"}
                    /\ gc'[g].valid = gc[g].valid
                 \/ /\ gc'[g].valid = collectValidFileIDs
                    /\ UNCHANGED <<kind, children>>
         /\ gc'[g].pc = "stale" =>
              /\ gc'[g].valid = gc[g].valid
              /\ \/ gc[g].pc = "stale" /\ gc'[g].start = gc[g].start
                 \/ /\ gc[g].pc = "behind" /\ gc'[g].start = now
                    /\ now <= gc[g].start + Lag
         /\ gc'[g].pc = "behind" =>
              \/ /\ gc[g].pc = "behind" /\ gc'[g].start = gc[g].start
                 /\ gc'[g].valid = gc[g].valid
              \/ /\ gc'[g].valid = collectValidFileIDs
                 /\ UNCHANGED <<kind, children>>
         /\ \/ gc'[g].kill \subseteq gc[g].kill
            \/ /\ gc[g].pc = "scan"
               /\ \E n \in Addr : gc'[g].kill = Orphans(n, gc[g].valid, gc[g].start)
               /\ UNCHANGED <<kind, children>>
         /\ now' \in Nat /\ now' >= now
<1> DEFINE Post(x) ==
             /\ x.pc # "idle" =>
                  \/ gc[g].pc # "idle" /\ x.start = gc[g].start
                  \/ x.start = now
             /\ x.pc = "scan" =>
                  /\ x.start = gc[g].start
                  /\ gc[g].pc # "idle"
                  /\ \/ /\ gc[g].pc \in {"stale", "scan"}
                        /\ x.valid = gc[g].valid
                     \/ /\ x.valid = collectValidFileIDs
                        /\ UNCHANGED <<kind, children>>
             /\ x.pc = "stale" =>
                  /\ x.valid = gc[g].valid
                  /\ \/ gc[g].pc = "stale" /\ x.start = gc[g].start
                     \/ /\ gc[g].pc = "behind" /\ x.start = now
                        /\ now <= gc[g].start + Lag
             /\ x.pc = "behind" =>
                  \/ /\ gc[g].pc = "behind" /\ x.start = gc[g].start
                     /\ x.valid = gc[g].valid
                  \/ /\ x.valid = collectValidFileIDs
                     /\ UNCHANGED <<kind, children>>
             /\ \/ x.kill \subseteq gc[g].kill
                \/ /\ gc[g].pc = "scan"
                   /\ \E n \in Addr : x.kill = Orphans(n, gc[g].valid, gc[g].start)
                   /\ UNCHANGED <<kind, children>>
<1>1. /\ gc \in [Collector -> Gcs] /\ now \in Nat /\ Post(gc[g])
      /\ \A k \in Collector : gc[k] \in Gcs
  BY DEF LBase, LTypeOK, Gcs
<1>2. CASE UNCHANGED gc /\ now' \in Nat /\ now' >= now
  BY <1>1, <1>2
<1>3. ASSUME NEW h \in Collector, CollectorStep(h)
      PROVE  now' = now /\ \E x \in Gcs : /\ gc' = [gc EXCEPT ![h] = x]
                                          /\ h = g => Post(x)
  <2>0. collectValidFileIDs \in SUBSET Entry
    <3>1. IInv
      BY DEF LBase
    <3>2. \A e \in Reachable : kind[e] = "file" => e # Root
      BY <3>1 DEF IInv, Linked
    <3>3. QED
      BY <3>1, <3>2, ReachableAllocated DEF collectValidFileIDs
  <2>1. NoGC \in Gcs /\ (h = g => Post(NoGC))
    BY DEF NoGC, Gcs
  <2>2. CASE EndGC(h) \/ MDSFails(h)
    BY <2>1, <2>2 DEF EndGC, MDSFails
  <2>3. CASE runGC(h)
    <3> DEFINE x == [gc[h] EXCEPT !.pc = IF gc[h].pc = "idle" THEN "collect" ELSE "stale",
                                  !.start = now]
    <3>1. /\ gc[h].pc \in {"idle", "behind"}
          /\ gc[h].pc # "idle" => gc[h].pc = "behind" /\ now <= gc[h].start + Lag
      BY <2>3 DEF runGC
    <3>2. x \in Gcs
      BY <1>1 DEF Gcs
    <3>3. /\ x.start = now /\ x.valid = gc[h].valid /\ x.kill = gc[h].kill
          /\ \/ x.pc = "collect"
             \/ x.pc = "stale" /\ gc[h].pc = "behind" /\ now <= gc[h].start + Lag
      BY <1>1, <3>1 DEF Gcs
    <3>4. gc' = [gc EXCEPT ![h] = x] /\ now' = now
      BY <1>1, <2>3 DEF runGC
    <3> HIDE DEF x
    <3>5. h = g => Post(x)
      BY <3>3
    <3>6. QED
      BY <3>2, <3>4, <3>5
  <2>9. CASE FallsBehind(h)
    <3> DEFINE x == [gc[h] EXCEPT !.pc = "behind", !.start = now,
                                  !.valid = collectValidFileIDs]
    <3>1. UNCHANGED <<kind, children>> /\ now' = now
      BY <2>9 DEF FallsBehind, tree
    <3>2. gc' = [gc EXCEPT ![h] = x]
      BY <1>1, <2>9 DEF FallsBehind
    <3> HIDE DEF collectValidFileIDs
    <3>3. x \in Gcs
      BY <1>1, <2>0 DEF Gcs
    <3>4. h = g => Post(x)
      BY <1>1, <3>1 DEF Gcs
    <3>5. QED
      BY <3>1, <3>2, <3>3, <3>4
  <2>4. CASE Collect(h)
    <3> DEFINE V == IF gc[h].pc = "stale" THEN gc[h].valid ELSE collectValidFileIDs
               x == [gc[h] EXCEPT !.pc = "scan", !.valid = V, !.queue = Addr]
    <3>1. V \in SUBSET Entry /\ V = (IF gc[h].pc = "stale" THEN gc[h].valid
                                     ELSE collectValidFileIDs)
      BY <1>1, <2>0 DEF Gcs
    <3>2. UNCHANGED <<kind, children>> /\ now' = now /\ gc[h].pc \in {"collect", "stale"}
      BY <2>4 DEF Collect, tree
    <3>3. gc' = [gc EXCEPT ![h] = x]
      BY <1>1, <2>4 DEF Collect
    <3> HIDE DEF collectValidFileIDs, V
    <3>4. x \in Gcs
      BY <1>1, <3>1 DEF Gcs
    <3>5. x.pc = "scan" /\ x.start = gc[h].start /\ x.valid = V /\ x.kill = gc[h].kill
      BY <1>1 DEF Gcs
    <3> HIDE DEF x
    <3>6. h = g => Post(x)
      BY <3>1, <3>2, <3>5
    <3>7. QED
      BY <3>2, <3>3, <3>4, <3>6
  <2>5. ASSUME NEW n \in Addr, ListAllPaths(h, n)
        PROVE  now' = now /\ \E x \in Gcs : /\ gc' = [gc EXCEPT ![h] = x]
                                            /\ h = g => Post(x)
    <3> DEFINE K == Orphans(n, gc[h].valid, gc[h].start)
               x == [gc[h] EXCEPT !.queue = @ \ {n}, !.at = n, !.kill = K]
    <3>1. K \in SUBSET Entry
      BY DEF Orphans
    <3>2. UNCHANGED <<kind, children>> /\ now' = now /\ gc[h].pc = "scan"
      BY <2>5 DEF ListAllPaths, tree
    <3>3. gc' = [gc EXCEPT ![h] = x]
      BY <1>1, <2>5 DEF ListAllPaths
    <3>4. h = g => K = Orphans(n, gc[g].valid, gc[g].start)
      OBVIOUS
    <3> HIDE DEF K
    <3>5. x \in Gcs
      BY <1>1, <3>1 DEF Gcs
    <3>6. h = g => Post(x)
      BY <1>1, <3>2, <3>4 DEF Gcs
    <3>7. QED
      BY <3>2, <3>3, <3>5, <3>6
  <2>6. ASSUME NEW n \in Addr, SkipNode(h, n)
        PROVE  now' = now /\ \E x \in Gcs : /\ gc' = [gc EXCEPT ![h] = x]
                                            /\ h = g => Post(x)
    <3> DEFINE x == [gc[h] EXCEPT !.queue = @ \ {n}]
    <3>1. x \in Gcs /\ (h = g => Post(x))
      BY <1>1 DEF Gcs
    <3>2. gc' = [gc EXCEPT ![h] = x] /\ now' = now
      BY <1>1, <2>6 DEF SkipNode
    <3>3. QED
      BY <3>1, <3>2
  <2>7. ASSUME NEW f \in Entry, DeleteOrphan(h, f) \/ DeleteOrphanFails(h, f)
        PROVE  now' = now /\ \E x \in Gcs : /\ gc' = [gc EXCEPT ![h] = x]
                                            /\ h = g => Post(x)
    <3> DEFINE x == [gc[h] EXCEPT !.kill = @ \ {f}]
    <3>1. x \in Gcs /\ (h = g => Post(x))
      BY <1>1 DEF Gcs
    <3>2. gc' = [gc EXCEPT ![h] = x] /\ now' = now
      BY <1>1, <2>7 DEF DeleteOrphan, DeleteOrphanFails
    <3>3. QED
      BY <3>1, <3>2
  <2>8. QED
    BY <1>3, <2>2, <2>3, <2>4, <2>5, <2>6, <2>7, <2>9 DEF CollectorStep
<1>4. ASSUME NEW h \in Collector, CollectorStep(h)
      PROVE  gc' \in [Collector -> Gcs] /\ Post(gc'[g]) /\ now' = now
  <2>1. PICK x \in Gcs : gc' = [gc EXCEPT ![h] = x] /\ (h = g => Post(x))
    BY <1>3, <1>4
  <2>2. gc' \in [Collector -> Gcs] /\ now' = now
    BY <1>1, <1>3, <1>4, <2>1
  <2>3. gc'[g] = x \/ gc'[g] = gc[g]
    BY <1>1, <2>1
  <2>4. CASE h = g
    BY <1>1, <2>1, <2>2, <2>4
  <2>5. CASE h # g
    BY <1>1, <2>1, <2>2, <2>5
  <2>6. QED
    BY <2>4, <2>5
<1>5. ASSUME NEW c \in Client, ClientStep(c)
      PROVE  UNCHANGED gc /\ now' = now
  BY <1>5, OpStep
<1>6. CASE Tick \/ UNCHANGED lvars
  BY <1>1, <1>2, <1>6 DEF Tick, lvars
<1>7. QED
  BY <1>1, <1>2, <1>4, <1>5, <1>6 DEF LNext

\* What a step does to all clients' records.
LEMMA OpsStep ==
  ASSUME LBase, [LNext]_lvars
  PROVE  /\ op' \in [Client -> Ops]
         /\ \A c \in Client :
              op'[c].pc = "storing" =>
                \/ op[c].pc = "storing" /\ op'[c].file = op[c].file
                \/ op'[c].file \in Entry /\ kind'[op'[c].file] = "file"
<1>1. op \in [Client -> Ops]
  BY DEF LBase, LTypeOK, Ops
<1>2. CASE UNCHANGED op
  BY <1>1, <1>2
<1>3. ASSUME NEW d \in Client, ClientStep(d)
      PROVE  /\ op' \in [Client -> Ops]
             /\ \A c \in Client :
                  op'[c].pc = "storing" =>
                    \/ op[c].pc = "storing" /\ op'[c].file = op[c].file
                    \/ op'[c].file \in Entry /\ kind'[op'[c].file] = "file"
  <2>1. PICK o \in Ops :
          /\ op' = [op EXCEPT ![d] = o]
          /\ o.pc = "storing" =>
               \/ op[d].pc = "storing" /\ o.file = op[d].file
               \/ o.file \in Entry /\ kind'[o.file] = "file"
    BY <1>3, OpStep
  <2>2. op' \in [Client -> Ops]
    BY <1>1, <2>1
  <2>3. ASSUME NEW c \in Client, op'[c].pc = "storing"
        PROVE  \/ op[c].pc = "storing" /\ op'[c].file = op[c].file
               \/ op'[c].file \in Entry /\ kind'[op'[c].file] = "file"
    <3>1. CASE c = d
      <4>1. op'[c] = o
        BY <1>1, <2>1, <3>1
      <4>2. QED
        BY <2>1, <2>3, <3>1, <4>1
    <3>2. CASE c # d
      <4>1. op'[c] = op[c]
        BY <1>1, <2>1, <3>2
      <4>2. QED
        BY <2>3, <4>1
    <3>3. QED
      BY <3>1, <3>2
  <2>4. QED
    BY <2>2, <2>3
<1>4. QED
  BY <1>2, <1>3 DEF LNext, CollectorStep, FallsBehind, runGC, Collect, ListAllPaths, SkipNode,
     DeleteOrphan, DeleteOrphanFails, EndGC, MDSFails, Tick, lvars

LEMMA InitLInv == LInit => LInv
<1> SUFFICES ASSUME LInit PROVE LInv
  OBVIOUS
<1>1. IInv /\ DataInv
  BY InitIInv, InitDataInv DEF LInit
<1>2. <<>> \in Path
  BY NamespaceAssumption, SeqDef DEF Path
<1>3. LTypeOK
  <2>1. now \in Nat /\ mtime \in Disks
    BY DEF LInit, Disks
  <2>2. Idle \in Ops /\ NoGC \in Gcs
    BY <1>2 DEF Idle, Ops, NoGC, Gcs
  <2>3. op \in [Client -> Ops] /\ gc \in [Collector -> Gcs]
    BY <2>2 DEF LInit
  <2>4. QED
    BY <2>1, <2>3 DEF LTypeOK, Disks, Ops, Gcs
<1>4. StoringFile /\ BytesOfFiles /\ Started /\ Young /\ Dead
  <2>1. /\ \A c \in Client : op[c].pc = "idle"
        /\ \A g \in Collector : gc[g].pc = "idle" /\ gc[g].kill = {}
        /\ \A n \in Addr, f \in Entry : mtime[n][f] = Absent
    BY DEF LInit, Idle, NoGC
  <2>2. QED
    BY <2>1 DEF StoringFile, BytesOfFiles, Started, Young, Dead
<1>5. QED
  BY <1>1, <1>3, <1>4 DEF LInv, LBase

\* Types and the tree survive every step.
LEMMA NextLBase ==
  ASSUME LBase, [LNext]_lvars
  PROVE  LBase'
<1>1. [Next]_vars /\ IInv /\ LTypeOK
  BY TreeStep DEF LBase, Next
<1>2. IInv'
  BY <1>1, NextIInv
<1>3. \A e \in Entry : kind[e] # "free" => kind'[e] = kind[e]
  BY <1>1, TreeGrowth
<1>4. mtime' \in Disks
  BY DiskStep
<1>5. /\ op' \in [Client -> Ops]
      /\ \A c \in Client :
           op'[c].pc = "storing" =>
             \/ op[c].pc = "storing" /\ op'[c].file = op[c].file
             \/ op'[c].file \in Entry /\ kind'[op'[c].file] = "file"
  BY OpsStep
<1>6. now' \in Nat /\ gc' \in [Collector -> Gcs]
  <2>1. CASE Collector = {}
    <3>1. gc' = gc
      BY <2>1, OpStep DEF LNext, Tick, lvars
    <3>2. now' \in Nat
      BY <1>1, <2>1, OpStep DEF LNext, Tick, lvars, LTypeOK
    <3>3. QED
      BY <1>1, <3>1, <3>2 DEF LTypeOK, Gcs
  <2>2. CASE Collector # {}
    BY <2>2, GcStep
  <2>3. QED
    BY <2>1, <2>2
<1>7. LTypeOK'
  BY <1>4, <1>5, <1>6 DEF LTypeOK, Disks, Ops, Gcs
<1>8. StoringFile'
  BY <1>3, <1>5 DEF LBase, StoringFile
<1>9. QED
  BY <1>2, <1>7, <1>8 DEF LBase

\* The window covers the clock difference and the age of a deposed server's
\* tree, and nobody overwrites.
LEMMA NextLInv ==
  ASSUME NoOverwrite, Lag + Skew < Window, LInv, [LNext]_lvars
  PROVE  LInv'
<1>a. LBase /\ IInv /\ LTypeOK /\ StoringFile
  BY DEF LInv, LBase
<1> USE <1>a
<1>1. [ClientNext]_vars /\ [Next]_vars /\ IInv /\ DataInv /\ LTypeOK
  BY TreeStep DEF LInv, Next
<1>2. LBase' /\ IInv' /\ DataInv' /\ LTypeOK'
  BY <1>1, NextLBase, NextDataInv DEF LBase
<1>3. /\ \A e \in Reachable' : e \in Reachable \/ kind[e] = "free"
      /\ \A e \in Entry : kind[e] # "free" => kind'[e] = kind[e]
  BY <1>1, TreeGrowth
<1>4. /\ mtime' \in Disks
      /\ \A n \in Addr, f \in Entry :
           \/ mtime'[n][f] \in {mtime[n][f], Absent}
           \/ /\ mtime'[n][f] \in (now - Skew)..(now + Skew)
              /\ kind[f] = "file"
              /\ UNCHANGED <<kind, children, gc>>
  BY DiskStep
<1>5. BytesOfFiles'
  <2> SUFFICES ASSUME NEW n \in Addr, NEW f \in Entry, mtime'[n][f] # Absent
               PROVE  kind'[f] = "file"
    BY DEF BytesOfFiles
  <2>1. kind[f] = "file"
    BY <1>4 DEF LInv, BytesOfFiles
  <2>2. QED
    BY <1>3, <2>1
<1>6. Started'
  <2> SUFFICES ASSUME NEW g \in Collector, gc'[g].pc # "idle"
               PROVE  gc'[g].start <= now'
    BY DEF Started
  <2>1. gc[g] \in Gcs /\ now \in Nat
    BY <1>1 DEF LTypeOK, Gcs
  <2>2. /\ \/ gc[g].pc # "idle" /\ gc'[g].start = gc[g].start
           \/ gc'[g].start = now
        /\ now' \in Nat /\ now' >= now
    BY GcStep
  <2>3. gc[g].pc # "idle" => gc[g].start <= now
    BY DEF LInv, Started
  <2>4. gc[g].start \in Nat
    BY <2>1 DEF Gcs
  <2>5. QED
    BY <2>1, <2>2, <2>3, <2>4
<1>7. Young'
  <2> SUFFICES ASSUME NEW g \in Collector, NEW f \in Reachable', NEW n \in Addr,
                      kind'[f] = "file", f \notin gc'[g].valid, mtime'[n][f] # Absent
               PROVE  /\ gc'[g].pc = "behind" => mtime'[n][f] >= gc'[g].start - Skew
                      /\ gc'[g].pc \in {"stale", "scan"} =>
                           mtime'[n][f] > gc'[g].start - Window
    BY DEF Young
  <2>1. f \in Entry
    BY DEF Reachable
  <2>2. gc[g] \in Gcs /\ now \in Nat /\ gc'[g] \in Gcs
    BY <1>1, <1>2 DEF LTypeOK, Gcs
  <2>3. gc[g].pc # "idle" => gc[g].start <= now
    BY DEF LInv, Started
  <2>4. CASE mtime'[n][f] \in (now - Skew)..(now + Skew) /\ UNCHANGED gc
    <3>1. gc'[g] = gc[g] /\ gc[g].start \in Nat
      BY <2>2, <2>4 DEF Gcs
    <3>2. QED
      BY <2>2, <2>3, <2>4, <3>1, LifecycleAssumption
  <2>5. CASE mtime'[n][f] = mtime[n][f]
    <3>1. kind[f] = "file"
      BY <2>1, <2>5 DEF LInv, BytesOfFiles
    <3>2. f \in Reachable
      BY <1>3, <3>1
    <3>3. gc'[g].valid # collectValidFileIDs
      <4>1. f # Root
        BY <1>1, <3>1 DEF IInv, Linked
      <4>2. fileID[f] = f
        BY <1>1, <2>1, <3>1, <4>1 DEF DataInv
      <4>3. f \in collectValidFileIDs
        BY <3>1, <3>2, <4>2 DEF collectValidFileIDs
      <4>4. QED
        BY <4>3
    <3>4. f \notin gc[g].valid =>
            /\ gc[g].pc = "behind" => mtime[n][f] >= gc[g].start - Skew
            /\ gc[g].pc \in {"stale", "scan"} => mtime[n][f] > gc[g].start - Window
      BY <2>5, <3>1, <3>2 DEF LInv, Young
    <3>5. mtime[n][f] \in Int /\ gc[g].start \in Nat
      BY <1>1, <2>1, <2>2, <2>5 DEF LTypeOK, Gcs
    <3>6. CASE gc'[g].pc = "scan"
      <4>1. /\ gc'[g].start = gc[g].start /\ gc'[g].valid = gc[g].valid
            /\ gc[g].pc \in {"stale", "scan"}
        BY <3>3, <3>6, GcStep
      <4>2. QED
        BY <2>5, <3>4, <3>6, <4>1
    <3>7. CASE gc'[g].pc = "stale"
      <4>1. /\ gc'[g].valid = gc[g].valid
            /\ \/ gc[g].pc = "stale" /\ gc'[g].start = gc[g].start
               \/ /\ gc[g].pc = "behind" /\ gc'[g].start = now
                  /\ now <= gc[g].start + Lag
        BY <3>7, GcStep
      <4>2. mtime[n][f] > gc'[g].start - Window
        BY <2>2, <3>4, <3>5, <4>1, LifecycleAssumption
      <4>3. QED
        BY <2>5, <3>7, <4>2
    <3>8. CASE gc'[g].pc = "behind"
      <4>1. /\ gc'[g].start = gc[g].start /\ gc'[g].valid = gc[g].valid
            /\ gc[g].pc = "behind"
        BY <3>3, <3>8, GcStep
      <4>2. QED
        BY <2>5, <3>4, <3>8, <4>1
    <3>9. QED
      BY <3>6, <3>7, <3>8
  <2>6. QED
    BY <1>4, <2>1, <2>4, <2>5
<1>8. Dead'
  <2> SUFFICES ASSUME NEW g \in Collector, NEW f \in gc'[g].kill
               PROVE  kind'[f] = "file" /\ f \notin Reachable'
    BY DEF Dead
  <2>1. gc'[g] \in Gcs /\ gc[g] \in Gcs
    BY <1>1, <1>2 DEF LTypeOK, Gcs
  <2>2. f \in Entry
    BY <2>1 DEF Gcs
  <2>3. kind[f] = "file" /\ f \notin Reachable
    <3>1. CASE gc'[g].kill \subseteq gc[g].kill
      BY <3>1 DEF LInv, Dead
    <3>2. CASE /\ gc[g].pc = "scan"
               /\ \E n \in Addr : gc'[g].kill = Orphans(n, gc[g].valid, gc[g].start)
      <4>1. PICK n \in Addr : gc'[g].kill = Orphans(n, gc[g].valid, gc[g].start)
        BY <3>2
      <4>2. /\ mtime[n][f] # Absent /\ f \notin gc[g].valid
            /\ mtime[n][f] <= gc[g].start - Window
        BY <4>1 DEF Orphans
      <4>3. mtime[n][f] \in Int /\ gc[g].start \in Nat
        BY <1>1, <2>1, <2>2, <4>2 DEF LTypeOK, Gcs
      <4>4. kind[f] = "file"
        BY <2>2, <4>2 DEF LInv, BytesOfFiles
      <4>5. ~(mtime[n][f] > gc[g].start - Window)
        BY <4>2, <4>3, LifecycleAssumption
      <4>6. f \notin Reachable
        BY <3>2, <4>2, <4>4, <4>5 DEF LInv, Young
      <4>7. QED
        BY <4>4, <4>6
    <3>3. QED
      BY <3>1, <3>2, GcStep
  <2>4. QED
    BY <1>3, <2>2, <2>3
<1>9. QED
  BY <1>2, <1>5, <1>6, <1>7, <1>8 DEF LInv

----------------------------------------------------------------------------

\* Clients, collectors and data nodes keep their types, with any number of
\* each and any safety window.
THEOREM LifecycleTypeCorrect == LSpec => []LTypeOK
<1>1. LInit => LBase
  BY InitLInv DEF LInv
<1>2. LBase /\ [LNext]_lvars => LBase'
  BY NextLBase
<1>3. LBase => LTypeOK
  BY DEF LBase
<1>4. QED
  BY <1>1, <1>2, <1>3, PTL DEF LSpec

\* runGC never puts a referenced file on its list of deletions, and what is
\* on the list is still unreferenced when DeleteData is called, whatever
\* clients upload, rename and delete in the meantime.  The safety window must
\* exceed the clock difference and the age of the tree of a server that takes
\* itself for the leader, together, and no client may overwrite.
THEOREM CollectorSafe ==
  ASSUME NoOverwrite, Lag + Skew < Window
  PROVE  LSpec => []KillListDead
<1>1. LInit => LInv
  BY InitLInv
<1>2. LInv /\ [LNext]_lvars => LInv'
  BY NextLInv
<1>3. LInv => KillListDead
  <2> SUFFICES ASSUME LInv, NEW g \in Collector, NEW e \in Reachable,
                      NEW r \in replicas[e]
               PROVE  r[2] \notin gc[g].kill
    BY DEF KillListDead, Referenced
  <2>1. e \in Entry
    BY DEF Reachable
  <2>2. r[2] = e
    BY <2>1 DEF LInv, DataInv
  <2>3. QED
    BY <2>2 DEF LInv, Dead
<1>4. QED
  BY <1>1, <1>2, <1>3, PTL DEF LSpec

----------------------------------------------------------------------------
(* What Client.Delete erases.                                               *)

\* Only files have replicas, and a replica lies at the path of the ID that
\* was drawn with its list.
Placed == \A e \in Entry : \A r \in replicas[e] : r[2] = e

\* A deletion is about what its path leads to, for as long as that is in the
\* tree; what it removed does not come back.
CallSafe(c) ==
  /\ op[c].pc = "deleting" =>
       /\ op[c].file \in Entry /\ kind[op[c].file] # "free" /\ Len(op[c].path) > 0
       /\ op[c].file \in Reachable => Leads(children, op[c].path, op[c].file)
  /\ op[c].pc = "erasing" =>
       op[c].file \in Entry \ Reachable /\ kind[op[c].file] # "free"

EInv == LBase /\ Placed /\ \A c \in Client : CallSafe(c)

\* Without renames, a step leaves the links alone, or drops one, or gives one
\* to a new entry.
LEMMA LinkStep ==
  ASSUME LBase, "Rename" \notin Calls, [LNext]_lvars
  PROVE  \/ children' = children
         \/ \E P \in Entry, l \in Name, x \in Entry \cup {Nil} :
              /\ x # Nil => kind[x] = "free"
              /\ children' = [children EXCEPT ![P][l] = x]
<1>1. TypeOK
  BY DEF LBase, IInv
<1>2. ASSUME NEW c \in Client, NEW p \in Path, NEW e \in Entry, Mkdir(c, p, e)
      PROVE  \E P \in Entry, l \in Name, x \in Entry \cup {Nil} :
               /\ x # Nil => kind[x] = "free"
               /\ children' = [children EXCEPT ![P][l] = x]
  <2>1. Parent(p) \in Entry /\ Last(p) \in Name
    BY <1>1, <1>2, ParentFacts DEF Mkdir, applyMkdir
  <2> QED
    BY <1>2, <2>1 DEF Mkdir, applyMkdir, Fresh
<1>3. ASSUME NEW c \in Client, NEW p \in Path, NEW e \in Entry, NEW mode \in CreateModes,
             NEW sz \in Size, NEW addrs \in SUBSET Addr, PutCreate(c, p, e, mode, sz, addrs)
      PROVE  \E P \in Entry, l \in Name, x \in Entry \cup {Nil} :
               /\ x # Nil => kind[x] = "free"
               /\ children' = [children EXCEPT ![P][l] = x]
  <2>1. Parent(p) \in Entry /\ Last(p) \in Name
    BY <1>1, <1>3, ParentFacts DEF PutCreate, applyCreateFile
  <2> QED
    BY <1>3, <2>1 DEF PutCreate, applyCreateFile, Fresh
<1>4. ASSUME NEW c \in Client, DeleteApply(c), children' # children
      PROVE  \E P \in Entry, l \in Name :
               children' = [children EXCEPT ![P][l] = Nil]
  <2>1. PICK p \in Path : p = op[c].path
    BY DEF LBase, LTypeOK
  <2>2. applyDelete(op[c].path)
    <3>1. ~UNCHANGED tree
      BY <1>4 DEF tree
    <3> QED
      BY <1>4, <3>1 DEF DeleteApply
  <2>3. Parent(p) \in Entry /\ Last(p) \in Name
    <3>1. lookup(p) # Nil
      BY <2>1, <2>2 DEF applyDelete
    <3>2. ParentFound(p)
      BY <3>1 DEF lookup
    <3> QED
      BY <1>1, <3>2, ParentFacts
  <2>4. children' = [children EXCEPT ![Parent(p)][Last(p)] = Nil]
    BY <2>1, <2>2 DEF applyDelete
  <2> QED
    BY <2>3, <2>4
<1>5. ASSUME NEW c \in Client, ClientStep(c), children' # children
      PROVE  \E P \in Entry, l \in Name, x \in Entry \cup {Nil} :
               /\ x # Nil => kind[x] = "free"
               /\ children' = [children EXCEPT ![P][l] = x]
  <2>1. CASE DeleteApply(c)
    <3>1. Nil # Nil => kind[Nil] = "free"
      OBVIOUS
    <3> QED
      BY <1>4, <1>5, <2>1, <3>1
  <2> QED
    BY <1>2, <1>3, <1>5, <2>1 DEF ClientStep, Rename, StoreData, StoreFails, PutComplete,
       PutCleanup, Delete, LookupTarget, Erase, ClientFails, applyCompleteFile, tree
<1>6. ASSUME NEW g \in Collector, CollectorStep(g) PROVE children' = children
  BY <1>6 DEF CollectorStep, FallsBehind, runGC, Collect, ListAllPaths, SkipNode,
     DeleteOrphan, DeleteOrphanFails, EndGC, MDSFails, tree
<1> QED
  BY <1>5, <1>6 DEF LNext, Tick, lvars, tree

\* So what is still in the tree is where it was.
LEMMA StayLinked ==
  ASSUME LBase, "Rename" \notin Calls, [LNext]_lvars, NEW p \in Path,
         NEW f \in Reachable', kind[f] # "free", Leads(children, p, f)
  PROVE  Leads(children', p, f)
<1>1. CASE children' = children
  BY <1>1
<1>2. ASSUME NEW P \in Entry, NEW l \in Name, NEW x \in Entry \cup {Nil},
             x # Nil => kind[x] = "free", children' = [children EXCEPT ![P][l] = x]
      PROVE  Leads(children', p, f)
  <2>1. IInv /\ Linked
    BY DEF LBase, IInv
  <2>2. \A d \in Entry, n \in Name : children[d][n] = x => x = Nil
    BY <1>2, <2>1 DEF Linked
  <2>3. f # x
    BY <1>2, NamespaceAssumption DEF Reachable
  <2> QED
    BY <1>2, <2>1, <2>2, <2>3, LeadsStay
<1> QED
  BY <1>1, <1>2, LinkStep

\* A step is of one call.
LEMMA OneCall ==
  ASSUME LBase, [LNext]_lvars, NEW c \in Client, ~ClientStep(c)
  PROVE  op'[c] = op[c]
<1>1. op \in [Client -> Ops]
  BY DEF LBase, LTypeOK, Ops
<1>2. ASSUME NEW d \in Client, ClientStep(d) PROVE op'[c] = op[c]
  <2>1. PICK o \in Ops : op' = [op EXCEPT ![d] = o]
    BY <1>2, OpStep
  <2>2. c # d
    BY <1>2
  <2> QED
    BY <1>1, <2>1, <2>2
<1> QED
  BY <1>2 DEF LNext, CollectorStep, FallsBehind, runGC, Collect, ListAllPaths, SkipNode,
     DeleteOrphan, DeleteOrphanFails, EndGC, MDSFails, Tick, lvars

\* What a step does to the tree, as far as calls care.
LEMMA Growth ==
  ASSUME LBase, [LNext]_lvars
  PROVE  /\ \A e \in Reachable' : e \in Reachable \/ kind[e] = "free"
         /\ \A e \in Entry : kind[e] # "free" => kind'[e] = kind[e]
<1>1. [Next]_vars /\ IInv
  BY TreeStep DEF LBase, Next
<1> QED
  BY <1>1, TreeGrowth

\* Lists of replicas are written when their file is created.
LEMMA ReplicasStay ==
  ASSUME LBase, [LNext]_lvars, NEW e \in Entry, kind[e] # "free"
  PROVE  replicas'[e] = replicas[e]
<1>1. TypeOK
  BY DEF LBase, IInv
<1>2. CASE UNCHANGED replicas
  BY <1>2
<1>3. ASSUME NEW c \in Client, NEW p \in Path, NEW x \in Entry, NEW mode \in CreateModes,
             NEW sz \in Size, NEW addrs \in SUBSET Addr, PutCreate(c, p, x, mode, sz, addrs)
      PROVE  replicas'[e] = replicas[e]
  <2>1. x # e /\ replicas' = [replicas EXCEPT ![x] = addrs \X {x}]
    BY <1>3 DEF PutCreate, applyCreateFile, Fresh
  <2> QED
    BY <1>1, <2>1 DEF TypeOK
<1>4. ASSUME NEW c \in Client, ClientStep(c) PROVE replicas'[e] = replicas[e]
  BY <1>2, <1>3, <1>4 DEF ClientStep, Mkdir, Rename, StoreData, StoreFails, PutComplete,
     PutCleanup, Delete, LookupTarget, DeleteApply, Erase, ClientFails, applyMkdir,
     applyRename, applyCompleteFile, applyDelete, tree, data
<1>5. ASSUME NEW g \in Collector, CollectorStep(g) PROVE replicas'[e] = replicas[e]
  BY <1>2, <1>5 DEF CollectorStep, FallsBehind, runGC, Collect, ListAllPaths, SkipNode,
     DeleteOrphan, DeleteOrphanFails, EndGC, MDSFails, tree
<1> QED
  BY <1>2, <1>4, <1>5 DEF LNext, Tick, lvars, tree

LEMMA NextPlaced ==
  ASSUME LBase, Placed, [LNext]_lvars
  PROVE  Placed'
<1>1. TypeOK
  BY DEF LBase, IInv
<1>2. CASE UNCHANGED replicas
  BY <1>2 DEF Placed
<1>3. ASSUME NEW c \in Client, NEW p \in Path, NEW x \in Entry, NEW mode \in CreateModes,
             NEW sz \in Size, NEW addrs \in SUBSET Addr, PutCreate(c, p, x, mode, sz, addrs)
      PROVE  Placed'
  <2>1. replicas' = [replicas EXCEPT ![x] = addrs \X {x}]
    BY <1>3 DEF PutCreate, applyCreateFile
  <2>2. ASSUME NEW e \in Entry, NEW r \in replicas'[e] PROVE r[2] = e
    <3>1. CASE e = x
      BY <1>1, <2>1, <2>2, <3>1 DEF TypeOK
    <3>2. CASE e # x
      BY <1>1, <2>1, <2>2, <3>2 DEF TypeOK, Placed
    <3> QED
      BY <3>1, <3>2
  <2> QED
    BY <2>2 DEF Placed
<1>4. ASSUME NEW c \in Client, ClientStep(c) PROVE Placed'
  BY <1>2, <1>3, <1>4 DEF ClientStep, Mkdir, Rename, StoreData, StoreFails, PutComplete,
     PutCleanup, Delete, LookupTarget, DeleteApply, Erase, ClientFails, applyMkdir,
     applyRename, applyCompleteFile, applyDelete, tree, data
<1>5. ASSUME NEW g \in Collector, CollectorStep(g) PROVE Placed'
  BY <1>2, <1>5 DEF CollectorStep, FallsBehind, runGC, Collect, ListAllPaths, SkipNode,
     DeleteOrphan, DeleteOrphanFails, EndGC, MDSFails, tree
<1> QED
  BY <1>2, <1>4, <1>5 DEF LNext, Tick, lvars, tree
\* A call keeps what it knows while others take steps.
LEMMA CallStays ==
  ASSUME EInv, "Rename" \notin Calls, [LNext]_lvars, NEW c \in Client, op'[c] = op[c]
  PROVE  CallSafe(c)'
<1>1. CallSafe(c) /\ LBase
  BY DEF EInv
<1>2. PICK p \in Path : p = op[c].path
  BY <1>1 DEF LBase, LTypeOK
<1>3. ASSUME op[c].pc = "deleting", op[c].file \in Reachable'
      PROVE  Leads(children', p, op[c].file)
  <2>1. kind[op[c].file] # "free" /\ op[c].file \in Reachable
    BY <1>1, <1>3, Growth DEF CallSafe
  <2>2. Leads(children, p, op[c].file)
    BY <1>1, <1>2, <1>3, <2>1 DEF CallSafe
  <2> QED
    BY <1>1, <1>3, <2>1, <2>2, StayLinked
<1>4. ASSUME op[c].pc \in {"deleting", "erasing"}
      PROVE  op[c].file \in Entry /\ kind'[op[c].file] # "free"
  BY <1>1, <1>4, Growth DEF CallSafe
<1>5. ASSUME op[c].pc = "erasing"
      PROVE  op[c].file \notin Reachable'
  BY <1>1, <1>5, Growth DEF CallSafe
<1> QED
  BY <1>1, <1>2, <1>3, <1>4, <1>5 DEF CallSafe

\* What the MDS removes for a deletion is what it looked up, or that had gone.
LEMMA RemovesTarget ==
  ASSUME EInv, [LNext]_lvars, NEW c \in Client, op[c].pc = "deleting", applyDelete(op[c].path)
  PROVE  op[c].file \in Entry \ Reachable' /\ kind'[op[c].file] # "free"
<1>1. CallSafe(c) /\ LBase /\ IInv /\ TypeOK /\ Linked
  BY DEF EInv, LBase, IInv
<1>2. PICK p \in Path : p = op[c].path
  BY <1>1 DEF LBase, LTypeOK
<1>3. PICK f \in Entry : f = op[c].file
  BY <1>1 DEF CallSafe
<1>4. kind[f] # "free" /\ kind'[f] # "free"
  BY <1>1, <1>3, Growth DEF CallSafe
<1>5. ASSUME f \in Reachable' PROVE FALSE
  <2>1. Leads(children, p, f) /\ Len(p) > 0
    BY <1>1, <1>2, <1>3, <1>4, <1>5, Growth DEF CallSafe
  <2>2. lookup(p) = f
    BY <1>1, <2>1, LeadsLookup
  <2> QED
    BY <1>1, <1>2, <1>5, <2>2, DeleteUnlinks
<1> QED
  BY <1>3, <1>4, <1>5

\* The steps of the call itself.
LEMMA CallSteps ==
  ASSUME EInv, "Rename" \notin Calls, NEW c \in Client, ClientStep(c)
  PROVE  CallSafe(c)'
<1>1. /\ LBase /\ CallSafe(c) /\ TypeOK /\ Linked /\ [LNext]_lvars
      /\ op \in [Client -> Ops] /\ op[c] \in Ops
  BY DEF EInv, LBase, IInv, LTypeOK, Ops, LNext
<1>2. CASE op'[c] = op[c]
  BY <1>1, <1>2, CallStays
<1>3. CASE op'[c].pc \notin {"deleting", "erasing"}
  BY <1>3 DEF CallSafe
<1>4. Idle.pc = "idle"
  BY DEF Idle
<1>5. CASE \/ \E p \in Path, e \in Entry : Mkdir(c, p, e)
           \/ \E src, dst \in Path : Rename(c, src, dst)
  BY <1>2, <1>5 DEF Mkdir, Rename
<1>6. CASE \E p \in Path, e \in Entry, mode \in CreateModes, sz \in Size,
              addrs \in SUBSET Addr : PutCreate(c, p, e, mode, sz, addrs)
  BY <1>1, <1>3, <1>6 DEF PutCreate
<1>7. CASE \/ \E n \in Addr, t \in (now - Skew)..(now + Skew), ack \in BOOLEAN :
                StoreData(c, n, t, ack)
           \/ \E n \in Addr : StoreFails(c, n)
  <2>1. op[c].pc = "storing"
    BY <1>7 DEF StoreData, StoreFails
  <2>2. ASSUME NEW n \in Addr, NEW t, NEW ack \in BOOLEAN, StoreData(c, n, t, ack)
        PROVE  op'[c].pc = op[c].pc
    BY <1>1, <2>2 DEF StoreData, Ops
  <2>3. ASSUME NEW n \in Addr, StoreFails(c, n)
        PROVE  op'[c].pc = op[c].pc
    BY <1>1, <2>3 DEF StoreFails, Ops
  <2> QED
    BY <1>3, <1>7, <2>1, <2>2, <2>3
<1>8. CASE PutComplete(c) \/ ClientFails(c)
  BY <1>1, <1>3, <1>4, <1>8 DEF PutComplete, ClientFails
<1>9. ASSUME NEW p \in Path, NEW own, LookupTarget(c, p, own)
      PROVE  CallSafe(c)'
  <2>1. CASE lookup(p) = Nil
    BY <1>1, <1>3, <1>4, <1>9, <2>1 DEF LookupTarget
  <2>2. CASE lookup(p) # Nil
    <3>1. /\ op'[c].pc = "deleting" /\ op'[c].path = p /\ op'[c].file = lookup(p)
          /\ kind' = kind /\ children' = children
      BY <1>1, <1>9, <2>2 DEF LookupTarget, tree
    <3>2. Leads(children, p, lookup(p))
      BY <1>1, <2>2, LookupLeads
    <3>3. /\ ParentFound(p) /\ lookup(p) \in Entry /\ Parent(p) \in Entry /\ Last(p) \in Name
          /\ lookup(p) = children[Parent(p)][Last(p)]
      BY <1>1, <2>2, LookupFacts, ParentFacts
    <3>4. kind[lookup(p)] # "free"
      BY <1>1, <2>2, <3>3 DEF Linked
    <3>5. Len(p) > 0
      BY <3>3 DEF ParentFound, IsWalk
    <3> QED
      BY <3>1, <3>2, <3>3, <3>4, <3>5 DEF CallSafe
  <2> QED
    BY <2>1, <2>2
<1>10. CASE PutCleanup(c) \/ \E p \in Path : Delete(c, p)
  <2>1. op[c].path \in Path
    BY <1>1 DEF Ops
  <2> QED
    BY <1>9, <1>10, <2>1 DEF PutCleanup, Delete
<1>11. CASE DeleteApply(c)
  <2>1. CASE op'[c] = Idle
    BY <1>3, <1>4, <2>1
  <2>2. CASE op'[c] # Idle
    <3>1. op[c].pc = "deleting" /\ applyDelete(op[c].path)
      BY <1>1, <1>11, <2>2 DEF DeleteApply
    <3>2. op'[c].pc = "erasing" /\ op'[c].file = op[c].file
      BY <1>1, <1>11, <2>2 DEF DeleteApply, Ops
    <3> QED
      BY <1>1, <3>1, <3>2, RemovesTarget DEF CallSafe
  <2> QED
    BY <2>1, <2>2
<1>12. CASE \E n \in Addr, erased \in BOOLEAN : Erase(c, n, erased)
  <2>1. CASE op'[c] = Idle
    BY <1>3, <1>4, <2>1
  <2>2. CASE op'[c] # Idle
    <3>1. /\ op[c].pc = "erasing" /\ op'[c].pc = "erasing" /\ op'[c].file = op[c].file
          /\ op[c].file \in Entry \ Reachable /\ kind[op[c].file] # "free"
      BY <1>1, <1>12, <2>2 DEF Erase, Ops, CallSafe
    <3>2. op[c].file \notin Reachable' /\ kind'[op[c].file] # "free"
      BY <1>1, <3>1, Growth
    <3> QED
      BY <3>1, <3>2 DEF CallSafe
  <2> QED
    BY <2>1, <2>2
<1> QED
  BY <1>5, <1>6, <1>7, <1>8, <1>10, <1>11, <1>12 DEF ClientStep

LEMMA InitEInv == LInit => EInv
<1> SUFFICES ASSUME LInit PROVE EInv
  OBVIOUS
<1>1. \A c \in Client : op[c].pc = "idle"
  BY DEF LInit, Idle
<1>2. Placed
  BY DEF LInit, Init, Placed
<1> QED
  BY <1>1, <1>2, InitLInv DEF EInv, LInv, CallSafe

LEMMA NextEInv ==
  ASSUME EInv, "Rename" \notin Calls, [LNext]_lvars
  PROVE  EInv'
<1>1. LBase' /\ Placed'
  BY NextLBase, NextPlaced DEF EInv
<1>2. ASSUME NEW c \in Client PROVE CallSafe(c)'
  <2>1. CASE ClientStep(c)
    BY <2>1, CallSteps
  <2>2. CASE ~ClientStep(c)
    BY <2>2, OneCall, CallStays DEF EInv
  <2> QED
    BY <2>1, <2>2
<1> QED
  BY <1>1, <1>2 DEF EInv

----------------------------------------------------------------------------

\* Client.Delete erases no bytes that a file of the tree points to, though
\* other calls create, overwrite and delete at its path between the lookup of
\* MDS.Delete and its command, with any number of calls, collectors and
\* nodes, and no assumption on clocks: as long as no user renames.
THEOREM EraseSafe ==
  ASSUME "Rename" \notin Calls
  PROVE  LSpec => []EraseListDead
<1>1. LInit => EInv
  BY InitEInv
<1>2. EInv /\ [LNext]_lvars => EInv'
  BY NextEInv
<1>3. EInv => EraseListDead
  <2> SUFFICES ASSUME EInv, NEW d \in Client, op[d].pc = "erasing",
                      NEW e \in Reachable, NEW r \in replicas[e]
               PROVE  r[2] # op[d].file
    BY DEF EraseListDead, Referenced
  <2>1. e \in Entry
    BY DEF Reachable
  <2>2. r[2] = e
    BY <2>1 DEF EInv, Placed
  <2> QED
    BY <2>2 DEF EInv, CallSafe
<1> QED
  BY <1>1, <1>2, <1>3, PTL DEF LSpec

----------------------------------------------------------------------------
(* Uploads that race with each other, and with the cleanups of uploads that *)
(* stored nothing.  The path of each leads to the file it created, until    *)
(* the cleanup's own command.                                               *)

HasBytes(e) == \E r \in replicas[e] : mtime[r[1]][r[2]] # Absent

\* Without deletions by users, each of them is of an upload that failed.
Busy(c) == op[c].pc \in {"storing", "deleting"}

Owns(c) ==
  /\ op[c].file \in Entry /\ op[c].own = op[c].file /\ kind[op[c].file] = "file"
  /\ Len(op[c].path) > 0 /\ Leads(children, op[c].path, op[c].file)

\* What is still to be sent goes to replicas of the file, and a node that
\* acknowledged holds its bytes.
Sent(c) ==
  /\ \A n \in op[c].todo : <<n, op[c].file>> \in replicas[op[c].file]
  /\ op[c].stored => HasBytes(op[c].file)

Uploads ==
  /\ \A c \in Client : Busy(c) => Owns(c)
  /\ \A c, d \in Client : Busy(c) /\ Busy(d) /\ op[c].file = op[d].file => c = d
  /\ \A c \in Client : op[c].pc = "storing" => Sent(c)

UInv == LInv /\ EInv /\ Uploads /\ CompleteReadable

\* Bytes of files in the tree stay where they are.
LEMMA BytesStay ==
  ASSUME LInv, EInv, [LNext]_lvars, NEW e \in Reachable, HasBytes(e)
  PROVE  HasBytes(e)'
<1>1. e \in Entry /\ kind[e] # "free" /\ IInv /\ DataInv /\ TypeOK
  BY ReachableAllocated DEF LInv, LBase, IInv
<1>2. mtime \in Disks /\ now \in Nat /\ op \in [Client -> Ops]
  BY DEF LInv, LBase, LTypeOK, Disks, Ops
<1>3. replicas'[e] = replicas[e]
  BY <1>1, ReplicasStay DEF LInv
<1>4. ASSUME NEW n \in Addr, mtime[n][e] # Absent
      PROVE  mtime'[n][e] # Absent
  <2>1. CASE UNCHANGED mtime
    BY <1>4, <2>1
  <2>2. ASSUME NEW m \in Addr, NEW f \in Entry, f # e,
               mtime' = [mtime EXCEPT ![m][f] = Absent]
        PROVE  mtime'[n][e] # Absent
    BY <1>1, <1>2, <1>4, <2>2 DEF Disks
  <2>3. ASSUME NEW c \in Client, NEW m \in Addr, NEW t \in (now - Skew)..(now + Skew),
               NEW ack \in BOOLEAN, StoreData(c, m, t, ack)
        PROVE  mtime'[n][e] # Absent
    <3>1. t \in Int /\ t # Absent
      BY <1>2, LifecycleAssumption
    <3>2. mtime' = [mtime EXCEPT ![m][op[c].file] = t]
      BY <2>3 DEF StoreData
    <3>3. mtime'[n][e] \in {t, mtime[n][e]}
      BY <1>1, <1>2, <3>2 DEF Disks
    <3> QED
      BY <1>4, <3>1, <3>3
  <2>4. ASSUME NEW c \in Client, NEW m \in Addr, NEW erased \in BOOLEAN, Erase(c, m, erased)
        PROVE  mtime'[n][e] # Absent
    <3>1. op[c].file \in Entry /\ op[c].file # e
      BY <2>4 DEF Erase, EInv, CallSafe
    <3> QED
      BY <2>1, <2>2, <2>4, <3>1 DEF Erase
  <2>5. ASSUME NEW g \in Collector, NEW f \in Entry, DeleteOrphan(g, f)
        PROVE  mtime'[n][e] # Absent
    <3>1. f # e /\ mtime' = [mtime EXCEPT ![gc[g].at][f] = Absent]
      BY <2>5 DEF DeleteOrphan, LInv, Dead
    <3>2. CASE gc[g].at \in Addr
      BY <2>2, <3>1, <3>2
    <3>3. CASE gc[g].at \notin Addr
      BY <1>2, <1>4, <3>1, <3>3 DEF Disks
    <3> QED
      BY <3>2, <3>3
  <2>6. ASSUME NEW c \in Client, ClientStep(c) PROVE mtime'[n][e] # Absent
    BY <2>1, <2>3, <2>4, <2>6 DEF ClientStep, Mkdir, Rename, PutCreate, StoreFails,
       PutComplete, PutCleanup, Delete, LookupTarget, DeleteApply, ClientFails
  <2>7. ASSUME NEW g \in Collector, CollectorStep(g) PROVE mtime'[n][e] # Absent
    BY <2>1, <2>5, <2>7 DEF CollectorStep, FallsBehind, runGC, Collect, ListAllPaths, SkipNode,
       DeleteOrphanFails, EndGC, MDSFails
  <2> QED
    BY <2>1, <2>6, <2>7 DEF LNext, Tick, lvars
<1>5. PICK r \in replicas[e] : mtime[r[1]][r[2]] # Absent
  BY DEF HasBytes
<1>6. r[1] \in Addr /\ r[2] = e
  BY <1>1, <1>5 DEF TypeOK, DataInv
<1> QED
  BY <1>3, <1>4, <1>5, <1>6 DEF HasBytes

\* A file becomes complete only when the upload whose path leads to it has
\* been acknowledged by a node.
LEMMA CompleteStep ==
  ASSUME LInv, Uploads, [LNext]_lvars, NEW e \in Entry, status'[e] = "complete"
  PROVE  kind[e] # "free" /\ (status[e] = "complete" \/ HasBytes(e))
<1>1. TypeOK /\ Linked /\ IInv
  BY DEF LInv, LBase, IInv
<1>2. status[e] = "complete" => kind[e] # "free"
  BY <1>1 DEF TypeOK, Status
<1>3. CASE UNCHANGED status
  BY <1>2, <1>3
<1>4. ASSUME NEW c \in Client, NEW p \in Path, NEW x \in Entry, NEW mode \in CreateModes,
             NEW sz \in Size, NEW addrs \in SUBSET Addr, PutCreate(c, p, x, mode, sz, addrs)
      PROVE  status[e] = "complete"
  BY <1>1, <1>4 DEF PutCreate, applyCreateFile, TypeOK
<1>5. ASSUME NEW c \in Client, PutComplete(c)
      PROVE  kind[e] # "free" /\ (status[e] = "complete" \/ HasBytes(e))
  <2> DEFINE f == op[c].file
  <2>1. op[c].path \in Path
    BY DEF LInv, LBase, LTypeOK
  <2>2. f = lookup(op[c].path) /\ HasBytes(f) /\ f \in Entry
    BY <1>1, <1>5, <2>1, LeadsLookup DEF PutComplete, Uploads, Busy, Owns, Sent
  <2>3. UNCHANGED status \/ (IsFile(f) /\ status' = [status EXCEPT ![f] = "complete"])
    BY <1>5, <2>2 DEF PutComplete, applyCompleteFile, tree
  <2>4. CASE e = f
    BY <1>3, <2>2, <2>3, <2>4 DEF IsFile
  <2>5. CASE e # f
    BY <1>1, <1>2, <2>2, <2>3, <2>5 DEF TypeOK
  <2> QED
    BY <2>4, <2>5
<1>6. ASSUME NEW c \in Client, ClientStep(c)
      PROVE  kind[e] # "free" /\ (status[e] = "complete" \/ HasBytes(e))
  BY <1>2, <1>3, <1>4, <1>5, <1>6 DEF ClientStep, Mkdir, Rename, StoreData, StoreFails,
     PutCleanup, Delete, LookupTarget, DeleteApply, Erase, ClientFails, applyMkdir,
     applyRename, applyDelete, tree, data
<1>7. ASSUME NEW g \in Collector, CollectorStep(g) PROVE UNCHANGED status
  BY <1>7 DEF CollectorStep, FallsBehind, runGC, Collect, ListAllPaths, SkipNode,
     DeleteOrphan, DeleteOrphanFails, EndGC, MDSFails, tree
<1> QED
  BY <1>3, <1>6, <1>7 DEF LNext, Tick, lvars, tree

LEMMA NextReadable ==
  ASSUME UInv, [LNext]_lvars
  PROVE  CompleteReadable'
<1> USE DEF UInv
<1> SUFFICES ASSUME NEW e \in Reachable', status'[e] = "complete" PROVE HasBytes(e)'
  BY DEF CompleteReadable, HasBytes
<1>1. e \in Entry
  BY DEF Reachable
<1>2. kind[e] # "free" /\ (status[e] = "complete" \/ HasBytes(e))
  BY <1>1, CompleteStep
<1>3. [Next]_vars /\ IInv
  BY TreeStep DEF LInv, LBase, Next
<1>4. e \in Reachable
  BY <1>2, <1>3, TreeGrowth
<1>5. HasBytes(e)
  BY <1>2, <1>4 DEF CompleteReadable, HasBytes
<1> QED
  BY <1>4, <1>5, BytesStay

\* When users create directories only, and nobody overwrites, a step links a
\* new entry where there was none, or is the deletion of some call.
LEMMA UploadLinks ==
  ASSUME NoOverwrite, Calls \subseteq {"Mkdir"}, LBase, [LNext]_lvars
  PROVE  \/ children' = children
         \/ \E P \in Entry, l \in Name, x \in Entry \cup {Nil} :
              /\ children' = [children EXCEPT ![P][l] = x]
              /\ children[P][l] # Nil =>
                   \E d \in Client : /\ DeleteApply(d) /\ lookup(op[d].path) # Nil
                                     /\ children[P][l] = lookup(op[d].path)
<1> DEFINE Links(P, l, x) ==
      /\ children' = [children EXCEPT ![P][l] = x]
      /\ children[P][l] # Nil =>
           \E d \in Client : /\ DeleteApply(d) /\ lookup(op[d].path) # Nil
                             /\ children[P][l] = lookup(op[d].path)
<1>1. TypeOK
  BY DEF LBase, IInv
<1>2. ASSUME NEW c \in Client, NEW p \in Path, NEW e \in Entry, Mkdir(c, p, e)
      PROVE  \E P \in Entry, l \in Name, x \in Entry \cup {Nil} : Links(P, l, x)
  <2>1. Parent(p) \in Entry /\ Last(p) \in Name /\ children[Parent(p)][Last(p)] = Nil
    BY <1>1, <1>2, ParentFacts DEF Mkdir, applyMkdir, lookup
  <2>2. Links(Parent(p), Last(p), e)
    BY <1>2, <2>1 DEF Mkdir, applyMkdir
  <2> QED
    BY <2>1, <2>2
<1>3. ASSUME NEW c \in Client, NEW p \in Path, NEW e \in Entry, NEW mode \in CreateModes,
             NEW sz \in Size, NEW addrs \in SUBSET Addr, PutCreate(c, p, e, mode, sz, addrs)
      PROVE  \E P \in Entry, l \in Name, x \in Entry \cup {Nil} : Links(P, l, x)
  <2>1. lookup(p) = Nil /\ ParentFound(p)
    BY <1>3 DEF PutCreate, applyCreateFile, MayCreate, NoOverwrite
  <2>2. Parent(p) \in Entry /\ Last(p) \in Name /\ children[Parent(p)][Last(p)] = Nil
    BY <1>1, <2>1, ParentFacts DEF lookup
  <2>3. Links(Parent(p), Last(p), e)
    BY <1>3, <2>2 DEF PutCreate, applyCreateFile
  <2> QED
    BY <2>2, <2>3
<1>4. ASSUME NEW c \in Client, DeleteApply(c), children' # children
      PROVE  \E P \in Entry, l \in Name, x \in Entry \cup {Nil} : Links(P, l, x)
  <2>1. PICK p \in Path : p = op[c].path
    BY DEF LBase, LTypeOK
  <2>2. applyDelete(op[c].path)
    <3>1. ~UNCHANGED tree
      BY <1>4 DEF tree
    <3> QED
      BY <1>4, <3>1 DEF DeleteApply
  <2>3. lookup(p) # Nil
    BY <2>1, <2>2 DEF applyDelete
  <2>4. /\ Parent(p) \in Entry /\ Last(p) \in Name
        /\ children[Parent(p)][Last(p)] = lookup(p)
    BY <1>1, <2>3, ParentFacts DEF lookup
  <2>5. children' = [children EXCEPT ![Parent(p)][Last(p)] = Nil]
    BY <2>1, <2>2 DEF applyDelete
  <2>6. Links(Parent(p), Last(p), Nil)
    BY <1>4, <2>1, <2>3, <2>4, <2>5
  <2> QED
    BY <2>4, <2>6
<1>5. ASSUME NEW c \in Client, ClientStep(c), children' # children
      PROVE  \E P \in Entry, l \in Name, x \in Entry \cup {Nil} : Links(P, l, x)
  <2> HIDE DEF Links
  <2> QED
    BY <1>2, <1>3, <1>4, <1>5 DEF ClientStep, Rename, StoreData, StoreFails, PutComplete,
       PutCleanup, Delete, LookupTarget, Erase, ClientFails, applyCompleteFile, tree
<1>6. ASSUME NEW g \in Collector, CollectorStep(g) PROVE children' = children
  BY <1>6 DEF CollectorStep, FallsBehind, runGC, Collect, ListAllPaths, SkipNode,
     DeleteOrphan, DeleteOrphanFails, EndGC, MDSFails, tree
<1> QED
  BY <1>5, <1>6 DEF LNext, Tick, lvars, tree

\* An upload keeps its file and its path, except in the deletion it asks for.
LEMMA OwnsStays ==
  ASSUME NoOverwrite, Calls \subseteq {"Mkdir"}, LInv, Uploads, [LNext]_lvars,
         NEW c \in Client, Busy(c), ~DeleteApply(c)
  PROVE  /\ op[c].file \in Reachable /\ lookup(op[c].path) = op[c].file
         /\ kind'[op[c].file] = "file" /\ Leads(children', op[c].path, op[c].file)
<1>1. /\ LBase /\ IInv /\ TypeOK /\ Linked /\ op \in [Client -> Ops]
  BY DEF LInv, LBase, IInv, LTypeOK, Ops
<1>2. PICK p \in Path : p = op[c].path
  BY <1>1 DEF Ops
<1>3. PICK f \in Entry : f = op[c].file
  BY DEF Uploads, Owns
<1>4. kind[f] = "file" /\ Len(p) > 0 /\ Leads(children, p, f)
  BY <1>2, <1>3 DEF Uploads, Owns
<1>5. lookup(p) = f
  BY <1>1, <1>4, LeadsLookup
<1>6. f \in Reachable
  <2>1. lookup(p) # Nil
    BY <1>5, NamespaceAssumption
  <2>2. ParentFound(p)
    BY <2>1 DEF lookup
  <2> QED
    BY <1>1, <1>5, <2>1, <2>2, LookupReachable
<1>7. kind'[f] = "file"
  BY <1>1, <1>4, Growth
<1>8. ASSUME NEW P \in Entry, NEW l \in Name, NEW x \in Entry \cup {Nil},
             children' = [children EXCEPT ![P][l] = x],
             children[P][l] # Nil =>
               \E d \in Client : /\ DeleteApply(d) /\ lookup(op[d].path) # Nil
                                 /\ children[P][l] = lookup(op[d].path)
      PROVE  Leads(children', p, f)
  <2>1. ASSUME NEW d \in Client, DeleteApply(d), children[P][l] = lookup(op[d].path)
        PROVE  kind[children[P][l]] = "file" /\ children[P][l] # f
    <3>1. Busy(d) /\ d # c
      BY <2>1 DEF DeleteApply, Busy
    <3>2. Owns(d) /\ op[d].file # f
      BY <1>3, <3>1 DEF Uploads
    <3>3. PICK q \in Path : q = op[d].path
      BY <1>1 DEF Ops
    <3>4. lookup(q) = op[d].file
      BY <1>1, <3>2, <3>3, LeadsLookup DEF Owns
    <3> QED
      BY <2>1, <3>2, <3>3, <3>4 DEF Owns
  <2>2. children[P][l] # Nil => kind[children[P][l]] = "file" /\ children[P][l] # f
    BY <1>8, <2>1
  <2> QED
    BY <1>1, <1>4, <1>8, <2>2, LeadsPast
<1>9. Leads(children', p, f)
  BY <1>1, <1>4, <1>8, UploadLinks
<1> QED
  BY <1>2, <1>3, <1>5, <1>6, <1>7, <1>9

\* A call that owns its file goes on with it, or has just created it.
LEMMA UploadStep ==
  ASSUME NoOverwrite, Calls \subseteq {"Mkdir"}, LInv, Uploads,
         NEW c \in Client, ClientStep(c), Busy(c)'
  PROVE  \/ /\ op[c].pc = "storing" /\ op'[c].path = op[c].path
            /\ op'[c].own = op[c].own /\ op'[c].file = op[c].file
         \/ \E p \in Path, e \in Entry, mode \in CreateModes, sz \in Size,
               addrs \in SUBSET Addr : PutCreate(c, p, e, mode, sz, addrs)
<1>1. /\ op \in [Client -> Ops] /\ op[c] \in Ops /\ op[c].path \in Path
      /\ [LNext]_lvars /\ LBase
  BY DEF LInv, LBase, LTypeOK, Ops, LNext
<1>2. op'[c].pc \in {"storing", "deleting"}
  BY DEF Busy
<1>3. Idle.pc = "idle"
  BY DEF Idle
<1>4. CASE \E p \in Path, e \in Entry : Mkdir(c, p, e)
  BY <1>2, <1>4 DEF Mkdir
<1>5. ASSUME NEW n \in Addr, NEW t, NEW ack \in BOOLEAN, StoreData(c, n, t, ack)
      PROVE  /\ op[c].pc = "storing" /\ op'[c].path = op[c].path
             /\ op'[c].own = op[c].own /\ op'[c].file = op[c].file
  BY <1>1, <1>5 DEF StoreData, Ops
<1>6. ASSUME NEW n \in Addr, StoreFails(c, n)
      PROVE  /\ op[c].pc = "storing" /\ op'[c].path = op[c].path
             /\ op'[c].own = op[c].own /\ op'[c].file = op[c].file
  BY <1>1, <1>6 DEF StoreFails, Ops
<1>7. CASE PutComplete(c) \/ ClientFails(c)
  BY <1>1, <1>2, <1>3, <1>7 DEF PutComplete, ClientFails
<1>8. CASE PutCleanup(c)
  <2>1. op[c].pc = "storing" /\ LookupTarget(c, op[c].path, op[c].own)
    BY <1>8 DEF PutCleanup
  <2>2. lookup(op[c].path) = op[c].file
    <3>1. Busy(c) /\ ~DeleteApply(c)
      BY <2>1 DEF Busy, DeleteApply
    <3> QED
      BY <1>1, <3>1, OwnsStays
  <2>3. op[c].file # Nil
    BY <2>1, NamespaceAssumption DEF Uploads, Busy, Owns
  <2> QED
    BY <1>1, <2>1, <2>2, <2>3 DEF LookupTarget
<1>9. CASE DeleteApply(c)
  BY <1>1, <1>2, <1>3, <1>9 DEF DeleteApply, Ops
<1>10. CASE \E n \in Addr, erased \in BOOLEAN : Erase(c, n, erased)
  BY <1>1, <1>2, <1>3, <1>10 DEF Erase, Ops
<1> QED
  BY <1>4, <1>5, <1>6, <1>7, <1>8, <1>9, <1>10 DEF ClientStep, Rename, Delete

\* The file of a new upload is found at its path, and its replicas are those
\* it is to be sent to.
LEMMA UploadCreated ==
  ASSUME NoOverwrite, LInv, NEW c \in Client, NEW p \in Path, NEW e \in Entry,
         NEW mode \in CreateModes, NEW sz \in Size, NEW addrs \in SUBSET Addr,
         PutCreate(c, p, e, mode, sz, addrs)
  PROVE  /\ Owns(c)' /\ Sent(c)'
         /\ op'[c].file \in Entry /\ kind[op'[c].file] = "free"
<1>1. TypeOK /\ Linked /\ op \in [Client -> Ops]
  BY DEF LInv, LBase, IInv, LTypeOK, Ops
<1>2. /\ op'[c].path = p /\ op'[c].own = e /\ op'[c].file = e
      /\ op'[c].todo = addrs /\ op'[c].stored = FALSE
  BY <1>1 DEF PutCreate
<1>3. lookup(p) = Nil /\ ParentFound(p) /\ kind[e] = "free"
  BY DEF PutCreate, applyCreateFile, MayCreate, NoOverwrite, Fresh
<1>4. Leads(children', p, e)
  BY <1>1, <1>3, CreatedLeads DEF PutCreate, applyCreateFile
<1>5. Len(p) > 0
  BY <1>3 DEF ParentFound, IsWalk
<1>6. kind'[e] = "file" /\ replicas'[e] = addrs \X {e}
  BY <1>1 DEF PutCreate, applyCreateFile, TypeOK
<1>7. \A n \in addrs : <<n, e>> \in replicas'[e]
  BY <1>6
<1> QED
  BY <1>2, <1>3, <1>4, <1>5, <1>6, <1>7 DEF Owns, Sent

LEMMA NextUploads ==
  ASSUME NoOverwrite, Calls \subseteq {"Mkdir"}, UInv, [LNext]_lvars
  PROVE  Uploads'
<1>1. /\ LInv /\ EInv /\ LBase /\ Uploads /\ TypeOK /\ op \in [Client -> Ops]
      /\ mtime \in Disks /\ now \in Nat
  BY DEF UInv, LInv, LBase, IInv, LTypeOK, Ops, Disks
<1>2. ASSUME NEW c \in Client, Busy(c)'
      PROVE  \/ /\ Busy(c) /\ ~DeleteApply(c) /\ op'[c].path = op[c].path
                /\ op'[c].own = op[c].own /\ op'[c].file = op[c].file
             \/ /\ Owns(c)' /\ Sent(c)'
                /\ op'[c].file \in Entry /\ kind[op'[c].file] = "free"
  <2>1. CASE ClientStep(c)
    BY <1>1, <1>2, <2>1, UploadStep, UploadCreated DEF Busy, DeleteApply
  <2>2. CASE ~ClientStep(c)
    <3>1. op'[c] = op[c]
      BY <1>1, <2>2, OneCall
    <3>2. ~DeleteApply(c)
      BY <2>2 DEF ClientStep
    <3> QED
      BY <1>2, <3>1, <3>2 DEF Busy
  <2> QED
    BY <2>1, <2>2
<1>3. ASSUME NEW c \in Client, Busy(c)' PROVE Owns(c)'
  <2>1. CASE /\ Busy(c) /\ ~DeleteApply(c) /\ op'[c].path = op[c].path
             /\ op'[c].own = op[c].own /\ op'[c].file = op[c].file
    <3>1. /\ kind'[op[c].file] = "file" /\ Leads(children', op[c].path, op[c].file)
          /\ Owns(c)
      BY <1>1, <2>1, OwnsStays DEF Uploads
    <3> QED
      BY <2>1, <3>1 DEF Owns
  <2> QED
    BY <1>2, <1>3, <2>1
<1>4. ASSUME NEW c \in Client, NEW d \in Client, Busy(c)', Busy(d), op'[d] = op[d],
             op'[c].file = op'[d].file
      PROVE  c = d
  <2>1. Owns(d)
    BY <1>1, <1>4 DEF Uploads
  <2>2. kind[op'[c].file] # "free"
    BY <1>4, <2>1 DEF Owns
  <2>3. Busy(c) /\ op'[c].file = op[c].file
    BY <1>2, <1>4, <2>2
  <2> QED
    BY <1>1, <1>4, <2>3 DEF Uploads
<1>5. ASSUME NEW c \in Client, NEW d \in Client, Busy(c)', Busy(d)',
             op'[c].file = op'[d].file
      PROVE  c = d
  <2>1. CASE c # d /\ ClientStep(c)
    <3>1. op'[d] = op[d]
      BY <1>1, <2>1, OpStep
    <3> QED
      BY <1>4, <1>5, <3>1 DEF Busy
  <2>2. CASE ~ClientStep(c)
    <3>1. op'[c] = op[c]
      BY <1>1, <2>2, OneCall
    <3> QED
      BY <1>4, <1>5, <3>1 DEF Busy
  <2> QED
    BY <2>1, <2>2
<1>6. ASSUME NEW c \in Client, op[c].pc = "storing"
      PROVE  /\ op[c].file \in Entry /\ Sent(c)
             /\ replicas'[op[c].file] = replicas[op[c].file]
             /\ HasBytes(op[c].file) =>
                  \E r \in replicas'[op[c].file] : mtime'[r[1]][r[2]] # Absent
  <2>1. Busy(c) /\ Owns(c) /\ Sent(c) /\ ~DeleteApply(c)
    BY <1>1, <1>6 DEF Busy, Uploads, DeleteApply
  <2>2. PICK f \in Entry : f = op[c].file
    BY <2>1 DEF Owns
  <2>3. f \in Reachable
    BY <1>1, <2>1, <2>2, OwnsStays
  <2>4. HasBytes(f) => HasBytes(f)'
    BY <1>1, <2>3, BytesStay
  <2>5. replicas'[f] = replicas[f]
    BY <1>1, <2>1, <2>2, ReplicasStay DEF Owns
  <2> QED
    BY <2>1, <2>2, <2>4, <2>5 DEF HasBytes
<1>7. ASSUME NEW c \in Client, op'[c].pc = "storing" PROVE Sent(c)'
  <2>1. CASE op'[c] = op[c]
    BY <1>6, <1>7, <2>1 DEF Sent, HasBytes
  <2>2. ASSUME NEW n \in Addr, NEW t \in (now - Skew)..(now + Skew), NEW ack \in BOOLEAN,
               StoreData(c, n, t, ack)
        PROVE  Sent(c)'
    <3>1. /\ op[c].pc = "storing" /\ n \in op[c].todo /\ op'[c].file = op[c].file
          /\ op'[c].todo \subseteq op[c].todo
          /\ mtime' = [mtime EXCEPT ![n][op[c].file] = t]
      BY <1>1, <2>2 DEF StoreData, Ops
    <3>2. PICK f \in Entry : f = op[c].file
      BY <1>6, <3>1
    <3>3. t # Absent
      BY <1>1, LifecycleAssumption
    <3>4. mtime'[n][f] # Absent /\ <<n, f>> \in replicas'[f]
      BY <1>1, <1>6, <3>1, <3>2, <3>3 DEF Disks, Sent
    <3>5. \E r \in replicas'[f] : mtime'[r[1]][r[2]] # Absent
      BY <3>4
    <3> QED
      BY <1>6, <3>1, <3>2, <3>5 DEF Sent, HasBytes
  <2>3. ASSUME NEW n \in Addr, StoreFails(c, n) PROVE Sent(c)'
    <3>1. /\ op[c].pc = "storing" /\ op'[c].file = op[c].file
          /\ op'[c].todo \subseteq op[c].todo /\ op'[c].stored = op[c].stored
      BY <1>1, <2>3 DEF StoreFails, Ops
    <3> QED
      BY <1>6, <3>1 DEF Sent, HasBytes
  <2>4. CASE \E p \in Path, e \in Entry, mode \in CreateModes, sz \in Size,
                addrs \in SUBSET Addr : PutCreate(c, p, e, mode, sz, addrs)
    BY <1>1, <2>4, UploadCreated
  <2>5. ASSUME NEW p \in Path, NEW own, LookupTarget(c, p, own) PROVE FALSE
    BY <1>1, <1>7, <2>5 DEF LookupTarget, Idle
  <2>6. CASE PutCleanup(c) \/ \E p \in Path : Delete(c, p)
    <3>1. op[c].path \in Path
      BY <1>1 DEF Ops
    <3> QED
      BY <2>5, <2>6, <3>1 DEF PutCleanup, Delete
  <2>7. Idle.pc = "idle"
    BY DEF Idle
  <2>8. CASE DeleteApply(c)
    BY <1>1, <1>7, <2>7, <2>8 DEF DeleteApply, Ops
  <2>9. CASE \E n \in Addr, erased \in BOOLEAN : Erase(c, n, erased)
    BY <1>1, <1>7, <2>7, <2>9 DEF Erase, Ops
  <2>10. CASE PutComplete(c) \/ ClientFails(c)
    BY <1>1, <1>7, <2>7, <2>10 DEF PutComplete, ClientFails
  <2>11. CASE ~ClientStep(c)
    BY <1>1, <2>1, <2>11, OneCall
  <2>12. CASE \/ \E p \in Path, e \in Entry : Mkdir(c, p, e)
              \/ \E src, dst \in Path : Rename(c, src, dst)
    BY <2>1, <2>12 DEF Mkdir, Rename
  <2> QED
    BY <2>2, <2>3, <2>4, <2>6, <2>8, <2>9, <2>10, <2>11, <2>12 DEF ClientStep
<1> QED
  BY <1>3, <1>5, <1>7 DEF Uploads

LEMMA InitUInv == LInit => UInv
<1> SUFFICES ASSUME LInit PROVE UInv
  OBVIOUS
<1>1. \A c \in Client : op[c].pc = "idle"
  BY DEF LInit, Idle
<1>2. \A e \in Entry : status[e] = "none"
  BY DEF LInit, Init
<1>3. CompleteReadable
  BY <1>2 DEF CompleteReadable, Reachable
<1> QED
  BY <1>1, <1>3, InitLInv, InitEInv DEF UInv, Uploads, Busy

LEMMA NextUInv ==
  ASSUME NoOverwrite, Lag + Skew < Window, Calls \subseteq {"Mkdir"},
         UInv, [LNext]_lvars
  PROVE  UInv'
<1>1. LInv'
  BY NextLInv DEF UInv
<1>2. EInv'
  BY NextEInv DEF UInv
<1>3. Uploads'
  BY NextUploads
<1>4. CompleteReadable'
  BY NextReadable
<1> QED
  BY <1>1, <1>2, <1>3, <1>4 DEF UInv

----------------------------------------------------------------------------

\* A file that the MDS calls complete can be read from one of its replicas,
\* whatever other uploads race for its path, fail halfway, clean up after
\* themselves or are completed late, and whatever the collectors delete, with
\* any number of calls, collectors and nodes.  It needs that nobody
\* overwrites and that users delete and rename nothing: CompleteFile and the
\* cleanup name the file by its path.
THEOREM CompleteFilesReadable ==
  ASSUME NoOverwrite, Lag + Skew < Window, Calls \subseteq {"Mkdir"}
  PROVE  LSpec => []CompleteReadable
<1>1. LInit => UInv
  BY InitUInv
<1>2. UInv /\ [LNext]_lvars => UInv'
  BY NextUInv
<1>3. UInv => CompleteReadable
  BY DEF UInv
<1> QED
  BY <1>1, <1>2, <1>3, PTL DEF LSpec

\* The cleanup of a PutFile that stored nothing deletes the file that this
\* PutFile created, and not the one that another upload created at the same
\* path, however late MDS.Delete submits its command.  (Under the same
\* conditions.)
THEOREM CleanupSafe ==
  ASSUME NoOverwrite, Lag + Skew < Window, Calls \subseteq {"Mkdir"}
  PROVE  LSpec => CleanupRemovesOwn
<1>1. LInit => UInv
  BY InitUInv
<1>2. UInv /\ [LNext]_lvars => UInv'
  BY NextUInv
<1>3. UInv => [\A c \in Client :
         DeleteApply(c) /\ op[c].own # Nil /\ lookup(op[c].path) # Nil
           => lookup(op[c].path) = op[c].own]_lvars
  <2> SUFFICES ASSUME UInv, NEW c \in Client, DeleteApply(c)
               PROVE  lookup(op[c].path) = op[c].own
    OBVIOUS
  <2>1. /\ Owns(c) /\ TypeOK /\ Linked /\ op \in [Client -> Ops]
    BY DEF UInv, Uploads, Busy, DeleteApply, LInv, LBase, IInv, LTypeOK, Ops
  <2>2. PICK p \in Path : p = op[c].path
    BY <2>1 DEF Ops
  <2>3. lookup(p) = op[c].file
    BY <2>1, <2>2, LeadsLookup DEF Owns
  <2> QED
    BY <2>1, <2>2, <2>3 DEF Owns
<1> QED
  BY <1>1, <1>2, <1>3, PTL DEF LSpec, CleanupRemovesOwn
=============================================================================
