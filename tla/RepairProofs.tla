---------------------------- MODULE RepairProofs ----------------------------
(***************************************************************************)
(* Proofs about Repair.  RBase types the state and ties tasks and copies to *)
(* the files that exist: it is inductive for all constants.  SInv follows   *)
(* one replica of every file through the repair.                            *)
(***************************************************************************)
EXTENDS Repair, NamespaceProofs, FiniteSetTheorems

----------------------------------------------------------------------------
(* The shape of the state.                                                  *)

Reps == [pc : {"scan", "mark", "copy", "complete", "rollback"},
         tasks : SUBSET Task, nodes : SUBSET Addr, task : Task,
         source : Replica \cup {<<>>}, calls : SUBSET Addr,
         waiting : SUBSET Addr, copied : SUBSET Addr]

Copies == [to : Addr, from : Replica, id : Entry, size : 0..MaxBlocks,
           off : -1..MaxBlocks, wanted : BOOLEAN]

HandleSet == [pc : {"closed", "open", "writing"}, path : Path,
            replicas : SUBSET Replica, size : 0..MaxBlocks, block : 0..MaxBlocks,
            ver : 0..MaxWrites, todo : SUBSET Replica, ok : BOOLEAN]

Contents == [Addr -> [Entry -> Blocks]]

\* No file is created or deleted, and files keep their identity.
SameFiles ==
  /\ \A e \in Entry : kind[e] = "file" <=> e \in Files
  /\ \A e \in Entry : kind[e] = "dir" <=> e = Root
  /\ \A f \in Files : fileID[f] = f

\* Tasks are about files, and a wanted copy is the one answer that the
\* replicator waits for from its node.
TasksOfFiles ==
  /\ rep \in Reps /\ rep.calls \subseteq rep.waiting
  /\ \A t \in rep.tasks : t.id \in Files
  /\ rep.pc # "scan" => rep.task.id \in Files
  /\ rep.pc = "copy" => rep.source \in Replica
  /\ \A c \in copies :
       c.wanted => /\ rep.pc = "copy" /\ c.id = rep.task.id
                   /\ c.to \in rep.waiting \ rep.calls
  /\ \A c, d \in copies : c.wanted /\ d.wanted /\ c.to = d.to => c = d

RBase == IInv /\ RTypeOK /\ SameFiles /\ TasksOfFiles

----------------------------------------------------------------------------
(* The commands of the replicator and of clients.                           *)

LEMMA ConstFacts ==
  /\ MaxBlocks \in Nat /\ MaxWrites \in Nat /\ MaxRemovals \in Nat /\ MaxTerm \in Nat
  /\ FileSize \in Nat /\ FileSize <= MaxBlocks /\ Size = 0..MaxBlocks
  /\ Files \subseteq Entry /\ Root \notin Files /\ <<>> \in Path
<1>1. <<>> \in Path
  BY NamespaceAssumption, SeqDef DEF Path
<1> QED
  BY <1>1, RepairAssumption

\* A path leads to a file of the start or nowhere.
LEMMA LookupFile ==
  ASSUME IInv, SameFiles, NEW p \in Path
  PROVE  /\ lookup(p) # Nil => lookup(p) \in Files
         /\ IsFile(lookup(p)) <=> lookup(p) # Nil
<1>1. ASSUME lookup(p) # Nil PROVE lookup(p) \in Files /\ kind[lookup(p)] = "file"
  <2>1. lookup(p) \in Entry /\ kind[lookup(p)] # "free" /\ lookup(p) # Root
    BY <1>1, LookupFacts DEF IInv
  <2>2. kind[lookup(p)] \in {"free", "dir", "file"}
    BY <2>1 DEF IInv, TypeOK
  <2> QED
    BY <2>1, <2>2 DEF SameFiles
<1> QED
  BY <1>1 DEF IsFile

\* A step that leaves the heap alone changes nothing that a path leads to.
LEMMA HeapSameLookup ==
  ASSUME NEW p, kind' = kind, children' = children
  PROVE  lookup(p)' = lookup(p)
  BY DEF lookup, ParentFound, IsWalk, Walk, Parent

LEMMA StatusStep ==
  ASSUME IInv, NEW p \in Path, NEW st \in {"complete", "recovering"},
         applyUpdateStatus(p, st)
  PROVE  IInv' /\ UNCHANGED <<kind, children, fileID, size, replicas>>
  BY NextIInv DEF Next, ReplicatorNext, applyUpdateStatus

LEMMA ReplicasStep ==
  ASSUME IInv, SameFiles, NEW p \in Path, NEW list \in SUBSET Replica,
         applyUpdateReplicas(p, list)
  PROVE  /\ IInv' /\ UNCHANGED <<kind, children, fileID, status, size>>
         /\ lookup(p) \in Files
         /\ \A e \in Entry : replicas'[e] = IF e = lookup(p) THEN list ELSE replicas[e]
<1>1. lookup(p) \in Files /\ lookup(p) \in Entry
  BY LookupFile, ConstFacts DEF applyUpdateReplicas, IsFile
<1>2. /\ replicas' = [replicas EXCEPT ![lookup(p)] = list]
      /\ UNCHANGED <<kind, children, fileID, status, size>>
  BY DEF applyUpdateReplicas
<1>3. replicas \in [Entry -> SUBSET Replica]
  BY DEF IInv, TypeOK, Replica
<1>4. replicas' \in [Entry -> SUBSET Replica]
  BY <1>1, <1>2, <1>3
<1>5. TypeOK'
  BY <1>2, <1>4 DEF IInv, TypeOK, Replica
<1> QED
  BY <1>1, <1>2, <1>3, <1>5, SameTree

LEMMA SizeStep ==
  ASSUME IInv, SameFiles, NEW p \in Path, NEW sz \in 0..MaxBlocks,
         applyUpdateSize(p, sz)
  PROVE  /\ IInv' /\ UNCHANGED <<kind, children, fileID, status, replicas>>
         /\ lookup(p) \in Files
         /\ \A e \in Entry : size'[e] = IF e = lookup(p) THEN sz ELSE size[e]
<1>1. lookup(p) \in Files /\ lookup(p) \in Entry
  BY LookupFile, ConstFacts DEF applyUpdateSize, IsFile
<1>2. IInv'
  BY NextIInv, ConstFacts DEF Next, ClientNext
<1>3. /\ size' = [size EXCEPT ![lookup(p)] = sz]
      /\ UNCHANGED <<kind, children, fileID, status, replicas>>
  BY DEF applyUpdateSize
<1>4. size \in [Entry -> 0..MaxBlocks]
  BY ConstFacts DEF IInv, TypeOK
<1> QED
  BY <1>1, <1>2, <1>3, <1>4

LEMMA RenameStep ==
  ASSUME IInv, NEW src \in Path, NEW dst \in Path, applyRename(src, dst)
  PROVE  IInv' /\ UNCHANGED <<kind, fileID, status, size, replicas>>
  BY RenamedInv DEF applyRename, data

----------------------------------------------------------------------------
(* Blocks.                                                                  *)

LEMMA LenOfBlocks == \A s \in Blocks : s \in Seq(Block) /\ Len(s) \in 0..MaxBlocks
<1> SUFFICES ASSUME NEW s \in Blocks PROVE s \in Seq(Block) /\ Len(s) \in 0..MaxBlocks
  OBVIOUS
<1>1. PICK n \in 0..MaxBlocks : s \in [1..n -> Block]
  BY DEF Blocks
<1> QED
  BY <1>1, ConstFacts

\* A write leaves a file that reaches to the written block and not back.
LEMMA WriteBlockFacts ==
  ASSUME NEW s \in Blocks, NEW i \in 0..MaxBlocks, NEW v \in Block
  PROVE  /\ WriteBlock(s, i, v) \in Blocks
         /\ Len(WriteBlock(s, i, v)) >= i
         /\ Len(WriteBlock(s, i, v)) >= Len(s)
<1> DEFINE k == IF i > Len(s) THEN i ELSE Len(s)
<1>1. PICK n \in 0..MaxBlocks : s \in [1..n -> Block]
  BY DEF Blocks
<1>2. Len(s) = n /\ n \in Nat
  BY <1>1, ConstFacts
<1>3. k \in 0..MaxBlocks /\ k >= i /\ k >= Len(s)
  BY <1>2, ConstFacts
<1>4. Hole \in Block
  BY DEF Block
<1>5. WriteBlock(s, i, v) = [j \in 1..k |->
        IF j = i THEN v ELSE IF j <= Len(s) THEN s[j] ELSE Hole]
  BY DEF WriteBlock
<1>6. \A j \in 1..k : (IF j = i THEN v ELSE IF j <= Len(s) THEN s[j] ELSE Hole) \in Block
  BY <1>1, <1>2, <1>3, <1>4
<1> HIDE DEF k
<1>7. WriteBlock(s, i, v) \in [1..k -> Block]
  BY <1>5, <1>6
<1>8. Len(WriteBlock(s, i, v)) = k
  BY <1>3, <1>7, ConstFacts
<1> QED
  BY <1>3, <1>7, <1>8 DEF Blocks

\* Only file e of node n changes.
LEMMA ContentStep ==
  ASSUME content \in Contents, NEW n \in Addr, NEW e \in Entry, NEW b \in Blocks,
         content' = [content EXCEPT ![n][e] = b]
  PROVE  /\ content' \in Contents
         /\ \A m \in Addr, x \in Entry :
              content'[m][x] = IF m = n /\ x = e THEN b ELSE content[m][x]
<1>1. content' = [content EXCEPT ![n] = [content[n] EXCEPT ![e] = b]]
  OBVIOUS
<1>2. content[n] \in [Entry -> Blocks]
  BY DEF Contents
<1>3. [content[n] EXCEPT ![e] = b] \in [Entry -> Blocks]
  BY <1>2
<1> QED
  BY <1>1, <1>2, <1>3 DEF Contents

----------------------------------------------------------------------------
(* RBase holds at the start.                                                *)

LEMMA InitTree ==
  RInit => /\ IInv /\ SameFiles
           /\ \A p \in Path : lookup(p) # Nil => lookup(p) \in Files
<1> SUFFICES ASSUME RInit PROVE IInv /\ SameFiles
  BY LookupFile
<1>1. PICK at \in [Files -> Name], addrs \in [Files -> SUBSET Addr],
           stored \in [Files -> (SUBSET Addr) \ {{}}] : StartWith(at, addrs, stored)
  BY DEF RInit
<1>2. /\ kind = [e \in Entry |-> CASE e = Root -> "dir"
                                    [] e \in Files -> "file"
                                    [] OTHER -> "free"]
      /\ fileID = [e \in Entry |-> IF e \in Files THEN e ELSE Nil]
      /\ status = [e \in Entry |-> IF e \in Files THEN "complete" ELSE "none"]
      /\ size = [e \in Entry |-> IF e \in Files THEN FileSize ELSE 0]
  BY <1>1 DEF StartWith
<1>3. /\ \A f, g \in Files : at[f] = at[g] => f = g
      /\ children = [e \in Entry |-> [n \in Name |->
           IF e = Root /\ \E f \in Files : at[f] = n
           THEN CHOOSE f \in Files : at[f] = n ELSE Nil]]
  BY <1>1 DEF StartWith
<1>4. replicas = [e \in Entry |-> IF e \in Files THEN addrs[e] \X {e} ELSE {}]
  BY <1>1 DEF StartWith
<1>5. \A e \in Entry : kind[e] = IF e = Root THEN "dir"
                                 ELSE IF e \in Files THEN "file" ELSE "free"
  BY <1>2, ConstFacts
<1>6. ASSUME NEW d \in Entry, NEW n \in Name
      PROVE  \/ children[d][n] = Nil
             \/ d = Root /\ children[d][n] \in Files /\ at[children[d][n]] = n
  BY <1>3
<1>7. TypeOK
  <2>1. kind \in [Entry -> {"free", "dir", "file"}]
    BY <1>2, <1>5
  <2>2. children \in [Entry -> [Name -> Entry \cup {Nil}]]
    BY <1>3, ConstFacts
  <2>3. /\ fileID \in [Entry -> Entry \cup {Nil}]
        /\ status \in [Entry -> Status \cup {"none"}]
    BY <1>2 DEF Status
  <2>4. size \in [Entry -> Size \cup {0}]
    BY <1>2, ConstFacts
  <2>5. replicas \in [Entry -> SUBSET (Addr \X Entry)]
    <3>1. \A e \in Entry : (IF e \in Files THEN addrs[e] \X {e} ELSE {})
                             \in SUBSET (Addr \X Entry)
      BY <1>4
    <3> QED
      BY <1>4, <3>1
  <2>6. \A e \in Entry : kind[e] = "file" <=> status[e] \in Status
    BY <1>2, <1>5, ConstFacts DEF Status
  <2> QED
    BY <2>1, <2>2, <2>3, <2>4, <2>5, <2>6 DEF TypeOK
<1>8. Linked
  BY <1>5, <1>6, ConstFacts, NamespaceAssumption DEF Linked
<1>9. OneParent
  BY <1>6, <1>3 DEF OneParent
<1>10. NoCycle
  <2> SUFFICES ASSUME NEW S \in SUBSET Entry, S # {}
               PROVE  \E e \in S : \A d \in S, n \in Name : children[d][n] # e
    BY DEF NoCycle
  <2>1. CASE Root \in S
    BY <1>6, <2>1, ConstFacts, NamespaceAssumption
  <2>2. CASE Root \notin S
    BY <1>6, <2>2, NamespaceAssumption
  <2> QED
    BY <2>1, <2>2
<1>11. UniqueIdentity
  <2>1. \A d \in Entry, n \in Name : children[d][n] # Nil =>
          d = Root /\ children[d][n] \in Files /\ at[children[d][n]] = n
            /\ fileID[children[d][n]] = children[d][n]
    BY <1>2, <1>6, ConstFacts
  <2>2. \A e \in Entry : kind[e] # "free" /\ e # Root =>
          fileID[e] \in Entry /\ kind[fileID[e]] # "free"
    BY <1>2, <1>5
  <2> QED
    BY <2>1, <2>2 DEF UniqueIdentity
<1>12. SameFiles
  BY <1>2, <1>5, ConstFacts DEF SameFiles
<1> QED
  BY <1>7, <1>8, <1>9, <1>10, <1>11, <1>12 DEF IInv

LEMMA InitRBase == RInit => RBase
<1> SUFFICES ASSUME RInit PROVE RBase
  OBVIOUS
<1>1. IInv /\ SameFiles
  BY InitTree
<1>2. NoTask \in Task
  BY ConstFacts DEF NoTask, Task
<1>3. rep = IdleRep /\ IdleRep \in Reps
  BY <1>2 DEF RInit, StartWith, IdleRep, Reps
<1>4. TasksOfFiles
  BY <1>3 DEF RInit, StartWith, TasksOfFiles, IdleRep
<1>5. content \in Contents
  <2>1. 0 \in Block /\ [i \in 1..FileSize |-> 0] \in Blocks /\ <<>> \in Blocks
    <3>1. 0 \in Block
      BY ConstFacts DEF Block
    <3>2. [i \in 1..FileSize |-> 0] \in [1..FileSize -> Block] /\ FileSize \in 0..MaxBlocks
      BY <3>1, ConstFacts
    <3>3. <<>> \in [1..0 -> Block] /\ 0 \in 0..MaxBlocks
      BY ConstFacts
    <3> QED
      BY <3>1, <3>2, <3>3 DEF Blocks
  <2>2. PICK stored \in [Files -> (SUBSET Addr) \ {{}}] :
          content = [n \in Addr |-> [f \in Entry |->
            IF f \in Files /\ n \in stored[f] THEN [i \in 1..FileSize |-> 0] ELSE <<>>]]
    BY DEF RInit, StartWith
  <2> QED
    BY <2>1, <2>2 DEF Contents
<1>6. handle \in [Handle -> HandleSet]
  <2>1. ClosedHandle \in HandleSet
    BY ConstFacts DEF ClosedHandle, HandleSet
  <2> QED
    BY <2>1 DEF RInit, StartWith
<1>7. RTypeOK
  <2>1. /\ dataNodes = Addr /\ removals = 0 /\ copies = {} /\ term = 0 /\ writes = 0
    BY DEF RInit, StartWith
  <2>2. rep.calls \subseteq rep.waiting
    BY <1>4 DEF TasksOfFiles
  <2> QED
    BY <1>1, <1>3, <1>5, <1>6, <2>1, <2>2, ConstFacts
       DEF RTypeOK, IInv, Contents, HandleSet, Reps
<1> QED
  BY <1>1, <1>4, <1>7 DEF RBase

----------------------------------------------------------------------------
(* RBase is inductive.                                                      *)

\* What RTypeOK says of each variable.
LEMMA TypeFacts ==
  ASSUME RBase
  PROVE  /\ IInv /\ SameFiles /\ TypeOK
         /\ content \in Contents /\ handle \in [Handle -> HandleSet]
         /\ copies \subseteq Copies /\ rep \in Reps
  BY DEF RBase, RTypeOK, TasksOfFiles, Contents, HandleSet, Copies

\* The tree under the replicator and under clients.
LEMMA RepairTree ==
  ASSUME RBase, [RNext]_rvars
  PROVE  IInv' /\ SameFiles' /\ kind' = kind /\ fileID' = fileID
<1> SUFFICES IInv' /\ kind' = kind /\ fileID' = fileID
  BY DEF RBase, SameFiles
<1> USE TypeFacts
<1>1. ASSUME UNCHANGED tree
      PROVE  IInv' /\ kind' = kind /\ fileID' = fileID
  BY <1>1, NextIInv DEF tree, vars
<1>2. ASSUME NEW t \in rep.tasks, NEW T \in SUBSET Addr, Mark(t, T)
      PROVE  IInv' /\ kind' = kind /\ fileID' = fileID
  <2>1. t.path \in Path
    BY DEF Reps, Task
  <2>2. UNCHANGED tree \/ applyUpdateStatus(t.path, "recovering")
    BY <1>2 DEF Mark
  <2> QED
    BY <1>1, <2>1, <2>2, StatusStep
<1>3. rep.task.path \in Path
  BY DEF Reps, Task
<1>4. ASSUME Commit
      PROVE  IInv' /\ kind' = kind /\ fileID' = fileID
  <2>1. rep.task.replicas \cup (rep.copied \X {rep.task.id}) \in SUBSET Replica
    <3>1. rep.task.id \in Entry
      BY <1>4, ConstFacts DEF Commit, RBase, TasksOfFiles
    <3> QED
      BY <3>1 DEF Reps, Task, Replica
  <2>2. \/ UNCHANGED tree
        \/ applyUpdateReplicas(rep.task.path,
             rep.task.replicas \cup (rep.copied \X {rep.task.id}))
    BY <1>4 DEF Commit
  <2> QED
    BY <1>1, <1>3, <2>1, <2>2, ReplicasStep
<1>5. ASSUME BackToComplete
      PROVE  IInv' /\ kind' = kind /\ fileID' = fileID
  <2>1. UNCHANGED tree \/ applyUpdateStatus(rep.task.path, "complete")
    BY <1>5 DEF BackToComplete
  <2> QED
    BY <1>1, <1>3, <2>1, StatusStep
<1>6. ASSUME NEW src \in Path, NEW dst \in Path, Rename(src, dst)
      PROVE  IInv' /\ kind' = kind /\ fileID' = fileID
  BY <1>6, RenameStep DEF Rename
<1>7. ASSUME NEW h \in Handle, WriteEnd(h)
      PROVE  IInv' /\ kind' = kind /\ fileID' = fileID
  <2>1. handle[h].path \in Path /\ handle[h].block \in 0..MaxBlocks
    BY DEF HandleSet
  <2>2. UNCHANGED tree \/ applyUpdateSize(handle[h].path, handle[h].block)
    BY <1>7 DEF WriteEnd
  <2> QED
    BY <1>1, <2>1, <2>2, SizeStep
<1>8. CASE ReplicatorStep
  <2>1. ASSUME NEW batch \in SUBSET Path, findUnderReplicatedTasks(batch)
        PROVE  UNCHANGED tree
    BY <2>1 DEF findUnderReplicatedTasks
  <2>2. ASSUME NEW n \in Addr, triggerReplicate(n) \/ CopyFails(n)
        PROVE  UNCHANGED tree
    BY <2>2 DEF triggerReplicate, CopyFails
  <2>3. Failover => UNCHANGED tree
    BY DEF Failover
  <2> QED
    BY <1>1, <1>2, <1>4, <1>5, <1>8, <2>1, <2>2, <2>3
       DEF ReplicatorStep, Complete, rollbackStatus
<1>9. CASE DataNodeStep
  <2>1. UNCHANGED tree
    BY <1>9 DEF DataNodeStep, sendHeartbeat, checkDataNodeHealth, ReplicateFile,
                ReplicateOpen, ReplicateChunk, ReplicateReply
  <2> QED
    BY <1>1, <2>1
<1>10. CASE HandleStep
  <2>1. ASSUME NEW h \in Handle,
               \/ \E p \in Path : Open(h, p)
               \/ \E i \in 1..MaxBlocks : WriteAt(h, i)
               \/ \E r \in Replica, ok \in BOOLEAN : PartialWrite(h, r, ok)
               \/ Close(h)
        PROVE  UNCHANGED tree
    BY <2>1 DEF Open, WriteAt, PartialWrite, Close
  <2> QED
    BY <1>1, <1>6, <1>7, <1>10, <2>1 DEF HandleStep
<1>11. CASE UNCHANGED rvars
  BY <1>1, <1>11 DEF rvars
<1> QED
  BY <1>8, <1>9, <1>10, <1>11 DEF RNext

\* What a scan puts into the batch.
LEMMA TaskOfScan ==
  ASSUME RBase, NEW p \in UnderReplicated
  PROVE  /\ p \in Path /\ lookup(p) \in Files /\ RepairTask(p) \in Task
         /\ RepairTask(p).id = lookup(p) /\ RepairTask(p).path = p
         /\ RepairTask(p).size = size[lookup(p)]
         /\ RepairTask(p).replicas = AliveReplicas(lookup(p))
<1>1. p \in Path /\ IsFile(lookup(p))
  BY DEF UnderReplicated
<1>2. lookup(p) \in Files /\ lookup(p) \in Entry
  BY <1>1, TypeFacts, LookupFile, ConstFacts
<1>3. fileID[lookup(p)] = lookup(p)
  BY <1>2, TypeFacts DEF SameFiles
<1>4. size[lookup(p)] \in 0..MaxBlocks /\ replicas[lookup(p)] \in SUBSET Replica
  BY <1>2, TypeFacts, ConstFacts DEF TypeOK, Replica
<1>5. AliveReplicas(lookup(p)) \in SUBSET Replica
  BY <1>4 DEF AliveReplicas
<1> QED
  BY <1>1, <1>2, <1>3, <1>4, <1>5 DEF RepairTask, Task

\* Leaving repairFile keeps the batch.
LEMMA LeaveFacts ==
  ASSUME rep \in Reps, NEW tasks \in SUBSET Task
  PROVE  /\ Leave(tasks) \in Reps
         /\ Leave(tasks).pc = "scan" /\ Leave(tasks).tasks = tasks
         /\ Leave(tasks).calls = {} /\ Leave(tasks).waiting = {}
         /\ Leave(tasks).copied = {} /\ Leave(tasks).task = NoTask
<1>1. NoTask \in Task
  BY ConstFacts DEF NoTask, Task
<1> QED
  BY <1>1 DEF Leave, IdleRep, Reps

\* The replicator and its calls.
LEMMA RepairCalls ==
  ASSUME RBase, [RNext]_rvars
  PROVE  TasksOfFiles' /\ copies' \subseteq Copies
<1> USE TypeFacts
<1>0. TasksOfFiles
  BY DEF RBase
<1>1. ASSUME UNCHANGED <<rep, copies>>
      PROVE  TasksOfFiles' /\ copies' \subseteq Copies
  BY <1>0, <1>1 DEF TasksOfFiles
<1>2. ASSUME NEW batch \in SUBSET Path, findUnderReplicatedTasks(batch)
      PROVE  TasksOfFiles' /\ copies' \subseteq Copies
  <2> DEFINE tasks == {RepairTask(p) : p \in batch}
  <2>1. /\ rep.pc = "scan" /\ copies' = copies /\ batch \subseteq UnderReplicated
        /\ rep' = [rep EXCEPT !.tasks = tasks, !.nodes = dataNodes]
    BY <1>2 DEF findUnderReplicatedTasks
  <2>2. tasks \subseteq Task /\ \A t \in tasks : t.id \in Files
    BY <2>1, TaskOfScan
  <2>3. dataNodes \in SUBSET Addr
    BY DEF RBase, RTypeOK
  <2> HIDE DEF tasks
  <2>4. /\ rep' \in Reps /\ rep'.pc = "scan" /\ rep'.tasks = tasks
        /\ rep'.calls = rep.calls /\ rep'.waiting = rep.waiting
    BY <2>1, <2>2, <2>3 DEF Reps
  <2> QED
    BY <1>0, <2>1, <2>2, <2>4 DEF TasksOfFiles
<1>3. ASSUME NEW t \in rep.tasks, NEW T \in SUBSET Addr, Mark(t, T)
      PROVE  TasksOfFiles' /\ copies' \subseteq Copies
  <2> DEFINE L == Leave(rep.tasks \ {t})
  <2>1. t \in Task /\ rep.tasks \ {t} \in SUBSET Task /\ t.id \in Files
    BY <1>0 DEF Reps, TasksOfFiles
  <2>2. L \in Reps /\ L.pc = "scan" /\ L.tasks = rep.tasks \ {t} /\ L.calls = {} /\ L.waiting = {}
    BY <2>1, LeaveFacts
  <2> HIDE DEF L
  <2>3. \/ rep' = [L EXCEPT !.pc = "rollback", !.task = t]
        \/ \E s \in t.replicas : rep' = [L EXCEPT !.pc = "copy", !.task = t,
                                           !.source = s, !.calls = T, !.waiting = T]
        \/ rep' = L
    BY <1>3 DEF Mark, L
  <2>4. rep.pc = "scan" /\ copies' = copies
    BY <1>3 DEF Mark
  <2>5. CASE rep' = L
    BY <1>0, <2>2, <2>4, <2>5 DEF TasksOfFiles
  <2>6. CASE rep' = [L EXCEPT !.pc = "rollback", !.task = t]
    <3>1. /\ rep' \in Reps /\ rep'.pc = "rollback" /\ rep'.tasks = L.tasks /\ rep'.task = t
          /\ rep'.calls = L.calls /\ rep'.waiting = L.waiting
      BY <2>1, <2>2, <2>6 DEF Reps
    <3> QED
      BY <1>0, <2>1, <2>2, <2>4, <3>1 DEF TasksOfFiles
  <2>7. ASSUME NEW s \in t.replicas,
               rep' = [L EXCEPT !.pc = "copy", !.task = t,
                         !.source = s, !.calls = T, !.waiting = T]
        PROVE  TasksOfFiles' /\ copies' \subseteq Copies
    <3>1. s \in Replica
      BY <2>1 DEF Task
    <3>2. /\ rep' \in Reps /\ rep'.pc = "copy" /\ rep'.tasks = L.tasks /\ rep'.task = t
          /\ rep'.calls = T /\ rep'.waiting = T /\ rep'.source = s
      BY <2>1, <2>2, <2>7, <3>1 DEF Reps
    <3> QED
      BY <1>0, <2>1, <2>2, <2>4, <3>1, <3>2 DEF TasksOfFiles
  <2> QED
    BY <2>3, <2>5, <2>6, <2>7
<1>4. ASSUME NEW n \in Addr, triggerReplicate(n)
      PROVE  TasksOfFiles' /\ copies' \subseteq Copies
  <2> DEFINE c == [to |-> n, from |-> rep.source, id |-> rep.task.id,
                   size |-> rep.task.size, off |-> -1, wanted |-> TRUE]
  <2>1. /\ rep.pc = "copy" /\ n \in rep.calls /\ copies' = copies \cup {c}
        /\ rep' = [rep EXCEPT !.calls = @ \ {n}]
    BY <1>4 DEF triggerReplicate, Call
  <2>2. c \in Copies /\ c.to = n /\ c.id = rep.task.id
    <3>1. rep.source \in Replica /\ rep.task.id \in Entry
      BY <1>0, <2>1, ConstFacts DEF TasksOfFiles
    <3>2. rep.task.size \in 0..MaxBlocks /\ -1 \in -1..MaxBlocks
      BY ConstFacts DEF Reps, Task
    <3> QED
      BY <3>1, <3>2 DEF Copies
  <2> HIDE DEF c
  <2>3. /\ rep' \in Reps /\ rep'.pc = rep.pc /\ rep'.tasks = rep.tasks /\ rep'.task = rep.task
        /\ rep'.calls = rep.calls \ {n} /\ rep'.waiting = rep.waiting /\ rep'.source = rep.source
    BY <2>1 DEF Reps
  <2> QED
    BY <1>0, <2>1, <2>2, <2>3 DEF TasksOfFiles
<1>5. ASSUME NEW n \in Addr, CopyFails(n)
      PROVE  TasksOfFiles' /\ copies' \subseteq Copies
  <2> DEFINE mine == {c \in copies : c.to = n /\ c.wanted}
  <2>1. /\ rep.pc = "copy"
        /\ copies' = copies \ mine \/ copies' = (copies \ mine) \cup Unwanted(mine)
        /\ rep' = [rep EXCEPT !.calls = @ \ {n}, !.waiting = @ \ {n}]
    BY <1>5 DEF CopyFails
  <2>2. /\ rep' \in Reps /\ rep'.pc = rep.pc /\ rep'.tasks = rep.tasks /\ rep'.task = rep.task
        /\ rep'.calls = rep.calls \ {n} /\ rep'.waiting = rep.waiting \ {n}
        /\ rep'.source = rep.source
    BY <2>1 DEF Reps
  <2>3. \A c \in Unwanted(mine) : c \in Copies /\ ~c.wanted
    BY DEF Unwanted, Copies
  <2>4. copies' \subseteq Copies
    BY <2>1, <2>3
  <2>5. \A c \in copies' : c.wanted => c \in copies /\ c.to # n
    BY <2>1, <2>3
  <2> QED
    BY <1>0, <2>2, <2>4, <2>5 DEF TasksOfFiles
<1>6. ASSUME Commit
      PROVE  TasksOfFiles' /\ copies' \subseteq Copies
  <2> DEFINE L == Leave(rep.tasks)
  <2>1. L \in Reps /\ L.pc = "scan" /\ L.tasks = rep.tasks /\ L.calls = {} /\ L.waiting = {}
    BY LeaveFacts DEF Reps
  <2> HIDE DEF L
  <2>2. /\ rep.pc = "copy" /\ rep.waiting = {} /\ copies' = copies
        /\ rep' = L \/ rep' = [L EXCEPT !.pc = "complete", !.task = rep.task]
    BY <1>6 DEF Commit, L
  <2>3. rep.task \in Task /\ rep.task.id \in Files
    BY <1>0, <2>2 DEF Reps, TasksOfFiles
  <2>4. \A c \in copies : ~c.wanted
    BY <1>0, <2>2 DEF TasksOfFiles
  <2>5. /\ rep' \in Reps /\ rep'.tasks = rep.tasks /\ rep'.calls = {} /\ rep'.waiting = {}
        /\ rep'.pc # "copy" /\ (rep'.pc # "scan" => rep'.task = rep.task)
    BY <2>1, <2>2, <2>3 DEF Reps
  <2> QED
    BY <1>0, <2>2, <2>3, <2>4, <2>5 DEF TasksOfFiles
<1>7. ASSUME Complete \/ rollbackStatus
      PROVE  TasksOfFiles' /\ copies' \subseteq Copies
  <2>1. rep.pc # "copy" /\ copies' = copies /\ rep' = Leave(rep.tasks)
    BY <1>7 DEF Complete, rollbackStatus, BackToComplete
  <2>2. /\ rep' \in Reps /\ rep'.pc = "scan" /\ rep'.tasks = rep.tasks
        /\ rep'.calls = {} /\ rep'.waiting = {}
    BY <2>1, LeaveFacts DEF Reps
  <2> QED
    BY <1>0, <2>1, <2>2 DEF TasksOfFiles
<1>8. ASSUME Failover
      PROVE  TasksOfFiles' /\ copies' \subseteq Copies
  <2>1. PICK sent \in SUBSET rep.calls :
          /\ rep.pc # "copy" => sent = {}
          /\ copies' = Unwanted(copies \cup {Call(n) : n \in sent})
    BY <1>8 DEF Failover
  <2>a. {Call(n) : n \in sent} \subseteq Copies
    <3> SUFFICES ASSUME NEW n \in sent PROVE Call(n) \in Copies
      OBVIOUS
    <3>1. n \in Addr /\ rep.pc = "copy"
      BY <2>1 DEF Reps
    <3>2. rep.source \in Replica /\ rep.task.id \in Entry
      BY <1>0, <3>1, ConstFacts DEF TasksOfFiles
    <3>3. rep.task.size \in 0..MaxBlocks /\ -1 \in -1..MaxBlocks
      BY ConstFacts DEF Reps, Task
    <3> QED
      BY <3>1, <3>2, <3>3 DEF Call, Copies
  <2>b. copies \cup {Call(n) : n \in sent} \subseteq Copies /\ rep' = IdleRep
    BY <1>8, <2>a DEF Failover
  <2>2. \A c \in copies' : c \in Copies /\ ~c.wanted
    BY <2>1, <2>b DEF Unwanted, Copies
  <2>3. NoTask \in Task
    BY ConstFacts DEF NoTask, Task
  <2>4. rep' \in Reps /\ rep'.pc = "scan" /\ rep'.tasks = {} /\ rep'.calls = {} /\ rep'.waiting = {}
    BY <2>b, <2>3 DEF IdleRep, Reps
  <2> QED
    BY <2>2, <2>4 DEF TasksOfFiles
<1>9. ASSUME NEW c \in copies, ReplicateFile(c)
      PROVE  TasksOfFiles' /\ copies' \subseteq Copies
  <2>1. c \in Copies /\ c.off \in -1..MaxBlocks /\ c.size \in 0..MaxBlocks
    BY DEF Copies
  <2>2. ASSUME NEW k \in -1..MaxBlocks, copies' = (copies \ {c}) \cup {[c EXCEPT !.off = k]},
               UNCHANGED rep
        PROVE  TasksOfFiles' /\ copies' \subseteq Copies
    <3> DEFINE d == [c EXCEPT !.off = k]
    <3>1. d \in Copies /\ d.wanted = c.wanted /\ d.to = c.to /\ d.id = c.id
      BY <2>1, <2>2 DEF Copies
    <3> HIDE DEF d
    <3>2. copies' = (copies \ {c}) \cup {d}
      BY <2>2 DEF d
    <3> QED
      BY <1>0, <2>2, <3>1, <3>2 DEF TasksOfFiles
  <2>3. CASE ReplicateOpen(c)
    <3>1. copies' = (copies \ {c}) \cup {[c EXCEPT !.off = 0]} /\ rep' = rep
          /\ 0 \in -1..MaxBlocks
      BY <2>3, ConstFacts DEF ReplicateOpen
    <3> QED
      BY <2>2, <3>1
  <2>4. CASE ReplicateChunk(c)
    <3>1. copies' = (copies \ {c}) \cup {[c EXCEPT !.off = c.off + 1]} /\ rep' = rep
          /\ c.off + 1 \in -1..MaxBlocks
      BY <2>1, <2>4, ConstFacts DEF ReplicateChunk
    <3> QED
      BY <2>2, <3>1
  <2>5. CASE ReplicateReply(c)
    <3>1. copies' = copies \ {c}
      BY <2>5 DEF ReplicateReply
    <3>2. CASE ~c.wanted
      <4>1. rep' = rep
        BY <2>5, <3>2 DEF ReplicateReply
      <4> QED
        BY <1>0, <3>1, <4>1 DEF TasksOfFiles
    <3>3. CASE c.wanted
      <4>1. rep' = [rep EXCEPT !.waiting = @ \ {c.to}, !.copied = @ \cup {c.to}]
        BY <2>5, <3>3 DEF ReplicateReply
      <4>2. c.to \in Addr /\ c.to \notin rep.calls
        BY <1>0, <2>1, <3>3 DEF Copies, TasksOfFiles
      <4>3. /\ rep' \in Reps /\ rep'.pc = rep.pc /\ rep'.tasks = rep.tasks
            /\ rep'.task = rep.task /\ rep'.source = rep.source
            /\ rep'.calls = rep.calls /\ rep'.waiting = rep.waiting \ {c.to}
        BY <4>1, <4>2 DEF Reps
      <4>4. ASSUME NEW d \in copies', d.wanted PROVE d.to # c.to
          BY <1>0, <3>1, <3>3, <4>4 DEF TasksOfFiles
      <4> QED
        BY <1>0, <3>1, <4>2, <4>3, <4>4 DEF TasksOfFiles
    <3> QED
      BY <3>2, <3>3
  <2> QED
    BY <1>9, <2>3, <2>4, <2>5 DEF ReplicateFile
<1>10. CASE ReplicatorStep
  BY <1>2, <1>3, <1>4, <1>5, <1>6, <1>7, <1>8, <1>10 DEF ReplicatorStep
<1>11. CASE DataNodeStep
  <2>1. ASSUME NEW n \in Addr, sendHeartbeat(n) \/ checkDataNodeHealth(n)
        PROVE  UNCHANGED <<rep, copies>>
    BY <2>1 DEF sendHeartbeat, checkDataNodeHealth
  <2> QED
    BY <1>1, <1>9, <1>11, <2>1 DEF DataNodeStep
<1>12. CASE HandleStep
  <2>1. UNCHANGED <<rep, copies>>
    BY <1>12, ZenonT(60) DEF HandleStep, Rename, Open, WriteAt, PartialWrite, WriteEnd, Close
  <2> QED
    BY <1>1, <2>1
<1>13. CASE UNCHANGED rvars
  BY <1>1, <1>13 DEF rvars
<1> QED
  BY <1>10, <1>11, <1>12, <1>13 DEF RNext

\* What a copy writes to its target.
LEMMA CopyStep ==
  ASSUME RBase, NEW c \in copies, ReplicateFile(c)
  PROVE  /\ content' \in Contents
         /\ \A m \in Addr, x \in Entry :
              ~(m = c.to /\ x = c.id) => content'[m][x] = content[m][x]
<1> USE TypeFacts
<1>1. c \in Copies
  OBVIOUS
<1>2. c.to \in Addr /\ c.id \in Entry /\ c.from \in Replica
  BY <1>1 DEF Copies
<1>a. ASSUME NEW b \in Blocks, NEW n \in Addr, NEW e \in Entry, n = c.to, e = c.id,
             content' = [content EXCEPT ![n][e] = b]
      PROVE  /\ content' \in Contents
             /\ \A m \in Addr, x \in Entry :
                  ~(m = c.to /\ x = c.id) => content'[m][x] = content[m][x]
  <2>1. content \in Contents
    OBVIOUS
  <2>2. /\ content' \in Contents
        /\ \A m \in Addr, x \in Entry :
             content'[m][x] = IF m = n /\ x = e THEN b ELSE content[m][x]
    BY ONLY <1>a, <2>1, ContentStep, ZenonT(60)
  <2> QED
    BY <1>a, <2>2
<1>3. CASE ReplicateOpen(c)
  <2>1. <<>> \in Blocks
    <3>1. <<>> \in [1..0 -> Block] /\ 0 \in 0..MaxBlocks
      BY ConstFacts
    <3> QED
      BY <3>1 DEF Blocks
  <2>2. content' = [content EXCEPT ![c.to][c.id] = <<>>]
    BY <1>3 DEF ReplicateOpen
  <2> QED
    BY <1>2, <1>a, <2>1, <2>2
<1>4. CASE ReplicateChunk(c)
  <2> DEFINE s == content[c.from[1]][c.from[2]]
             v == RangeRead(c.from, c.off)[1]
             b == WriteBlock(content[c.to][c.id], c.off + 1, v)
  <2>1. c.off \in 0..(c.size - 1) /\ c.off + 1 \in 0..MaxBlocks
    BY <1>1, <1>4, ConstFacts DEF ReplicateChunk, Copies
  <2>2. s \in Blocks /\ content[c.to][c.id] \in Blocks
    BY <1>2 DEF Contents, Replica
  <2>3. v \in Block
    <3>1. c.off < Len(s) /\ v = s[c.off + 1]
      BY <1>4 DEF ReplicateChunk, RangeRead
    <3>2. PICK k \in 0..MaxBlocks : s \in [1..k -> Block]
      BY <2>2 DEF Blocks
    <3>3. Len(s) = k
      BY <3>2, ConstFacts
    <3> QED
      BY <2>1, <3>1, <3>2, <3>3, ConstFacts
  <2>4. content' = [content EXCEPT ![c.to][c.id] = b]
    BY <1>4 DEF ReplicateChunk
  <2> HIDE DEF s, v
  <2>5. b \in Blocks
    BY <2>1, <2>2, <2>3, WriteBlockFacts
  <2> HIDE DEF b
  <2> QED
    BY <1>2, <1>a, <2>4, <2>5
<1>5. CASE ReplicateReply(c)
  BY <1>5 DEF ReplicateReply
<1> QED
  BY <1>3, <1>4, <1>5 DEF ReplicateFile

\* What a write of handle h does to replica r.
LEMMA WriteStep ==
  ASSUME RBase, NEW h \in Handle, NEW r \in Replica, NEW ok \in BOOLEAN,
         PartialWrite(h, r, ok)
  PROVE  /\ content' \in Contents
         /\ \A m \in Addr, x \in Entry :
              /\ Len(content'[m][x]) >= Len(content[m][x])
              /\ ok /\ r = <<m, x>> => Len(content'[m][x]) >= handle[h].block
<1> USE TypeFacts
<1>1. ASSUME NEW s \in Blocks PROVE Len(s) >= Len(s)
  <2>1. PICK k \in 0..MaxBlocks : s \in [1..k -> Block]
    BY DEF Blocks
  <2>2. Len(s) = k
    BY <2>1, ConstFacts
  <2> QED
    BY <2>2
<1>2. handle[h].block \in 0..MaxBlocks /\ handle[h].ver \in Block
  BY DEF HandleSet, Block
<1>3. CASE ok
  <2> DEFINE b == WriteBlock(content[r[1]][r[2]], handle[h].block, handle[h].ver)
  <2>1. r[1] \in Addr /\ r[2] \in Entry /\ content[r[1]][r[2]] \in Blocks
    BY DEF Contents, Replica
  <2>2. b \in Blocks /\ Len(b) >= handle[h].block /\ Len(b) >= Len(content[r[1]][r[2]])
    BY <1>2, <2>1, WriteBlockFacts
  <2>3. content' = [content EXCEPT ![r[1]][r[2]] = b]
    BY <1>3 DEF PartialWrite
  <2> HIDE DEF b
  <2>4. /\ content' \in Contents
        /\ \A m \in Addr, x \in Entry :
             content'[m][x] = IF m = r[1] /\ x = r[2] THEN b ELSE content[m][x]
    BY <2>1, <2>2, <2>3, ContentStep, ZenonT(60)
  <2>5. \A m \in Addr, x \in Entry : Len(content[m][x]) >= Len(content[m][x])
    BY <1>1 DEF Contents
  <2> QED
    BY <2>2, <2>4, <2>5
<1>4. CASE ~ok
  <2>1. content' = content
    BY <1>4 DEF PartialWrite
  <2>2. \A m \in Addr, x \in Entry : Len(content[m][x]) >= Len(content[m][x])
    BY <1>1 DEF Contents
  <2> QED
    BY <1>4, <2>1, <2>2
<1> QED
  BY <1>3, <1>4

\* Handles.
LEMMA HandlesTyped ==
  ASSUME RBase, [RNext]_rvars
  PROVE  handle' \in [Handle -> HandleSet] /\ writes' \in 0..MaxWrites
<1> USE TypeFacts
<1>0. writes \in 0..MaxWrites
  BY DEF RBase, RTypeOK
<1>1. ASSUME UNCHANGED clients
      PROVE  handle' \in [Handle -> HandleSet] /\ writes' \in 0..MaxWrites
  BY <1>0, <1>1 DEF clients
<1>2. ASSUME NEW h \in Handle, NEW p \in Path, Open(h, p)
      PROVE  handle' \in [Handle -> HandleSet] /\ writes' \in 0..MaxWrites
  <2> DEFINE e == lookup(p)
             o == [ClosedHandle EXCEPT !.pc = "open", !.path = p,
                                       !.replicas = replicas[e], !.size = size[e]]
  <2>1. e \in Entry
    BY <1>2, LookupFile, ConstFacts DEF Open
  <2>2. replicas[e] \in SUBSET Replica /\ size[e] \in 0..MaxBlocks
    BY <2>1, ConstFacts DEF TypeOK, Replica
  <2>3. handle' = [handle EXCEPT ![h] = o] /\ writes' = writes
    BY <1>2 DEF Open
  <2> HIDE DEF e
  <2>4. o \in HandleSet
    <3>1. ClosedHandle \in HandleSet
      BY ConstFacts DEF ClosedHandle, HandleSet
    <3> QED
      BY <2>2, <3>1 DEF HandleSet
  <2> HIDE DEF o
  <2> QED
    BY <1>0, <2>3, <2>4
<1>3. ASSUME NEW h \in Handle, NEW i \in 1..MaxBlocks, WriteAt(h, i)
      PROVE  handle' \in [Handle -> HandleSet] /\ writes' \in 0..MaxWrites
  <2>1. handle[h] \in HandleSet /\ writes + 1 \in 0..MaxWrites /\ writes' = writes + 1
    BY <1>0, <1>3, ConstFacts DEF WriteAt
  <2> DEFINE x == [handle[h] EXCEPT !.pc = "writing", !.block = i, !.ver = writes + 1,
                                    !.todo = handle[h].replicas, !.ok = TRUE]
  <2>2. handle' = [handle EXCEPT ![h] = x]
    BY <1>3 DEF WriteAt
  <2>3. i \in 0..MaxBlocks
    BY ConstFacts
  <2>4. x \in HandleSet
    BY <2>1, <2>3 DEF HandleSet
  <2> HIDE DEF x
  <2> QED
    BY <2>1, <2>2, <2>4
<1>4. ASSUME NEW h \in Handle, NEW r \in Replica, NEW ok \in BOOLEAN, PartialWrite(h, r, ok)
      PROVE  handle' \in [Handle -> HandleSet] /\ writes' \in 0..MaxWrites
  <2>1. handle[h] \in HandleSet
    OBVIOUS
  <2>2. /\ handle' = [handle EXCEPT ![h] = [handle[h] EXCEPT !.todo = @ \ {r}, !.ok = @ /\ ok]]
        /\ writes' = writes
    BY <1>4 DEF PartialWrite
  <2> QED
    BY <1>0, <2>1, <2>2 DEF HandleSet
<1>5. ASSUME NEW h \in Handle, WriteEnd(h)
      PROVE  handle' \in [Handle -> HandleSet] /\ writes' \in 0..MaxWrites
  <2>1. handle[h] \in HandleSet /\ writes' = writes
    BY <1>5 DEF WriteEnd
  <2>2. PICK k : /\ k \in {handle[h].block, handle[h].size}
                 /\ handle' = [handle EXCEPT ![h].pc = "open", ![h].block = 0,
                                             ![h].ver = 0, ![h].size = k]
    BY <1>5 DEF WriteEnd
  <2>3. k \in 0..MaxBlocks
    BY <2>1, <2>2 DEF HandleSet
  <2> DEFINE x == [handle[h] EXCEPT !.pc = "open", !.block = 0, !.ver = 0, !.size = k]
  <2>4. handle' = [handle EXCEPT ![h] = x]
    BY <2>2
  <2>5. 0 \in 0..MaxBlocks /\ 0 \in 0..MaxWrites
    BY ConstFacts
  <2>6. x \in HandleSet
    BY <2>1, <2>3, <2>5 DEF HandleSet
  <2> HIDE DEF x
  <2> QED
    BY <1>0, <2>1, <2>4, <2>6
<1>6. ASSUME NEW h \in Handle, Close(h)
      PROVE  handle' \in [Handle -> HandleSet] /\ writes' \in 0..MaxWrites
  <2>1. ClosedHandle \in HandleSet
    BY ConstFacts DEF ClosedHandle, HandleSet
  <2> QED
    BY <1>0, <1>6, <2>1 DEF Close
<1>7. CASE ReplicatorStep
  <2>1. UNCHANGED clients
    BY <1>7 DEF ReplicatorStep, findUnderReplicatedTasks, Mark, triggerReplicate, CopyFails,
                Commit, Complete, rollbackStatus, BackToComplete, Failover
  <2> QED
    BY <1>1, <2>1
<1>8. CASE DataNodeStep
  <2>1. UNCHANGED clients
    BY <1>8 DEF DataNodeStep, sendHeartbeat, checkDataNodeHealth, ReplicateFile,
                ReplicateOpen, ReplicateChunk, ReplicateReply
  <2> QED
    BY <1>1, <2>1
<1>9. CASE HandleStep
  <2>1. ASSUME NEW src \in Path, NEW dst \in Path, Rename(src, dst)
        PROVE  UNCHANGED clients
    BY <2>1 DEF Rename
  <2> QED
    BY <1>1, <1>2, <1>3, <1>4, <1>5, <1>6, <1>9, <2>1 DEF HandleStep
<1>10. CASE UNCHANGED rvars
  BY <1>1, <1>10 DEF rvars
<1> QED
  BY <1>7, <1>8, <1>9, <1>10 DEF RNext

LEMMA NextRBase == RBase /\ [RNext]_rvars => RBase'
<1> SUFFICES ASSUME RBase, [RNext]_rvars PROVE RBase'
  OBVIOUS
<1> USE TypeFacts
<1>1. IInv' /\ SameFiles'
  BY RepairTree
<1>2. TasksOfFiles' /\ copies' \subseteq Copies
  BY RepairCalls
<1>3. handle' \in [Handle -> HandleSet] /\ writes' \in 0..MaxWrites
  BY HandlesTyped
<1>4. content' \in Contents
  <2>1. ASSUME UNCHANGED content PROVE content' \in Contents
    BY <2>1
  <2>2. ReplicatorStep => UNCHANGED content
    BY DEF ReplicatorStep, findUnderReplicatedTasks, Mark, triggerReplicate, CopyFails,
           Commit, Complete, rollbackStatus, BackToComplete, Failover
  <2>3. ASSUME NEW n \in Addr, sendHeartbeat(n) \/ checkDataNodeHealth(n)
        PROVE  UNCHANGED content
    BY <2>3 DEF sendHeartbeat, checkDataNodeHealth
  <2>4. ASSUME NEW src \in Path, NEW dst \in Path, Rename(src, dst)
        PROVE  UNCHANGED content
    BY <2>4 DEF Rename
  <2>5. ASSUME NEW h \in Handle,
               \/ \E p \in Path : Open(h, p)
               \/ \E i \in 1..MaxBlocks : WriteAt(h, i)
               \/ WriteEnd(h)
               \/ Close(h)
        PROVE  UNCHANGED content
    BY <2>5 DEF Open, WriteAt, WriteEnd, Close
  <2>6. DataNodeStep => content' \in Contents
    BY <2>1, <2>3, CopyStep DEF DataNodeStep
  <2>7. HandleStep => content' \in Contents
    BY <2>1, <2>4, <2>5, WriteStep DEF HandleStep
  <2>8. UNCHANGED rvars => UNCHANGED content
    BY DEF rvars
  <2> QED
    BY <2>1, <2>2, <2>6, <2>7, <2>8 DEF RNext
<1>5. dataNodes' \in SUBSET Addr /\ removals' \in 0..MaxRemovals /\ term' \in 0..MaxTerm
  <2>0. dataNodes \in SUBSET Addr /\ removals \in 0..MaxRemovals /\ term \in 0..MaxTerm
    BY DEF RBase, RTypeOK
  <2>1. ReplicatorStep => UNCHANGED <<dataNodes, removals>> /\ term' \in 0..MaxTerm
    <3>1. Failover => UNCHANGED <<dataNodes, removals>> /\ term' \in 0..MaxTerm
      BY <2>0, ConstFacts DEF Failover
    <3>2. ReplicatorStep /\ ~Failover => UNCHANGED <<dataNodes, removals, term>>
      BY DEF ReplicatorStep, findUnderReplicatedTasks, Mark, triggerReplicate, CopyFails,
             Commit, Complete, rollbackStatus, BackToComplete
    <3> QED
      BY <2>0, <3>1, <3>2
  <2>2. HandleStep => UNCHANGED <<dataNodes, removals, term>>
    BY ZenonT(60) DEF HandleStep, Rename, Open, WriteAt, PartialWrite, WriteEnd, Close
  <2>3. ASSUME NEW n \in Addr, sendHeartbeat(n)
        PROVE  dataNodes' \in SUBSET Addr /\ UNCHANGED <<removals, term>>
    BY <2>0, <2>3 DEF sendHeartbeat, applyHeartbeat
  <2>4. ASSUME NEW n \in Addr, checkDataNodeHealth(n)
        PROVE  dataNodes' \in SUBSET Addr /\ removals' \in 0..MaxRemovals /\ term' = term
    BY <2>0, <2>4, ConstFacts DEF checkDataNodeHealth, applyRemoveDataNode
  <2>5. ASSUME NEW c \in copies, ReplicateFile(c)
        PROVE  UNCHANGED <<dataNodes, removals, term>>
    BY <2>5 DEF ReplicateFile, ReplicateOpen, ReplicateChunk, ReplicateReply
  <2>6. UNCHANGED rvars => UNCHANGED <<dataNodes, removals, term>>
    BY DEF rvars
  <2> QED
    BY <2>0, <2>1, <2>2, <2>3, <2>4, <2>5, <2>6 DEF RNext, DataNodeStep
<1>6. /\ rep'.pc \in {"scan", "mark", "copy", "complete", "rollback"}
      /\ rep'.tasks \subseteq Task /\ rep'.task \in Task
      /\ rep'.nodes \subseteq Addr /\ rep'.source \in Replica \cup {<<>>}
      /\ rep'.calls \subseteq rep'.waiting
      /\ rep'.waiting \cup rep'.copied \subseteq Addr
  BY <1>2 DEF TasksOfFiles, Reps
<1>7. RTypeOK'
  BY <1>1, <1>2, <1>3, <1>4, <1>5, <1>6 DEF RTypeOK, IInv, Contents, HandleSet, Copies
<1> QED
  BY <1>1, <1>2, <1>7 DEF RBase

\* RBase holds in every reachable state.
LEMMA RBaseHolds == RSpec => []RBase
  BY InitRBase, NextRBase, PTL DEF RSpec

\* Every variable of re-replication stays in its type, whatever overlaps:
\* copies only run between data nodes, for files that exist, and no block is
\* written beyond the longest file.
THEOREM RepairTypeCorrect == RSpec => []RTypeOK
<1>1. RBase => RTypeOK
  BY DEF RBase
<1> QED
  BY <1>1, RBaseHolds, PTL

----------------------------------------------------------------------------
(* One replica of every file survives.                                      *)

\* No rename lets a path lead to another file.
OneFile == ~Renames \/ \A f, g \in Files : f = g

\* A path leads to f, or led there when the handle was opened.
Names(p, f) == Renames \/ lookup(p) = f

\* What the replicator is to do and what it is doing.
Tasks == rep.tasks \cup (IF rep.pc = "scan" THEN {} ELSE {rep.task})

Listed(n, f) == <<n, f>> \in replicas[f] /\ Len(content[n][f]) >= size[f]

\* The replicator keeps the replica on n, and copies nothing over it.
Kept(n, f) ==
  /\ \A c \in copies : ~(c.to = n /\ c.id = f)
  /\ \A t \in Tasks : t.id = f => <<n, f>> \in t.replicas
  /\ rep.task.id = f => n \notin rep.calls \cup rep.waiting \cup rep.copied

\* Every handle of f writes to the replica on n.
Written(n, f) ==
  \A h \in Handle, p \in Path :
    handle[h].pc # "closed" /\ handle[h].path = p /\ Names(p, f) =>
      /\ <<n, f>> \in handle[h].replicas
      /\ handle[h].pc = "writing" /\ handle[h].ok /\ <<n, f>> \notin handle[h].todo
           => Len(content[n][f]) >= handle[h].block

Safe(n, f) == Listed(n, f) /\ Kept(n, f) /\ Written(n, f)

\* The path of a task still leads to its file.
TaskOf == \A t \in Tasks : lookup(t.path) # Nil => t.id = lookup(t.path)

\* Before the first removal there is nothing to repair.
Quiet ==
  removals = 0 =>
    /\ dataNodes = Addr /\ copies = {} /\ rep = IdleRep
    /\ \A f \in Files :
         /\ Cardinality(replicas[f]) = ReplicaCount
         /\ \A r \in replicas[f] : r[2] = f /\ Safe(r[1], f)

\* After it, a registered node has all that the metadata says of a file.
Survivor == removals = 1 => \A f \in Files : \E n \in dataNodes : Safe(n, f)

SInv == RBase /\ TaskOf /\ Quiet /\ Survivor

\* The heap is fixed without renames.
LEMMA SameHeap ==
  ASSUME RBase, [RNext]_rvars, ~Renames
  PROVE  \A p \in Path : lookup(p)' = lookup(p)
<1>1. children' = children
  <2>1. ReplicatorStep => children' = children
    BY DEF ReplicatorStep, findUnderReplicatedTasks, Mark, triggerReplicate, CopyFails,
           Commit, Complete, rollbackStatus, BackToComplete, Failover, tree,
           applyUpdateStatus, applyUpdateReplicas
  <2>2. DataNodeStep => children' = children
    BY DEF DataNodeStep, sendHeartbeat, checkDataNodeHealth, ReplicateFile,
           ReplicateOpen, ReplicateChunk, ReplicateReply, tree
  <2>3. HandleStep => children' = children
    BY ZenonT(60) DEF HandleStep, Rename, Open, WriteAt, PartialWrite, WriteEnd, Close, tree,
           applyUpdateSize
  <2>4. UNCHANGED rvars => children' = children
    BY DEF rvars, tree
  <2> QED
    BY <2>1, <2>2, <2>3, <2>4 DEF RNext
<1>2. kind' = kind
  BY RepairTree
<1> QED
  BY <1>1, <1>2, HeapSameLookup

TypedTasks == \A t \in Tasks : t \in Task /\ t.path \in Path /\ t.id \in Files

FilePaths == \A p \in Path : lookup(p) # Nil => lookup(p) \in Files

LEMMA TasksTyped == TasksOfFiles => TypedTasks
  BY DEF TypedTasks, TasksOfFiles, Tasks, Reps, Task

LEMMA PathsOfFiles == IInv /\ SameFiles => FilePaths
  BY LookupFile DEF FilePaths

\* Tasks are only made by the scan, and done one after the other.
LEMMA TasksStep ==
  ASSUME RBase, [RNext]_rvars
  PROVE  \/ Tasks' \subseteq Tasks
         \/ /\ rep.pc = "scan" /\ rep'.pc = "scan"
            /\ UNCHANGED <<tree, dataNodes, copies, handle, content>>
            /\ rep'.task = rep.task /\ rep'.calls = rep.calls
            /\ rep'.waiting = rep.waiting /\ rep'.copied = rep.copied
            /\ \A t \in Tasks' : \E p \in UnderReplicated : t = RepairTask(p)
<1> USE TypeFacts
<1>1. ASSUME UNCHANGED rep PROVE Tasks' \subseteq Tasks
  BY <1>1 DEF Tasks
<1>2. ASSUME NEW tasks \in SUBSET rep.tasks, rep' = Leave(tasks)
      PROVE  Tasks' \subseteq Tasks
  <2>1. rep'.tasks = tasks /\ rep'.pc = "scan"
    BY <1>2, LeaveFacts DEF Reps
  <2> QED
    BY <2>1 DEF Tasks
<1>3. ASSUME NEW t \in rep.tasks, NEW T \in SUBSET Addr, Mark(t, T)
      PROVE  Tasks' \subseteq Tasks
  <2> DEFINE L == Leave(rep.tasks \ {t})
  <2>1. L.tasks = rep.tasks \ {t} /\ L \in Reps
    BY LeaveFacts DEF Reps
  <2> HIDE DEF L
  <2>2. \/ rep' = [L EXCEPT !.pc = "rollback", !.task = t]
        \/ \E s \in t.replicas : rep' = [L EXCEPT !.pc = "copy", !.task = t,
                                           !.source = s, !.calls = T, !.waiting = T]
        \/ rep' = L
    BY <1>3 DEF Mark, L
  <2>3. CASE rep' = L
    BY <1>2, <2>3 DEF L
  <2>4. CASE rep' # L
    <3>1. rep'.tasks = rep.tasks \ {t} /\ rep'.task = t
      BY <2>1, <2>2, <2>4 DEF Reps
    <3> QED
      BY <3>1 DEF Tasks
  <2> QED
    BY <2>3, <2>4
<1>4. ASSUME Commit PROVE Tasks' \subseteq Tasks
  <2> DEFINE L == Leave(rep.tasks)
  <2>1. L.tasks = rep.tasks /\ L \in Reps
    BY LeaveFacts DEF Reps
  <2> HIDE DEF L
  <2>2. /\ rep.pc = "copy"
        /\ rep' = L \/ rep' = [L EXCEPT !.pc = "complete", !.task = rep.task]
    BY <1>4 DEF Commit, L
  <2>3. CASE rep' = L
    BY <1>2, <2>3 DEF L
  <2>4. CASE rep' # L
    <3>1. rep'.tasks = rep.tasks /\ rep'.task = rep.task
      BY <2>1, <2>2, <2>4 DEF Reps
    <3> QED
      BY <2>2, <3>1 DEF Tasks
  <2> QED
    BY <2>3, <2>4
<1>5. ASSUME Failover PROVE Tasks' \subseteq Tasks
  BY <1>5 DEF Failover, IdleRep, Tasks
<1>6. ASSUME BackToComplete PROVE Tasks' \subseteq Tasks
  BY <1>2, <1>6 DEF BackToComplete
<1>7. ASSUME NEW n \in Addr, triggerReplicate(n) \/ CopyFails(n)
      PROVE  Tasks' \subseteq Tasks
  <2>1. rep'.tasks = rep.tasks /\ rep'.task = rep.task /\ rep'.pc = rep.pc
    BY <1>7 DEF triggerReplicate, CopyFails, Reps
  <2> QED
    BY <2>1 DEF Tasks
<1>8. ASSUME NEW batch \in SUBSET Path, findUnderReplicatedTasks(batch)
      PROVE  /\ rep.pc = "scan" /\ rep'.pc = "scan"
             /\ UNCHANGED <<tree, dataNodes, copies, handle, content>>
             /\ rep'.task = rep.task /\ rep'.calls = rep.calls
             /\ rep'.waiting = rep.waiting /\ rep'.copied = rep.copied
             /\ \A t \in Tasks' : \E p \in UnderReplicated : t = RepairTask(p)
  <2> DEFINE tasks == {RepairTask(p) : p \in batch}
  <2>1. /\ rep.pc = "scan" /\ batch \subseteq UnderReplicated
        /\ rep' = [rep EXCEPT !.tasks = tasks, !.nodes = dataNodes]
        /\ UNCHANGED <<tree, dataNodes, copies, handle, content>>
    BY <1>8 DEF findUnderReplicatedTasks, clients
  <2>2. \A t \in tasks : \E p \in UnderReplicated : t = RepairTask(p)
    BY <2>1
  <2> HIDE DEF tasks
  <2>3. /\ rep'.pc = "scan" /\ rep'.tasks = tasks
        /\ rep'.task = rep.task /\ rep'.calls = rep.calls
        /\ rep'.waiting = rep.waiting /\ rep'.copied = rep.copied
    BY <2>1 DEF Reps
  <2> QED
    BY <2>1, <2>2, <2>3 DEF Tasks
<1>9. ASSUME NEW c \in copies, ReplicateFile(c) PROVE Tasks' \subseteq Tasks
  <2>1. rep'.tasks = rep.tasks /\ rep'.task = rep.task /\ rep'.pc = rep.pc
    BY <1>9 DEF ReplicateFile, ReplicateOpen, ReplicateChunk, ReplicateReply, Reps
  <2> QED
    BY <2>1 DEF Tasks
<1>10. ASSUME NEW n \in Addr, sendHeartbeat(n) \/ checkDataNodeHealth(n)
       PROVE  UNCHANGED rep
  BY <1>10 DEF sendHeartbeat, checkDataNodeHealth
<1>11. HandleStep => UNCHANGED rep
  BY ZenonT(60) DEF HandleStep, Rename, Open, WriteAt, PartialWrite, WriteEnd, Close
<1>12. UNCHANGED rvars => UNCHANGED rep
  BY DEF rvars
<1>13. CASE ReplicatorStep
  BY <1>3, <1>4, <1>5, <1>6, <1>7, <1>8, <1>13
     DEF ReplicatorStep, Complete, rollbackStatus
<1>14. CASE ~ReplicatorStep
  BY <1>1, <1>9, <1>10, <1>11, <1>12, <1>14 DEF RNext, DataNodeStep
<1> QED
  BY <1>13, <1>14

LEMMA NextTaskOf ==
  ASSUME RBase, TaskOf, [RNext]_rvars, OneFile
  PROVE  TaskOf'
<1>1. IInv' /\ SameFiles' /\ TasksOfFiles'
  BY RepairTree, RepairCalls
<1>2. TypedTasks'
  BY <1>1, TasksTyped, PTL
<1>3. CASE Renames
  <2>1. FilePaths'
    BY <1>1, PathsOfFiles, PTL
  <2> QED
    BY <1>2, <1>3, <2>1 DEF TaskOf, OneFile, TypedTasks, FilePaths
<1>4. CASE ~Renames
  <2>1. \A p \in Path : lookup(p)' = lookup(p)
    BY <1>4, SameHeap
  <2>2. ASSUME NEW t \in Tasks', lookup(t.path) # Nil PROVE t.id = lookup(t.path)
    <3>1. CASE t \in Tasks
      BY <2>2, <3>1 DEF TaskOf
    <3>2. CASE t \notin Tasks
      <4>1. PICK p \in UnderReplicated : t = RepairTask(p)
        BY <2>2, <3>2, TasksStep
      <4> QED
        BY <4>1, TaskOfScan
    <3> QED
      BY <3>1, <3>2
  <2> QED
    BY <1>2, <2>1, <2>2 DEF TaskOf, TypedTasks
<1> QED
  BY <1>3, <1>4

\* Nothing takes the replica off the list, cuts it, or moves the size ahead
\* of it: copies go elsewhere, a commit keeps what the scan found alive, and
\* the size follows only a write that every replica of the handle took.
LEMMA StaysListed ==
  ASSUME RBase, TaskOf, [RNext]_rvars, OneFile,
         NEW n \in Addr, NEW f \in Files, Safe(n, f)
  PROVE  Listed(n, f)'
<1> USE TypeFacts
<1>0. f \in Entry /\ content[n][f] \in Blocks /\ size[f] \in 0..MaxBlocks
  BY ConstFacts DEF Contents, TypeOK
<1>1. <<n, f>> \in replicas[f] /\ Len(content[n][f]) >= size[f]
  BY DEF Safe, Listed
<1>2. ASSUME replicas' = replicas, size' = size, content'[n][f] = content[n][f]
      PROVE  Listed(n, f)'
  BY <1>1, <1>2 DEF Listed
<1>3. ASSUME NEW t \in rep.tasks, NEW T \in SUBSET Addr, Mark(t, T)
      PROVE  Listed(n, f)'
  BY <1>2, <1>3 DEF Mark, applyUpdateStatus, tree
<1>4. ASSUME Commit PROVE Listed(n, f)'
  <2>1. content' = content /\ rep.pc = "copy"
    BY <1>4 DEF Commit
  <2>2. CASE UNCHANGED tree
    BY <1>2, <2>1, <2>2 DEF tree
  <2>3. CASE ~UNCHANGED tree
    <3> DEFINE t == rep.task
               list == t.replicas \cup (rep.copied \X {t.id})
    <3>1. applyUpdateReplicas(t.path, list)
      BY <1>4, <2>3 DEF Commit
    <3>2. t \in Tasks /\ t.path \in Path /\ t.id \in Files
      <4>1. t \in Tasks
        BY <2>1 DEF Tasks
      <4> QED
        BY <4>1, TasksTyped DEF RBase, TypedTasks
    <3>3. list \in SUBSET Replica
      BY <3>2, ConstFacts DEF Reps, Task, Replica
    <3> HIDE DEF list
    <3>4. /\ size' = size /\ lookup(t.path) \in Files
          /\ \A e \in Entry : replicas'[e] = IF e = lookup(t.path) THEN list ELSE replicas[e]
      BY <3>1, <3>2, <3>3, ReplicasStep
    <3>5. lookup(t.path) # Nil
      BY <3>4, ConstFacts, NamespaceAssumption
    <3>6. t.id = lookup(t.path)
      BY <3>2, <3>5 DEF TaskOf
    <3>7. lookup(t.path) = f => <<n, f>> \in list
      BY <3>2, <3>6 DEF Safe, Kept, list
    <3>8. <<n, f>> \in replicas'[f]
      BY <1>0, <1>1, <3>4, <3>7
    <3> QED
      BY <1>1, <2>1, <3>4, <3>8 DEF Listed
  <2> QED
    BY <2>2, <2>3
<1>5. ASSUME BackToComplete PROVE Listed(n, f)'
  BY <1>2, <1>5 DEF BackToComplete, applyUpdateStatus, tree
<1>6. ASSUME NEW c \in copies, ReplicateFile(c) PROVE Listed(n, f)'
  <2>1. ~(n = c.to /\ f = c.id)
    BY DEF Safe, Kept
  <2>2. content'[n][f] = content[n][f]
    BY <1>0, <1>6, <2>1, CopyStep
  <2>3. UNCHANGED tree
    BY <1>6 DEF ReplicateFile, ReplicateOpen, ReplicateChunk, ReplicateReply
  <2> QED
    BY <1>2, <2>2, <2>3 DEF tree
<1>7. ASSUME NEW src \in Path, NEW dst \in Path, Rename(src, dst)
      PROVE  Listed(n, f)'
  BY <1>2, <1>7 DEF Rename, applyRename, data
<1>8. ASSUME NEW h \in Handle, NEW r \in Replica, NEW ok \in BOOLEAN, PartialWrite(h, r, ok)
      PROVE  Listed(n, f)'
  <2>1. content' \in Contents /\ Len(content'[n][f]) >= Len(content[n][f])
    BY <1>0, <1>8, WriteStep
  <2>2. Len(content'[n][f]) \in Nat /\ Len(content[n][f]) \in Nat
    <3>1. content'[n][f] \in Blocks
      BY <1>0, <2>1 DEF Contents
    <3>2. \A s \in Blocks : Len(s) \in Nat
      BY LenOfBlocks, ConstFacts
    <3> QED
      BY <1>0, <3>1, <3>2
  <2>3. replicas' = replicas /\ size' = size
    BY <1>8 DEF PartialWrite, tree
  <2>4. Len(content'[n][f]) >= size[f]
    BY <1>0, <1>1, <2>1, <2>2
  <2> QED
    BY <1>1, <2>3, <2>4 DEF Listed
<1>9. ASSUME NEW h \in Handle, WriteEnd(h) PROVE Listed(n, f)'
  <2> DEFINE end == handle[h].block
             p == handle[h].path
  <2>1. content' = content
    BY <1>9 DEF WriteEnd
  <2>2. CASE UNCHANGED tree
    BY <1>2, <2>1, <2>2 DEF tree
  <2>3. CASE ~UNCHANGED tree
    <3>1. /\ applyUpdateSize(p, end) /\ handle[h].pc = "writing"
          /\ handle[h].ok /\ handle[h].todo = {}
      BY <1>9, <2>3 DEF WriteEnd
    <3>2. p \in Path /\ end \in 0..MaxBlocks
      BY DEF HandleSet
    <3>3. /\ replicas' = replicas
          /\ \A e \in Entry : size'[e] = IF e = lookup(p) THEN end ELSE size[e]
      BY <3>1, <3>2, SizeStep
    <3>4. lookup(p) = f => Len(content[n][f]) >= end
      <4>1. lookup(p) = f => Names(p, f)
        BY DEF Names
      <4> QED
        BY <3>1, <3>2, <4>1 DEF Safe, Written
    <3> QED
      BY <1>0, <1>1, <2>1, <3>3, <3>4 DEF Listed
  <2> QED
    BY <2>2, <2>3
<1>10. CASE ReplicatorStep
  <2>1. ASSUME NEW batch \in SUBSET Path, findUnderReplicatedTasks(batch)
        PROVE  Listed(n, f)'
    BY <1>2, <2>1 DEF findUnderReplicatedTasks, tree
  <2>2. ASSUME NEW m \in Addr, triggerReplicate(m) \/ CopyFails(m)
        PROVE  Listed(n, f)'
    BY <1>2, <2>2 DEF triggerReplicate, CopyFails, tree
  <2>3. Failover => Listed(n, f)'
    BY <1>2 DEF Failover, tree
  <2> QED
    BY <1>3, <1>4, <1>5, <1>10, <2>1, <2>2, <2>3
       DEF ReplicatorStep, Complete, rollbackStatus
<1>11. CASE DataNodeStep
  <2>1. ASSUME NEW m \in Addr, sendHeartbeat(m) \/ checkDataNodeHealth(m)
        PROVE  Listed(n, f)'
    BY <1>2, <2>1 DEF sendHeartbeat, checkDataNodeHealth, tree
  <2> QED
    BY <1>6, <1>11, <2>1 DEF DataNodeStep
<1>12. CASE HandleStep
  <2>1. ASSUME NEW h \in Handle,
               \/ \E p \in Path : Open(h, p)
               \/ \E i \in 1..MaxBlocks : WriteAt(h, i)
               \/ Close(h)
        PROVE  Listed(n, f)'
    BY <1>2, <2>1 DEF Open, WriteAt, Close, tree
  <2> QED
    BY <1>7, <1>8, <1>9, <1>12, <2>1 DEF HandleStep
<1>13. CASE UNCHANGED rvars
  BY <1>2, <1>13 DEF rvars, tree
<1> QED
  BY <1>10, <1>11, <1>12, <1>13 DEF RNext

\* The replicator goes on keeping the replica, as long as its scans find the
\* node registered.
LEMMA StaysKept ==
  ASSUME RBase, [RNext]_rvars, NEW n \in Addr, NEW f \in Files, Safe(n, f),
         n \in dataNodes \/ ~ReplicatorStep
  PROVE  Kept(n, f)'
<1> USE TypeFacts
<1>0. /\ \A c \in copies : ~(c.to = n /\ c.id = f)
      /\ \A t \in Tasks : t.id = f => <<n, f>> \in t.replicas
      /\ rep.task.id = f => n \notin rep.calls \cup rep.waiting \cup rep.copied
      /\ <<n, f>> \in replicas[f] /\ f \in Entry
  BY ConstFacts DEF Safe, Kept, Listed
<1>1. \A t \in Tasks' : t.id = f => <<n, f>> \in t.replicas
  <2>1. CASE Tasks' \subseteq Tasks
    BY <1>0, <2>1
  <2>2. CASE ~(Tasks' \subseteq Tasks)
    <3>1. /\ \A t \in Tasks' : \E p \in UnderReplicated : t = RepairTask(p)
      BY <2>2, TasksStep
    <3>2. n \in dataNodes
      <4>1. DataNodeStep \/ HandleStep \/ UNCHANGED rvars => Tasks' \subseteq Tasks
        <5>1. DataNodeStep => rep'.tasks = rep.tasks /\ rep'.task = rep.task /\ rep'.pc = rep.pc
          BY DEF DataNodeStep, sendHeartbeat, checkDataNodeHealth, ReplicateFile,
                 ReplicateOpen, ReplicateChunk, ReplicateReply, Reps
        <5>2. HandleStep => rep' = rep
          BY ZenonT(60) DEF HandleStep, Rename, Open, WriteAt, PartialWrite, WriteEnd, Close
        <5>3. UNCHANGED rvars => rep' = rep
          BY DEF rvars
        <5> QED
          BY <5>1, <5>2, <5>3 DEF Tasks
      <4> QED
        BY <2>2, <4>1 DEF RNext
    <3>3. <<n, f>> \in AliveReplicas(f)
      BY <1>0, <3>2 DEF AliveReplicas
    <3> QED
      BY <3>1, <3>3, TaskOfScan
  <2> QED
    BY <2>1, <2>2
<1>2. SUFFICES /\ \A c \in copies' : ~(c.to = n /\ c.id = f)
               /\ rep'.task.id = f => n \notin rep'.calls \cup rep'.waiting \cup rep'.copied
  BY <1>1 DEF Kept
<1>3. \A c \in Unwanted(copies) : ~(c.to = n /\ c.id = f)
  <2> SUFFICES ASSUME NEW d \in Unwanted(copies) PROVE ~(d.to = n /\ d.id = f)
    OBVIOUS
  <2>1. PICK c \in copies : d = [c EXCEPT !.wanted = FALSE]
    BY DEF Unwanted
  <2>2. c \in Copies
    OBVIOUS
  <2>3. d.to = c.to /\ d.id = c.id
    BY <2>1, <2>2 DEF Copies
  <2> QED
    BY <1>0, <2>3
<1>4. ASSUME NEW m \in Addr, triggerReplicate(m)
      PROVE  /\ \A c \in copies' : ~(c.to = n /\ c.id = f)
             /\ rep'.task.id = f => n \notin rep'.calls \cup rep'.waiting \cup rep'.copied
  <2>1. /\ m \in rep.calls /\ rep' = [rep EXCEPT !.calls = @ \ {m}]
        /\ \A c \in copies' : c \in copies \/ (c.to = m /\ c.id = rep.task.id)
    BY <1>4 DEF triggerReplicate, Call
  <2>2. /\ rep'.task = rep.task /\ rep'.calls = rep.calls \ {m}
        /\ rep'.waiting = rep.waiting /\ rep'.copied = rep.copied
    BY <2>1 DEF Reps
  <2> QED
    BY <1>0, <2>1, <2>2
<1>5. ASSUME NEW m \in Addr, CopyFails(m)
      PROVE  /\ \A c \in copies' : ~(c.to = n /\ c.id = f)
             /\ rep'.task.id = f => n \notin rep'.calls \cup rep'.waiting \cup rep'.copied
  <2>1. /\ rep' = [rep EXCEPT !.calls = @ \ {m}, !.waiting = @ \ {m}]
        /\ copies' \subseteq copies \cup Unwanted(copies)
    BY <1>5 DEF CopyFails, Unwanted
  <2>2. /\ rep'.task = rep.task /\ rep'.calls = rep.calls \ {m}
        /\ rep'.waiting = rep.waiting \ {m} /\ rep'.copied = rep.copied
    BY <2>1 DEF Reps
  <2> QED
    BY <1>0, <1>3, <2>1, <2>2
<1>6. ASSUME NEW t \in rep.tasks, NEW T \in SUBSET Addr, Mark(t, T)
      PROVE  /\ \A c \in copies' : ~(c.to = n /\ c.id = f)
             /\ rep'.task.id = f => n \notin rep'.calls \cup rep'.waiting \cup rep'.copied
  <2> DEFINE L == Leave(rep.tasks \ {t})
  <2>1. L \in Reps /\ L.calls = {} /\ L.waiting = {} /\ L.copied = {}
    BY LeaveFacts DEF Reps
  <2> HIDE DEF L
  <2>2. \/ rep' = [L EXCEPT !.pc = "rollback", !.task = t]
        \/ \E s \in t.replicas : rep' = [L EXCEPT !.pc = "copy", !.task = t,
                                           !.source = s, !.calls = T, !.waiting = T]
        \/ rep' = L
    BY <1>6 DEF Mark, L
  <2>3. copies' = copies
    BY <1>6 DEF Mark
  <2>4. /\ rep'.copied = {}
        /\ \/ rep'.calls = {} /\ rep'.waiting = {}
           \/ rep'.calls = T /\ rep'.waiting = T /\ rep'.task = t
    <3>1. ASSUME NEW s \in t.replicas, rep' = [L EXCEPT !.pc = "copy", !.task = t,
                                           !.source = s, !.calls = T, !.waiting = T]
          PROVE  /\ rep'.copied = {} /\ rep'.calls = T /\ rep'.waiting = T
                 /\ rep'.task = t
      BY <2>1, <3>1 DEF Reps
    <3>2. ASSUME rep' = [L EXCEPT !.pc = "rollback", !.task = t] \/ rep' = L
          PROVE  rep'.copied = {} /\ rep'.calls = {} /\ rep'.waiting = {}
      BY <2>1, <3>2 DEF Reps
    <3> QED
      BY <2>2, <3>1, <3>2
  <2>5. t.id = f => n \notin T
    <3>1. t.id = f => <<n, f>> \in t.replicas
      BY <1>0 DEF Tasks
    <3>2. T \subseteq rep.nodes \ {r[1] : r \in t.replicas}
      BY <1>6 DEF Mark, selectTargetNodes
    <3> QED
      BY <3>1, <3>2
  <2> QED
    BY <1>0, <2>3, <2>4, <2>5
<1>7. ASSUME Commit
      PROVE  /\ \A c \in copies' : ~(c.to = n /\ c.id = f)
             /\ rep'.task.id = f => n \notin rep'.calls \cup rep'.waiting \cup rep'.copied
  <2> DEFINE L == Leave(rep.tasks)
  <2>1. L \in Reps /\ L.calls = {} /\ L.waiting = {} /\ L.copied = {}
    BY LeaveFacts DEF Reps
  <2> HIDE DEF L
  <2>2. rep' = L \/ rep' = [L EXCEPT !.pc = "complete", !.task = rep.task]
    BY <1>7 DEF Commit, L
  <2>3. rep'.calls = {} /\ rep'.waiting = {} /\ rep'.copied = {}
    BY <2>1, <2>2 DEF Reps
  <2>4. copies' = copies
    BY <1>7 DEF Commit
  <2> QED
    BY <1>0, <2>3, <2>4
<1>8. ASSUME BackToComplete
      PROVE  /\ \A c \in copies' : ~(c.to = n /\ c.id = f)
             /\ rep'.task.id = f => n \notin rep'.calls \cup rep'.waiting \cup rep'.copied
  <2>1. copies' = copies /\ rep' = Leave(rep.tasks)
    BY <1>8 DEF BackToComplete
  <2>2. rep'.calls = {} /\ rep'.waiting = {} /\ rep'.copied = {}
    BY <2>1, LeaveFacts DEF Reps
  <2> QED
    BY <1>0, <2>1, <2>2
<1>9. ASSUME Failover
      PROVE  /\ \A c \in copies' : ~(c.to = n /\ c.id = f)
             /\ rep'.task.id = f => n \notin rep'.calls \cup rep'.waiting \cup rep'.copied
  <2>1. PICK sent \in SUBSET rep.calls :
          copies' = Unwanted(copies \cup {Call(m) : m \in sent})
    BY <1>9 DEF Failover
  <2>2. \A c \in copies \cup {Call(m) : m \in sent} : ~(c.to = n /\ c.id = f)
    BY <1>0, <2>1 DEF Call
  <2>3. copies \subseteq Copies /\ \A m \in sent : Call(m).to = m
    BY DEF Call
  <2>4. \A c \in copies' : ~(c.to = n /\ c.id = f)
    BY <2>1, <2>2, <2>3 DEF Unwanted, Call, Copies
  <2>5. rep' = IdleRep
    BY <1>9 DEF Failover
  <2> QED
    BY <2>4, <2>5 DEF IdleRep
<1>10. ASSUME NEW batch \in SUBSET Path, findUnderReplicatedTasks(batch)
      PROVE  /\ \A c \in copies' : ~(c.to = n /\ c.id = f)
             /\ rep'.task.id = f => n \notin rep'.calls \cup rep'.waiting \cup rep'.copied
  <2>1. copies' = copies /\ \E x, y : rep' = [rep EXCEPT !.tasks = x, !.nodes = y]
    BY <1>10 DEF findUnderReplicatedTasks
  <2>2. /\ rep'.task = rep.task /\ rep'.calls = rep.calls
        /\ rep'.waiting = rep.waiting /\ rep'.copied = rep.copied
    BY <2>1 DEF Reps
  <2> QED
    BY <1>0, <2>1, <2>2
<1>11. ASSUME NEW c \in copies, ReplicateFile(c)
       PROVE  /\ \A d \in copies' : ~(d.to = n /\ d.id = f)
              /\ rep'.task.id = f => n \notin rep'.calls \cup rep'.waiting \cup rep'.copied
  <2>1. c \in Copies
    OBVIOUS
  <2>2. \A d \in copies' : d \in copies \/ (d.to = c.to /\ d.id = c.id)
    BY <1>11, <2>1 DEF ReplicateFile, ReplicateOpen, ReplicateChunk, ReplicateReply, Copies
  <2>3. /\ rep'.task = rep.task /\ rep'.calls = rep.calls
        /\ rep'.waiting \subseteq rep.waiting
        /\ rep'.copied = rep.copied \/ (c.wanted /\ rep'.copied = rep.copied \cup {c.to})
    BY <1>11 DEF ReplicateFile, ReplicateOpen, ReplicateChunk, ReplicateReply, Reps
  <2>4. c.wanted => c.id = rep.task.id
    BY DEF RBase, TasksOfFiles
  <2> QED
    BY <1>0, <2>2, <2>3, <2>4
<1>12. CASE UNCHANGED <<rep, copies>>
  BY <1>0, <1>12
<1>13. CASE ReplicatorStep
  BY <1>4, <1>5, <1>6, <1>7, <1>8, <1>9, <1>10, <1>13
     DEF ReplicatorStep, Complete, rollbackStatus
<1>14. CASE DataNodeStep
  <2>1. ASSUME NEW m \in Addr, sendHeartbeat(m) \/ checkDataNodeHealth(m)
        PROVE  UNCHANGED <<rep, copies>>
    BY <2>1 DEF sendHeartbeat, checkDataNodeHealth
  <2> QED
    BY <1>11, <1>12, <1>14, <2>1 DEF DataNodeStep
<1>15. HandleStep \/ UNCHANGED rvars => UNCHANGED <<rep, copies>>
  BY ZenonT(60) DEF HandleStep, Rename, Open, WriteAt, PartialWrite, WriteEnd, Close, rvars
<1> QED
  BY <1>12, <1>13, <1>14, <1>15 DEF RNext

\* The replica never gets shorter.
LEMMA NeverCut ==
  ASSUME RBase, [RNext]_rvars, NEW n \in Addr, NEW f \in Files, Safe(n, f)
  PROVE  /\ Len(content'[n][f]) \in Nat /\ Len(content[n][f]) \in Nat
         /\ Len(content'[n][f]) >= Len(content[n][f])
<1> USE TypeFacts
<1>1. f \in Entry /\ content[n][f] \in Blocks
  BY ConstFacts DEF Contents
<1>2. content'[n][f] \in Blocks
  BY <1>1, NextRBase DEF RBase, RTypeOK
<1>3. Len(content'[n][f]) \in Nat /\ Len(content[n][f]) \in Nat
  BY <1>1, <1>2, LenOfBlocks, ConstFacts
<1>4. ASSUME content'[n][f] = content[n][f]
      PROVE  Len(content'[n][f]) >= Len(content[n][f])
  BY <1>3, <1>4
<1>5. ASSUME NEW c \in copies, ReplicateFile(c)
      PROVE  content'[n][f] = content[n][f]
  <2>1. ~(n = c.to /\ f = c.id)
    BY DEF Safe, Kept
  <2> QED
    BY <1>1, <1>5, <2>1, CopyStep
<1>6. ASSUME NEW h \in Handle, NEW r \in Replica, NEW ok \in BOOLEAN, PartialWrite(h, r, ok)
      PROVE  Len(content'[n][f]) >= Len(content[n][f])
  BY <1>1, <1>6, WriteStep
<1>7. CASE ReplicatorStep
  <2>1. content' = content
    BY <1>7 DEF ReplicatorStep, findUnderReplicatedTasks, Mark, triggerReplicate, CopyFails,
                Commit, Complete, rollbackStatus, BackToComplete, Failover
  <2> QED
    BY <1>3, <1>4, <2>1
<1>8. CASE DataNodeStep
  <2>1. ASSUME NEW m \in Addr, sendHeartbeat(m) \/ checkDataNodeHealth(m)
        PROVE  content' = content
    BY <2>1 DEF sendHeartbeat, checkDataNodeHealth
  <2> QED
    BY <1>3, <1>4, <1>5, <1>8, <2>1 DEF DataNodeStep
<1>9. CASE HandleStep
  <2>1. ASSUME NEW src \in Path, NEW dst \in Path, Rename(src, dst)
        PROVE  content' = content
    BY <2>1 DEF Rename
  <2>2. ASSUME NEW h \in Handle,
               \/ \E p \in Path : Open(h, p)
               \/ \E i \in 1..MaxBlocks : WriteAt(h, i)
               \/ WriteEnd(h)
               \/ Close(h)
        PROVE  content' = content
    BY <2>2 DEF Open, WriteAt, WriteEnd, Close
  <2> QED
    BY <1>3, <1>4, <1>6, <1>9, <2>1, <2>2 DEF HandleStep
<1>10. CASE UNCHANGED rvars
  BY <1>3, <1>4, <1>10 DEF rvars
<1> QED
  BY <1>3, <1>7, <1>8, <1>9, <1>10 DEF RNext

\* Handles of f have the replica in their list, and their writes reach it
\* before the size grows.
LEMMA StaysWritten ==
  ASSUME RBase, [RNext]_rvars, OneFile, NEW n \in Addr, NEW f \in Files, Safe(n, f)
  PROVE  Written(n, f)'
<1> USE TypeFacts
<1> DEFINE Ok(x) ==
             /\ <<n, f>> \in x.replicas
             /\ x.pc = "writing" /\ x.ok /\ <<n, f>> \notin x.todo
                  => Len(content'[n][f]) >= x.block
<1>0. /\ f \in Entry /\ Len(content'[n][f]) \in Nat /\ Len(content[n][f]) \in Nat
      /\ Len(content'[n][f]) >= Len(content[n][f])
  BY NeverCut, ConstFacts
<1>1. \A p \in Path : Names(p, f)' => Names(p, f)
  BY SameHeap DEF Names
<1>2. handle' \in [Handle -> HandleSet]
  BY HandlesTyped
<1>3. ASSUME NEW k \in Handle, handle[k].pc # "closed", Names(handle[k].path, f)
      PROVE  Ok(handle[k])
  <2>1. handle[k].block \in Nat /\ handle[k].path \in Path
    BY ConstFacts DEF HandleSet
  <2> QED
    BY <1>0, <1>3, <2>1 DEF Safe, Written
<1>4. SUFFICES ASSUME NEW k \in Handle, NEW q \in Path, handle'[k].pc # "closed",
                      handle'[k].path = q, Names(q, f)'
               PROVE  Ok(handle'[k])
  BY DEF Written
<1>6. Names(q, f)
  BY <1>1, <1>4
<1> HIDE DEF Ok
<1>7. ASSUME handle'[k] = handle[k] PROVE Ok(handle'[k])
  BY <1>3, <1>4, <1>6, <1>7
<1>8. ASSUME NEW h \in Handle, NEW p \in Path, Open(h, p)
      PROVE  Ok(handle'[k])
  <2>1. CASE k # h
    BY <1>7, <1>8, <2>1 DEF Open
  <2>2. CASE k = h
    <3> DEFINE x == [ClosedHandle EXCEPT !.pc = "open", !.path = p,
                       !.replicas = replicas[lookup(p)], !.size = size[lookup(p)]]
    <3>1. handle'[k] = x /\ IsFile(lookup(p))
      BY <1>8, <2>2 DEF Open
    <3>2. x.pc = "open" /\ x.path = p /\ x.replicas = replicas[lookup(p)]
      BY DEF ClosedHandle
    <3> HIDE DEF x
    <3>3. lookup(p) = f
      <4>1. lookup(p) \in Files
        BY <3>1, LookupFile DEF IsFile
      <4> QED
        BY <1>4, <1>6, <3>1, <3>2, <4>1 DEF Names, OneFile
    <3>4. <<n, f>> \in replicas[f]
      BY DEF Safe, Listed
    <3> QED
      BY <3>1, <3>2, <3>3, <3>4 DEF Ok
  <2> QED
    BY <2>1, <2>2
<1>9. ASSUME NEW h \in Handle, NEW i \in 1..MaxBlocks, WriteAt(h, i)
      PROVE  Ok(handle'[k])
  <2>1. CASE k # h
    BY <1>7, <1>9, <2>1 DEF WriteAt
  <2>2. CASE k = h
    <3>1. handle[h] \in HandleSet /\ handle[h].pc = "open"
      BY <1>9 DEF WriteAt
    <3>2. handle'[h] = [handle[h] EXCEPT !.pc = "writing", !.block = i, !.ver = writes + 1,
                          !.todo = handle[h].replicas, !.ok = TRUE]
      BY <1>9 DEF WriteAt
    <3>3. /\ handle'[h].path = handle[h].path /\ handle'[h].replicas = handle[h].replicas
          /\ handle'[h].todo = handle[h].replicas
      BY <3>1, <3>2 DEF HandleSet
    <3>4. Ok(handle[h])
      BY <1>3, <1>4, <1>6, <2>2, <3>1, <3>3
    <3> QED
      BY <2>2, <3>3, <3>4 DEF Ok
  <2> QED
    BY <2>1, <2>2
<1>10. ASSUME NEW h \in Handle, NEW r \in Replica, NEW ok \in BOOLEAN, PartialWrite(h, r, ok)
       PROVE  Ok(handle'[k])
  <2>1. CASE k # h
    BY <1>7, <1>10, <2>1 DEF PartialWrite
  <2>2. CASE k = h
    <3>1. handle[h] \in HandleSet /\ handle[h].pc = "writing"
      BY <1>10 DEF PartialWrite
    <3>2. handle'[h] = [handle[h] EXCEPT !.todo = @ \ {r}, !.ok = @ /\ ok]
      BY <1>10 DEF PartialWrite
    <3>3. /\ handle'[h].path = handle[h].path /\ handle'[h].replicas = handle[h].replicas
          /\ handle'[h].todo = handle[h].todo \ {r} /\ handle'[h].block = handle[h].block
      BY <3>1, <3>2 DEF HandleSet
    <3>4. handle'[h].ok => handle[h].ok /\ ok
      BY <3>1, <3>2 DEF HandleSet
    <3>5. Ok(handle[h])
      BY <1>3, <1>4, <1>6, <2>2, <3>1, <3>3
    <3>6. ok /\ r = <<n, f>> => Len(content'[n][f]) >= handle[h].block
      BY <1>0, <1>10, WriteStep
    <3> QED
      BY <2>2, <3>1, <3>3, <3>4, <3>5, <3>6 DEF Ok
  <2> QED
    BY <2>1, <2>2
<1>11. ASSUME NEW h \in Handle, WriteEnd(h)
       PROVE  Ok(handle'[k])
  <2>1. CASE k # h
    BY <1>7, <1>11, <2>1 DEF WriteEnd
  <2>2. CASE k = h
    <3>1. handle[h] \in HandleSet /\ handle[h].pc = "writing"
      BY <1>11 DEF WriteEnd
    <3>2. PICK z : handle' = [handle EXCEPT ![h].pc = "open", ![h].block = 0,
                                            ![h].ver = 0, ![h].size = z]
      BY <1>11 DEF WriteEnd
    <3>3. handle'[h] = [handle[h] EXCEPT !.pc = "open", !.block = 0, !.ver = 0, !.size = z]
      BY <3>2
    <3>4. /\ handle'[h].path = handle[h].path /\ handle'[h].replicas = handle[h].replicas
          /\ handle'[h].pc = "open"
      BY <3>1, <3>3 DEF HandleSet
    <3>5. Ok(handle[h])
      BY <1>3, <1>4, <1>6, <2>2, <3>1, <3>4
    <3> QED
      BY <2>2, <3>4, <3>5 DEF Ok
  <2> QED
    BY <2>1, <2>2
<1>12. ASSUME NEW h \in Handle, Close(h)
       PROVE  Ok(handle'[k])
  <2>1. k # h
    BY <1>4, <1>12 DEF Close, ClosedHandle
  <2> QED
    BY <1>7, <1>12, <2>1 DEF Close
<1>13. CASE UNCHANGED handle
  BY <1>7, <1>13
<1>14. CASE HandleStep
  <2>1. ASSUME NEW src \in Path, NEW dst \in Path, Rename(src, dst)
        PROVE  UNCHANGED handle
    BY <2>1 DEF Rename, clients
  <2> QED
    BY <1>8, <1>9, <1>10, <1>11, <1>12, <1>13, <1>14, <2>1 DEF HandleStep
<1>15. ReplicatorStep => UNCHANGED handle
  BY DEF ReplicatorStep, findUnderReplicatedTasks, Mark, triggerReplicate, CopyFails,
         Commit, Complete, rollbackStatus, BackToComplete, Failover, clients
<1>16. DataNodeStep => UNCHANGED handle
  BY DEF DataNodeStep, sendHeartbeat, checkDataNodeHealth, ReplicateFile,
         ReplicateOpen, ReplicateChunk, ReplicateReply, clients
<1>17. UNCHANGED rvars => UNCHANGED handle
  BY DEF rvars, clients
<1> QED
  BY <1>13, <1>14, <1>15, <1>16, <1>17 DEF RNext

\* A registered replica that is safe stays safe, and so does any other one
\* as long as the replicator does nothing.
LEMMA StaysSafe ==
  ASSUME RBase, TaskOf, [RNext]_rvars, OneFile,
         NEW n \in Addr, NEW f \in Files, Safe(n, f), n \in dataNodes \/ ~ReplicatorStep
  PROVE  Safe(n, f)'
  BY StaysListed, StaysKept, StaysWritten DEF Safe

\* Until a node is removed the scan finds nothing.
LEMMA QuietStep ==
  ASSUME RBase, Quiet, removals = 0, [RNext]_rvars
  PROVE  ~ReplicatorStep \/ Failover
<1> USE TypeFacts
<1>1. dataNodes = Addr /\ copies = {} /\ rep = IdleRep
  BY DEF Quiet
<1>2. rep.pc = "scan" /\ rep.tasks = {}
  BY <1>1 DEF IdleRep
<1>3. UnderReplicated = {}
  <2> SUFFICES ASSUME NEW p \in UnderReplicated PROVE FALSE
    OBVIOUS
  <2>1. lookup(p) \in Files
    BY TaskOfScan
  <2>2. AliveReplicas(lookup(p)) = replicas[lookup(p)]
    <3>1. replicas[lookup(p)] \in SUBSET (Addr \X Entry)
      BY <2>1, ConstFacts DEF TypeOK
    <3> QED
      BY <1>1, <3>1 DEF AliveReplicas
  <2>3. Cardinality(AliveReplicas(lookup(p))) < ReplicaCount
    BY DEF UnderReplicated
  <2>4. Cardinality(AliveReplicas(lookup(p))) = ReplicaCount
    BY <2>1, <2>2 DEF Quiet
  <2> QED
    BY <2>3, <2>4, RepairAssumption
<1>4. ASSUME NEW batch \in SUBSET Path, findUnderReplicatedTasks(batch) PROVE FALSE
  BY <1>3, <1>4 DEF findUnderReplicatedTasks
<1>5. ~Commit /\ ~Complete /\ ~rollbackStatus
  BY <1>2 DEF Commit, Complete, rollbackStatus
<1>6. \A n \in Addr : ~triggerReplicate(n) /\ ~CopyFails(n)
  BY <1>2 DEF triggerReplicate, CopyFails
<1> QED
  BY <1>2, <1>4, <1>5, <1>6 DEF ReplicatorStep

\* Clients never touch replica lists, nor does a change of the leader.
LEMMA NextQuiet ==
  ASSUME SInv, [RNext]_rvars, OneFile
  PROVE  Quiet'
<1> USE TypeFacts
<1>0. RBase /\ TaskOf /\ Quiet
  BY DEF SInv
<1>1. removals \in Nat /\ (removals' = removals \/ removals' = removals + 1)
  <2>1. removals \in Nat
    BY <1>0, ConstFacts DEF RBase, RTypeOK
  <2>2. ReplicatorStep => removals' = removals
    BY DEF ReplicatorStep, findUnderReplicatedTasks, Mark, triggerReplicate, CopyFails,
           Commit, Complete, rollbackStatus, BackToComplete, Failover
  <2>3. DataNodeStep => removals' = removals \/ removals' = removals + 1
    BY DEF DataNodeStep, sendHeartbeat, checkDataNodeHealth, ReplicateFile,
           ReplicateOpen, ReplicateChunk, ReplicateReply
  <2>4. HandleStep \/ UNCHANGED rvars => removals' = removals
    BY ZenonT(60) DEF HandleStep, Rename, Open, WriteAt, PartialWrite, WriteEnd, Close, rvars
  <2> QED
    BY <2>1, <2>2, <2>3, <2>4 DEF RNext
<1>2. SUFFICES ASSUME removals' = 0
               PROVE  /\ dataNodes' = Addr /\ copies' = {} /\ rep' = IdleRep
                      /\ \A f \in Files :
                           /\ Cardinality(replicas'[f]) = ReplicaCount
                           /\ \A r \in replicas'[f] : r[2] = f /\ Safe(r[1], f)'
  <2>1. ASSUME NEW f \in Files, NEW r
        PROVE  Safe(r[1], f)' <=> (Safe(r[1], f))'
    OBVIOUS
  <2> QED
    BY <2>1 DEF Quiet
<1>3. removals = 0 /\ removals' = removals
  BY <1>1, <1>2
<1>4. /\ dataNodes = Addr /\ copies = {} /\ rep = IdleRep
      /\ \A f \in Files :
           /\ Cardinality(replicas[f]) = ReplicaCount
           /\ \A r \in replicas[f] : r[2] = f /\ Safe(r[1], f)
  BY <1>0, <1>3 DEF Quiet
<1>5. ~ReplicatorStep \/ Failover
  BY <1>0, <1>3, QuietStep
<1>6. dataNodes' = Addr /\ copies' = {} /\ rep' = IdleRep /\ replicas' = replicas
  <2>1. Failover => UNCHANGED <<tree, dataNodes>> /\ copies' = {} /\ rep' = IdleRep
    <3>1. rep.calls = {} /\ copies = {}
      BY <1>4 DEF IdleRep
    <3> QED
      BY <3>1 DEF Failover, Unwanted
  <2>2. DataNodeStep => FALSE
    BY <1>1, <1>3, <1>4 DEF DataNodeStep, sendHeartbeat, checkDataNodeHealth
  <2>3. HandleStep => UNCHANGED <<dataNodes, copies, rep, replicas>>
    BY ZenonT(60) DEF HandleStep, Rename, Open, WriteAt, PartialWrite, WriteEnd, Close, tree,
           applyRename, applyUpdateSize, data
  <2>4. UNCHANGED rvars => UNCHANGED <<dataNodes, copies, rep, replicas>>
    BY DEF rvars, tree
  <2> QED
    BY <1>4, <1>5, <2>1, <2>2, <2>3, <2>4 DEF RNext, tree
<1>7. ASSUME NEW f \in Files, NEW r \in replicas[f]
      PROVE  Safe(r[1], f)'
  <2>1. r[1] \in Addr
    <3>1. r \in Addr \X Entry
      BY <1>0, ConstFacts DEF TypeOK
    <3> QED
      BY <3>1
  <2>2. Safe(r[1], f) /\ r[1] \in dataNodes
    BY <1>4, <2>1
  <2> QED
    BY <1>0, <2>1, <2>2, StaysSafe
<1> QED
  BY <1>4, <1>6, <1>7

\* A removal leaves a node of the list, as there are two.
LEMMA NextSurvivor ==
  ASSUME SInv, [RNext]_rvars, OneFile, ReplicaCount >= 2
  PROVE  Survivor'
<1> USE TypeFacts
<1>0. RBase /\ TaskOf /\ Quiet /\ Survivor
  BY DEF SInv
<1>1. SUFFICES ASSUME removals' = 1, NEW f \in Files
               PROVE  \E n \in dataNodes' : Safe(n, f)'
  BY DEF Survivor
<1>2. CASE \E m \in Addr : checkDataNodeHealth(m)
  <2>1. PICK m \in Addr : checkDataNodeHealth(m)
    BY <1>2
  <2>2. removals = 0 /\ dataNodes' = dataNodes \ {m} /\ ~ReplicatorStep
    <3>1. removals' = removals + 1 /\ removals \in Nat /\ dataNodes' = dataNodes \ {m}
      BY <1>0, <2>1, ConstFacts DEF checkDataNodeHealth, applyRemoveDataNode, RBase, RTypeOK
    <3>2. ReplicatorStep => removals' = removals
      BY DEF ReplicatorStep, findUnderReplicatedTasks, Mark, triggerReplicate, CopyFails,
             Commit, Complete, rollbackStatus, BackToComplete, Failover
    <3> QED
      BY <1>1, <3>1, <3>2
  <2>3. /\ dataNodes = Addr /\ Cardinality(replicas[f]) = ReplicaCount
        /\ \A r \in replicas[f] : r[2] = f /\ Safe(r[1], f)
    BY <1>0, <2>2 DEF Quiet
  <2>4. replicas[f] \in SUBSET (Addr \X Entry)
    BY <1>0, ConstFacts DEF TypeOK
  <2>5. PICK r \in replicas[f] : r[1] # m
    <3> SUFFICES ASSUME \A r \in replicas[f] : r[1] = m PROVE FALSE
      OBVIOUS
    <3>1. replicas[f] \subseteq {<<m, f>>}
      BY <2>3, <2>4
    <3>2. Cardinality({<<m, f>>}) = 1 /\ IsFiniteSet({<<m, f>>})
      BY FS_Singleton
    <3>3. Cardinality(replicas[f]) <= 1
      BY <3>1, <3>2, FS_Subset
    <3> QED
      BY <2>3, <3>3, RepairAssumption
  <2>6. r[1] \in Addr /\ r[1] \in dataNodes' /\ Safe(r[1], f)
    BY <2>2, <2>3, <2>4, <2>5
  <2>7. Safe(r[1], f)'
    BY <1>0, <2>2, <2>6, StaysSafe
  <2> QED
    BY <2>6, <2>7
<1>3. CASE ~\E m \in Addr : checkDataNodeHealth(m)
  <2>1. removals' = removals /\ dataNodes \subseteq dataNodes'
    <3>1. ReplicatorStep => UNCHANGED <<removals, dataNodes>>
      BY DEF ReplicatorStep, findUnderReplicatedTasks, Mark, triggerReplicate, CopyFails,
             Commit, Complete, rollbackStatus, BackToComplete, Failover
    <3>2. DataNodeStep => removals' = removals /\ dataNodes \subseteq dataNodes'
      BY <1>3 DEF DataNodeStep, sendHeartbeat, applyHeartbeat, ReplicateFile,
                  ReplicateOpen, ReplicateChunk, ReplicateReply
    <3>3. HandleStep \/ UNCHANGED rvars => UNCHANGED <<removals, dataNodes>>
      BY ZenonT(60) DEF HandleStep, Rename, Open, WriteAt, PartialWrite, WriteEnd, Close, rvars
    <3> QED
      BY <3>1, <3>2, <3>3 DEF RNext
  <2>2. PICK n \in dataNodes : Safe(n, f)
    BY <1>0, <1>1, <2>1 DEF Survivor
  <2>3. n \in Addr
    BY <1>0, <2>2 DEF RBase, RTypeOK
  <2>4. Safe(n, f)'
    BY <1>0, <2>2, <2>3, StaysSafe
  <2> QED
    BY <2>1, <2>4
<1> QED
  BY <1>2, <1>3

LEMMA InitSInv ==
  ASSUME RInit, ~Partial
  PROVE  SInv
<1>1. RBase
  BY InitRBase
<1>2. /\ rep = IdleRep /\ copies = {} /\ dataNodes = Addr /\ removals = 0
      /\ handle = [h \in Handle |-> ClosedHandle]
      /\ size = [e \in Entry |-> IF e \in Files THEN FileSize ELSE 0]
  BY DEF RInit, StartWith
<1>3. rep.pc = "scan" /\ rep.tasks = {} /\ rep.calls = {} /\ rep.waiting = {} /\ rep.copied = {}
  BY <1>2 DEF IdleRep
<1>4. Tasks = {}
  BY <1>3 DEF Tasks
<1>5. TaskOf /\ Survivor
  BY <1>2, <1>4 DEF TaskOf, Survivor
<1>6. PICK at \in [Files -> Name], addrs \in [Files -> SUBSET Addr],
           stored \in [Files -> (SUBSET Addr) \ {{}}] : StartWith(at, addrs, stored)
  BY DEF RInit
<1>7. /\ \A f \in Files : Cardinality(addrs[f]) = ReplicaCount /\ stored[f] = addrs[f]
      /\ replicas = [e \in Entry |-> IF e \in Files THEN addrs[e] \X {e} ELSE {}]
      /\ content = [n \in Addr |-> [f \in Entry |->
           IF f \in Files /\ n \in stored[f] THEN [i \in 1..FileSize |-> 0] ELSE <<>>]]
  BY <1>6 DEF StartWith
<1>8. ASSUME NEW f \in Files
      PROVE  /\ Cardinality(replicas[f]) = ReplicaCount
             /\ \A r \in replicas[f] : r[2] = f /\ Safe(r[1], f)
  <2>1. f \in Entry /\ replicas[f] = addrs[f] \X {f} /\ size[f] = FileSize
    BY <1>2, <1>7, ConstFacts
  <2>2. Cardinality(replicas[f]) = ReplicaCount
    <3>1. IsFiniteSet(addrs[f]) /\ IsFiniteSet({f}) /\ Cardinality({f}) = 1
      BY <1>7, RepairAssumption, FS_Subset, FS_Singleton
    <3>2. Cardinality(addrs[f] \X {f}) = Cardinality(addrs[f]) * Cardinality({f})
      BY <3>1, FS_Product
    <3> QED
      BY <1>7, <2>1, <3>1, <3>2, RepairAssumption
  <2>3. ASSUME NEW r \in replicas[f] PROVE r[2] = f /\ Safe(r[1], f)
    <3>1. r[1] \in addrs[f] /\ r[1] \in Addr /\ r[2] = f /\ <<r[1], f>> \in replicas[f]
      BY <1>7, <2>1
    <3>2. content[r[1]][f] = [i \in 1..FileSize |-> 0]
      BY <1>7, <2>1, <3>1
    <3>3. Len(content[r[1]][f]) = FileSize
      BY <3>2, ConstFacts
    <3>4. Len(content[r[1]][f]) >= size[f]
      BY <2>1, <3>3, ConstFacts
    <3>5. Kept(r[1], f)
      BY <1>2, <1>3, <1>4 DEF Kept
    <3>6. Written(r[1], f)
      BY <1>2 DEF Written, ClosedHandle
    <3> QED
      BY <3>1, <3>4, <3>5, <3>6 DEF Safe, Listed
  <2> QED
    BY <2>2, <2>3
<1>9. Quiet
  BY <1>2, <1>8 DEF Quiet
<1> QED
  BY <1>1, <1>5, <1>9 DEF SInv

LEMMA NextSInv ==
  ASSUME OneFile, ReplicaCount >= 2
  PROVE  SInv /\ [RNext]_rvars => SInv'
<1> SUFFICES ASSUME SInv, [RNext]_rvars PROVE SInv'
  OBVIOUS
<1>1. RBase' /\ TaskOf'
  BY NextRBase, NextTaskOf DEF SInv
<1> QED
  BY <1>1, NextQuiet, NextSurvivor DEF SInv

\* A safe node is what DataSurvives asks for.
LEMMA SafeSurvives ==
  ASSUME SInv, ReplicaCount >= 2
  PROVE  DataSurvives
<1> USE TypeFacts
<1>0. RBase /\ Quiet /\ Survivor
  BY DEF SInv
<1> SUFFICES ASSUME removals <= 1, NEW e \in Files
             PROVE  \E r \in AliveReplicas(e) : Len(content[r[1]][r[2]]) >= size[e]
  BY DEF DataSurvives
<1>1. PICK n \in dataNodes : Safe(n, e)
  <2>1. CASE removals = 1
    BY <1>0, <2>1 DEF Survivor
  <2>2. CASE removals # 1
    <3>1. removals = 0
      BY <1>0, <2>2, ConstFacts DEF RBase, RTypeOK
    <3>2. /\ dataNodes = Addr /\ Cardinality(replicas[e]) = ReplicaCount
          /\ \A r \in replicas[e] : r[2] = e /\ Safe(r[1], e)
      BY <1>0, <3>1 DEF Quiet
    <3>3. replicas[e] # {}
      <4>1. Cardinality({}) = 0
        BY FS_EmptySet
      <4> QED
        BY <3>2, <4>1
    <3>4. PICK r \in replicas[e] : TRUE
      BY <3>3
    <3>5. r \in Addr \X Entry
      BY <1>0, ConstFacts DEF TypeOK
    <3> QED
      BY <3>2, <3>4, <3>5
  <2> QED
    BY <2>1, <2>2
<1>2. <<n, e>> \in AliveReplicas(e) /\ Len(content[n][e]) >= size[e]
  BY <1>1 DEF Safe, Listed, AliveReplicas
<1> QED
  BY <1>2

\* When PutFile stored every replica and there are at least two of them, the
\* removal of a data node costs no data, whatever overlaps with the repair:
\* writes through handles opened before it, copies that go on after their
\* call was lost, changes of the leader, and renames of a single file.  (With
\* several files, a rename may let the path of a task lead to another one.)
THEOREM RepairKeepsData ==
  ASSUME ~Partial, ReplicaCount >= 2, ~Renames \/ \A f, g \in Files : f = g
  PROVE  RSpec => []DataSurvives
<1>1. OneFile
  BY DEF OneFile
<1>2. RInit => SInv
  BY InitSInv
<1>3. SInv /\ [RNext]_rvars => SInv'
  BY <1>1, NextSInv
<1>4. SInv => DataSurvives
  BY SafeSurvives
<1> QED
  BY <1>2, <1>3, <1>4, PTL DEF RSpec

----------------------------------------------------------------------------
(* Repairs of files that nobody writes, with calls that are not lost.       *)

Undisturbed ==
  ~Partial /\ ~Renames /\ MaxWrites = 0 /\ MaxLate = 0 /\ MaxTerm = 0

Zeros(k) == [i \in 1..k |-> 0]

\* Node n has file f as it was stored.
Holds(n, f) == content[n][f] = Zeros(FileSize)

\* No file changes, and no data node copies for nobody.
Calm ==
  /\ \A f \in Files : size[f] = FileSize
  /\ \A h \in Handle : handle[h].pc # "writing"
  /\ \A c \in copies : c.wanted

ListsHold ==
  /\ \A e \in Entry \ Files : replicas[e] = {}
  /\ \A f \in Files : \A r \in replicas[f] : r[2] = f /\ Holds(r[1], f)

\* What the scan saw of a file stays so until the file is repaired: it is
\* in the batch once, and only its repair changes its list.
Seen(t) ==
  t.size = FileSize /\ t.replicas = {r \in replicas[t.id] : r[1] \in rep.nodes}

Planned ==
  /\ \A t \in rep.tasks : Seen(t)
  /\ rep.pc = "copy" => Seen(rep.task)
  /\ \A t, u \in rep.tasks : t.id = u.id => t = u
  /\ rep.pc # "scan" => \A t \in rep.tasks : t.id # rep.task.id

\* Targets were registered and held no replica; a copy has written as many
\* blocks of its source as its offset says.
Copying ==
  rep.pc = "copy" =>
    /\ rep.source \in rep.task.replicas
    /\ rep.waiting \cup rep.copied \subseteq rep.nodes \ {r[1] : r \in rep.task.replicas}
    /\ rep.waiting \cap rep.copied = {}
    /\ \A n \in rep.copied : Holds(n, rep.task.id)
    /\ \A c \in copies :
         /\ c.from = rep.source /\ c.size = FileSize /\ c.off <= FileSize
         /\ c.off # -1 => content[c.to][c.id] = Zeros(c.off)

QInv == RBase /\ TaskOf /\ Calm /\ ListsHold /\ Planned /\ Copying

\* The paths of different tasks lead to different files: all files hang in
\* the root.
LEMMA PathsDiffer ==
  ASSUME IInv, SameFiles, NEW p \in Path, NEW q \in Path, lookup(p) # Nil,
         lookup(p) = lookup(q)
  PROVE  p = q
<1>1. ASSUME NEW s \in Path, lookup(s) # Nil
      PROVE  /\ s \in Seq(Name) /\ Len(s) = 1 /\ s[1] \in Name
             /\ lookup(s) = children[Root][s[1]]
  <2>1. ParentFound(s) /\ lookup(s) = children[Parent(s)][Last(s)]
    BY <1>1, LookupFacts DEF IInv
  <2>2. s \in Seq(Name) /\ Len(s) \in Nat \ {0}
    BY <2>1, ParentFacts, PathIsSeq DEF IInv
  <2>3. \A i \in 0..(Len(s) - 1) : Walk(s)[i] = Root
    BY <2>1 DEF ParentFound, IsWalk, SameFiles
  <2>4. Len(s) = 1
    <3>0. SUFFICES ASSUME Len(s) # 1 PROVE FALSE
      OBVIOUS
    <3>1. /\ 1 \in 1..(Len(s) - 1) /\ 1 \in 0..(Len(s) - 1) /\ 0 \in 0..(Len(s) - 1)
          /\ 1 \in 1..Len(s) /\ 1 - 1 = 0
      <4>1. \A k \in Nat \ {0} : k # 1 =>
              /\ 1 \in 1..(k - 1) /\ 1 \in 0..(k - 1) /\ 0 \in 0..(k - 1)
              /\ 1 \in 1..k /\ 1 - 1 = 0
        OBVIOUS
      <4> QED
        BY ONLY <2>2, <3>0, <4>1
    <3>2. Walk(s)[1] = children[Walk(s)[0]][s[1]]
      BY <2>1, <3>1 DEF ParentFound, IsWalk
    <3>3. Root = children[Root][s[1]] /\ s[1] \in Name
      BY <2>2, <2>3, <3>1, <3>2
    <3> QED
      BY <3>3, NamespaceAssumption DEF IInv, Linked
  <2>5. Parent(s) = Root /\ Last(s) = s[1] /\ s[1] \in Name
    <3>1. 0 \in 0..(Len(s) - 1) /\ Len(s) - 1 = 0 /\ 1 \in 1..Len(s)
      BY <2>4
    <3> QED
      BY <2>2, <2>3, <2>4, <3>1 DEF Parent, Last
  <2> QED
    BY <2>1, <2>2, <2>4, <2>5
<1>2. /\ p \in Seq(Name) /\ q \in Seq(Name) /\ Len(p) = 1 /\ Len(q) = 1
      /\ p[1] \in Name /\ q[1] \in Name
      /\ children[Root][p[1]] = children[Root][q[1]] /\ children[Root][p[1]] # Nil
  BY <1>1
<1>3. p[1] = q[1]
  BY <1>2, NamespaceAssumption DEF IInv, OneParent
<1> QED
  BY <1>2, <1>3

\* The steps of an undisturbed repair.
CalmStep ==
  \/ UNCHANGED <<rep, copies, content, replicas>>
  \/ \E batch \in SUBSET Path : findUnderReplicatedTasks(batch)
  \/ \E t \in rep.tasks, T \in SUBSET Addr : Mark(t, T)
  \/ \E n \in Addr :
       \/ triggerReplicate(n)
       \/ CopyFails(n) /\ copies' = copies \ {c \in copies : c.to = n}
  \/ Commit
  \/ Complete
  \/ rollbackStatus
  \/ \E c \in copies : ReplicateFile(c)

LEMMA OnlyCalmSteps ==
  ASSUME Undisturbed, RBase, Calm, [RNext]_rvars
  PROVE  CalmStep /\ Calm'
<1> USE TypeFacts
<1>0. MaxWrites = 0 /\ MaxLate = 0 /\ MaxTerm = 0 /\ ~Renames
  BY DEF Undisturbed
<1>1. ASSUME size' = size, handle' = handle, copies' = copies PROVE Calm'
  BY <1>1 DEF Calm
<1>2. ASSUME NEW n \in Addr, CopyFails(n)
      PROVE  copies' = copies \ {c \in copies : c.to = n}
  <2>1. {c \in copies : ~c.wanted} = {}
    BY DEF Calm
  <2>2. Cardinality({c \in copies : ~c.wanted}) = 0
    BY <2>1, FS_EmptySet
  <2>3. {c \in copies : c.to = n} = {c \in copies : c.to = n /\ c.wanted}
    BY DEF Calm
  <2> QED
    BY <1>0, <1>2, <2>2, <2>3 DEF CopyFails
<1>3. ~Failover
  BY <1>0 DEF Failover, RBase, RTypeOK
<1>4. ASSUME NEW h \in Handle, NEW i \in 1..MaxBlocks, WriteAt(h, i) PROVE FALSE
  BY <1>0, <1>4 DEF WriteAt, RBase, RTypeOK
<1>5. ASSUME NEW h \in Handle, NEW r \in Replica, NEW ok \in BOOLEAN,
             PartialWrite(h, r, ok) \/ WriteEnd(h)
      PROVE  FALSE
  BY <1>5 DEF PartialWrite, WriteEnd, Calm
<1>6. ASSUME NEW h \in Handle, WriteEnd(h) PROVE FALSE
  BY <1>6 DEF WriteEnd, Calm
<1>7. ASSUME NEW h \in Handle, (\E p \in Path : Open(h, p)) \/ Close(h)
      PROVE  UNCHANGED <<rep, copies, content, replicas>> /\ Calm'
  <2>1. UNCHANGED <<rep, copies, content, tree>>
    BY <1>7 DEF Open, Close
  <2>2. \A k \in Handle : handle'[k].pc # "writing"
    <3>1. \A k \in Handle \ {h} : handle'[k] = handle[k]
      BY <1>7 DEF Open, Close
    <3>2. handle'[h].pc # "writing"
      <4>1. ASSUME NEW p \in Path, Open(h, p) PROVE handle'[h].pc = "open"
        BY <4>1 DEF Open, ClosedHandle
      <4>2. Close(h) => handle'[h].pc = "closed"
        BY DEF Close, ClosedHandle
      <4> QED
        BY <1>7, <4>1, <4>2
    <3> QED
      BY <3>1, <3>2 DEF Calm
  <2> QED
    BY <2>1, <2>2 DEF Calm, tree
<1>8. ASSUME NEW src \in Path, NEW dst \in Path, Rename(src, dst) PROVE FALSE
  BY <1>0, <1>8 DEF Rename
<1>9. HandleStep => CalmStep /\ Calm'
  BY <1>4, <1>5, <1>6, <1>7, <1>8 DEF HandleStep, CalmStep
<1>10. DataNodeStep => CalmStep /\ Calm'
  <2>1. ASSUME NEW n \in Addr, sendHeartbeat(n) \/ checkDataNodeHealth(n)
        PROVE  CalmStep /\ Calm'
    <3>1. UNCHANGED <<rep, copies, content, replicas, size, handle>>
      BY <2>1 DEF sendHeartbeat, checkDataNodeHealth, tree, clients
    <3> QED
      BY <1>1, <3>1 DEF CalmStep
  <2>2. ASSUME NEW c \in copies, ReplicateFile(c)
        PROVE  CalmStep /\ Calm'
    <3>1. UNCHANGED <<size, handle>>
      BY <2>2 DEF ReplicateFile, ReplicateOpen, ReplicateChunk, ReplicateReply, tree, clients
    <3>2. \A d \in copies' : d.wanted
      <4>1. c \in Copies /\ c.wanted
        BY DEF Calm
      <4>2. \A k : [c EXCEPT !.off = k].wanted
        BY <4>1 DEF Copies
      <4>3. \A d \in copies' : d \in copies \/ \E k : d = [c EXCEPT !.off = k]
        BY <2>2 DEF ReplicateFile, ReplicateOpen, ReplicateChunk, ReplicateReply
      <4> QED
        BY <4>2, <4>3 DEF Calm
    <3> QED
      BY <2>2, <3>1, <3>2 DEF CalmStep, Calm
  <2> QED
    BY <2>1, <2>2 DEF DataNodeStep
<1>11. ReplicatorStep => CalmStep /\ Calm'
  <2>1. ReplicatorStep => size' = size /\ handle' = handle
    BY <1>3 DEF ReplicatorStep, findUnderReplicatedTasks, Mark, triggerReplicate, CopyFails,
           Commit, Complete, rollbackStatus, BackToComplete, tree, clients,
           applyUpdateStatus, applyUpdateReplicas
  <2>2. ASSUME NEW n \in Addr, triggerReplicate(n) \/ CopyFails(n)
        PROVE  CalmStep /\ \A c \in copies' : c.wanted
    BY <1>2, <2>2 DEF triggerReplicate, Call, CalmStep, Calm
  <2>3. ASSUME ReplicatorStep, ~\E n \in Addr : triggerReplicate(n) \/ CopyFails(n)
        PROVE  CalmStep /\ \A c \in copies' : c.wanted
    <3>1. copies' = copies
      BY <1>3, <2>3 DEF ReplicatorStep, findUnderReplicatedTasks, Mark,
                        Commit, Complete, rollbackStatus, BackToComplete
    <3>2. CalmStep
      BY <1>3, <2>3 DEF ReplicatorStep, CalmStep
    <3> QED
      BY <3>1, <3>2 DEF Calm
  <2> QED
    BY <2>1, <2>2, <2>3 DEF Calm
<1>12. UNCHANGED rvars => CalmStep /\ Calm'
  BY <1>1 DEF rvars, tree, clients, CalmStep
<1> QED
  BY <1>9, <1>10, <1>11, <1>12 DEF RNext

Undone == ListsHold /\ Planned /\ Copying

\* Every call is the answer that the replicator waits for.
LEMMA CallsOfTask ==
  ASSUME RBase, Calm
  PROVE  /\ \A c \in copies : /\ rep.pc = "copy" /\ c.id = rep.task.id
                              /\ c.to \in rep.waiting \ rep.calls
         /\ \A c, d \in copies : c.to = d.to => c = d
  BY DEF RBase, TasksOfFiles, Calm

LEMMA LeaveNodes ==
  ASSUME NEW tasks
  PROVE  Leave(tasks).nodes = rep.nodes
  BY DEF Leave, IdleRep

\* The scan sees every file once, with its replicas on registered nodes.
LEMMA ScanPlans ==
  ASSUME RBase, Calm, Undone, NEW batch \in SUBSET Path, findUnderReplicatedTasks(batch)
  PROVE  Undone'
<1> USE TypeFacts
<1> DEFINE tasks == {RepairTask(p) : p \in batch}
<1>1. /\ rep.pc = "scan" /\ batch \subseteq UnderReplicated
      /\ rep' = [rep EXCEPT !.tasks = tasks, !.nodes = dataNodes]
      /\ UNCHANGED <<content, copies, replicas, kind, children>>
  BY DEF findUnderReplicatedTasks, tree
<1>2. \A t \in tasks : \E p \in batch : t = RepairTask(p)
  OBVIOUS
<1>3. \A p \in batch : /\ p \in Path /\ lookup(p) \in Files /\ lookup(p) # Nil
                       /\ RepairTask(p).id = lookup(p)
                       /\ RepairTask(p).size = FileSize
                       /\ RepairTask(p).replicas = AliveReplicas(lookup(p))
  BY <1>1, TaskOfScan, ConstFacts, NamespaceAssumption DEF Calm
<1> HIDE DEF tasks
<1>4. rep'.pc = "scan" /\ rep'.tasks = tasks /\ rep'.nodes = dataNodes
  BY <1>1 DEF Reps
<1>5. ListsHold'
  BY <1>1 DEF Undone, ListsHold, Holds
<1>6. Copying'
  BY <1>4 DEF Copying
<1>7. \A t \in tasks : Seen(t)'
  BY <1>1, <1>2, <1>3, <1>4 DEF Seen, AliveReplicas
<1>8. \A t, u \in tasks : t.id = u.id => t = u
  <2>1. \A p, q \in batch : lookup(p) = lookup(q) => p = q
    BY <1>3, PathsDiffer
  <2> QED
    BY <1>2, <1>3, <2>1
<1>9. Planned'
  BY <1>4, <1>7, <1>8 DEF Planned
<1> QED
  BY <1>5, <1>6, <1>9 DEF Undone

\* The targets of a repair hold no replica.
LEMMA MarkPlans ==
  ASSUME RBase, Calm, Undone, NEW t \in rep.tasks, NEW T \in SUBSET Addr, Mark(t, T)
  PROVE  Undone'
<1> USE TypeFacts
<1> DEFINE L == Leave(rep.tasks \ {t})
<1>1. t \in Task /\ rep.tasks \ {t} \in SUBSET Task /\ t.path \in Path
  BY DEF Reps, Task
<1>2. /\ L \in Reps /\ L.pc = "scan" /\ L.tasks = rep.tasks \ {t} /\ L.copied = {}
      /\ L.nodes = rep.nodes
  BY <1>1, LeaveFacts, LeaveNodes
<1>3. /\ rep.pc = "scan" /\ copies' = copies /\ content' = content
      /\ T \in selectTargetNodes(t)
  BY DEF Mark
<1>4. replicas' = replicas
  BY <1>1, StatusStep DEF Mark, tree
<1>5. \/ rep' = [L EXCEPT !.pc = "rollback", !.task = t]
      \/ \E s \in t.replicas : rep' = [L EXCEPT !.pc = "copy", !.task = t,
                                         !.source = s, !.calls = T, !.waiting = T]
      \/ rep' = L
  BY DEF Mark
<1> HIDE DEF L
<1>6. /\ rep'.tasks = rep.tasks \ {t} /\ rep'.nodes = rep.nodes
      /\ rep'.pc # "scan" => rep'.task = t
  <2>1. CASE rep' = L
    BY <1>2, <2>1
  <2>2. CASE rep' # L
    BY <1>2, <1>5, <2>2 DEF Reps
  <2> QED
    BY <2>1, <2>2
<1>7. rep'.pc = "copy" =>
        /\ rep'.source \in t.replicas /\ rep'.waiting = T /\ rep'.copied = {}
  BY <1>2, <1>5 DEF Reps
<1>8. T \subseteq rep.nodes \ {r[1] : r \in t.replicas}
  BY <1>3 DEF selectTargetNodes
<1>9. copies = {}
  BY <1>3, CallsOfTask
<1>10. ListsHold'
  BY <1>3, <1>4 DEF Undone, ListsHold, Holds
<1>11. \A u \in rep.tasks : Seen(u)'
  BY <1>4, <1>6 DEF Undone, Planned, Seen
<1>12. Planned'
  BY <1>6, <1>11 DEF Undone, Planned
<1>13. Copying'
  BY <1>3, <1>6, <1>7, <1>8, <1>9 DEF Copying
<1> QED
  BY <1>10, <1>12, <1>13 DEF Undone

\* A call that starts has copied nothing.
LEMMA CallPlans ==
  ASSUME RBase, Calm, Undone, NEW n \in Addr, triggerReplicate(n)
  PROVE  Undone'
<1> USE TypeFacts
<1> DEFINE c == [to |-> n, from |-> rep.source, id |-> rep.task.id,
                 size |-> rep.task.size, off |-> -1, wanted |-> TRUE]
<1>1. /\ rep.pc = "copy" /\ copies' = copies \cup {c}
      /\ rep' = [rep EXCEPT !.calls = @ \ {n}]
      /\ UNCHANGED <<content, replicas>>
  BY DEF triggerReplicate, Call, tree
<1>2. c.from = rep.source /\ c.size = FileSize /\ c.off = -1 /\ -1 <= FileSize
  BY <1>1, ConstFacts DEF Undone, Planned, Seen
<1> HIDE DEF c
<1>3. /\ rep'.pc = "copy" /\ rep'.tasks = rep.tasks /\ rep'.task = rep.task
      /\ rep'.nodes = rep.nodes /\ rep'.source = rep.source
      /\ rep'.waiting = rep.waiting /\ rep'.copied = rep.copied
  BY <1>1 DEF Reps
<1>4. ListsHold'
  BY <1>1 DEF Undone, ListsHold, Holds
<1>5. Planned'
  BY <1>1, <1>3 DEF Undone, Planned, Seen
<1>6. Copying'
  <2>1. \A n1 \in rep.copied : Holds(n1, rep.task.id)'
    BY <1>1, <1>3 DEF Undone, Copying, Holds
  <2>2. \A d \in copies' : /\ d.from = rep.source /\ d.size = FileSize /\ d.off <= FileSize
                           /\ d.off # -1 => content[d.to][d.id] = Zeros(d.off)
    BY <1>1, <1>2 DEF Undone, Copying
  <2> QED
    BY <1>1, <1>3, <2>1, <2>2 DEF Undone, Copying
<1> QED
  BY <1>4, <1>5, <1>6 DEF Undone

LEMMA FailPlans ==
  ASSUME RBase, Calm, Undone, NEW n \in Addr, CopyFails(n),
         copies' = copies \ {c \in copies : c.to = n}
  PROVE  Undone'
<1> USE TypeFacts
<1>1. /\ rep.pc = "copy" /\ copies' \subseteq copies
      /\ rep' = [rep EXCEPT !.calls = @ \ {n}, !.waiting = @ \ {n}]
      /\ UNCHANGED <<content, replicas>>
  BY DEF CopyFails, tree
<1>2. /\ rep'.pc = "copy" /\ rep'.tasks = rep.tasks /\ rep'.task = rep.task
      /\ rep'.nodes = rep.nodes /\ rep'.source = rep.source
      /\ rep'.waiting \subseteq rep.waiting /\ rep'.copied = rep.copied
  BY <1>1 DEF Reps
<1>3. ListsHold'
  BY <1>1 DEF Undone, ListsHold, Holds
<1>4. Planned'
  BY <1>1, <1>2 DEF Undone, Planned, Seen
<1>5. Copying'
  <2>1. \A m \in rep.copied : Holds(m, rep.task.id)'
    BY <1>1, <1>2 DEF Undone, Copying, Holds
  <2> QED
    BY <1>1, <1>2, <2>1 DEF Undone, Copying
<1> QED
  BY <1>3, <1>4, <1>5 DEF Undone

\* The new list: replicas that were listed, and copies that are done.
LEMMA CommitPlans ==
  ASSUME RBase, TaskOf, Calm, Undone, Commit
  PROVE  Undone'
<1> USE TypeFacts
<1> DEFINE L == Leave(rep.tasks)
           t == rep.task
           new == t.replicas \cup (rep.copied \X {t.id})
<1>1. /\ L \in Reps /\ L.pc = "scan" /\ L.tasks = rep.tasks /\ L.nodes = rep.nodes
  BY LeaveFacts, LeaveNodes DEF Reps
<1>2. /\ rep.pc = "copy" /\ rep.waiting = {} /\ copies' = copies /\ content' = content
      /\ \/ /\ applyUpdateReplicas(t.path, new)
            /\ rep' = [L EXCEPT !.pc = "complete", !.task = t]
         \/ rep' = L /\ replicas' = replicas
  BY DEF Commit, tree
<1>3. t \in Task /\ t.path \in Path /\ t.id \in Files /\ t.id \in Entry
  BY <1>2, ConstFacts DEF Reps, Task, RBase, TasksOfFiles
<1>4. new \in SUBSET Replica
  BY <1>3 DEF Reps, Task, Replica
<1> HIDE DEF L, new
<1>5. /\ rep'.tasks = rep.tasks /\ rep'.nodes = rep.nodes /\ rep'.pc # "copy"
      /\ rep'.pc # "scan" => rep'.task = t
  BY <1>1, <1>2, <1>3 DEF Reps
<1>6. \A e \in Entry : replicas'[e] = replicas[e] \/ (e = t.id /\ replicas'[e] = new)
  <2>1. CASE applyUpdateReplicas(t.path, new)
    <3>1. /\ lookup(t.path) \in Files
          /\ \A e \in Entry : replicas'[e] = IF e = lookup(t.path) THEN new ELSE replicas[e]
      BY <1>3, <1>4, <2>1, ReplicasStep
    <3>2. lookup(t.path) = t.id
      BY <1>2, <3>1, ConstFacts, NamespaceAssumption DEF TaskOf, Tasks
    <3> QED
      BY <3>1, <3>2
  <2>2. CASE replicas' = replicas
    BY <2>2
  <2> QED
    BY <1>2, <2>1, <2>2
<1>7. \A r \in new : r[2] = t.id /\ Holds(r[1], t.id)
  <2>1. \A r \in t.replicas : r[2] = t.id /\ Holds(r[1], t.id)
    BY <1>2, <1>3 DEF Undone, Planned, Seen, ListsHold
  <2>2. \A n \in rep.copied : Holds(n, t.id)
    BY <1>2 DEF Undone, Copying
  <2> QED
    BY <2>1, <2>2 DEF new
<1>8. ListsHold'
  <2>1. \A e \in Entry \ Files : replicas'[e] = {}
    BY <1>3, <1>6 DEF Undone, ListsHold
  <2>2. \A f \in Files : \A r \in replicas'[f] : r[2] = f /\ Holds(r[1], f)
    BY <1>6, <1>7, ConstFacts DEF Undone, ListsHold
  <2> QED
    BY <1>2, <2>1, <2>2 DEF ListsHold, Holds
<1>9. \A u \in rep.tasks : u.id \in Entry /\ u.id # t.id
  BY <1>2, ConstFacts DEF Undone, Planned, RBase, TasksOfFiles
<1>10. Planned'
  <2>1. \A u \in rep.tasks : Seen(u)'
    BY <1>5, <1>6, <1>9 DEF Undone, Planned, Seen
  <2> QED
    BY <1>5, <1>9, <2>1 DEF Undone, Planned
<1>11. Copying'
  BY <1>5 DEF Copying
<1> QED
  BY <1>8, <1>10, <1>11 DEF Undone

LEMMA BackPlans ==
  ASSUME RBase, Calm, Undone, Complete \/ rollbackStatus
  PROVE  Undone'
<1> USE TypeFacts
<1>1. /\ copies' = copies /\ content' = content /\ rep' = Leave(rep.tasks)
  BY DEF Complete, rollbackStatus, BackToComplete
<1>2. rep'.tasks = rep.tasks /\ rep'.nodes = rep.nodes /\ rep'.pc = "scan"
  BY <1>1, LeaveFacts, LeaveNodes DEF Reps
<1>3. rep.task.path \in Path
  BY DEF Reps, Task
<1>4. replicas' = replicas
  BY <1>3, StatusStep DEF Complete, rollbackStatus, BackToComplete, tree
<1>5. ListsHold'
  BY <1>1, <1>4 DEF Undone, ListsHold, Holds
<1>6. Planned'
  BY <1>2, <1>4 DEF Undone, Planned, Seen
<1>7. Copying'
  BY <1>2 DEF Copying
<1> QED
  BY <1>5, <1>6, <1>7 DEF Undone

\* Truncating the local file, and writing the next block.
LEMMA ZerosGrow ==
  /\ Zeros(0) = <<>>
  /\ \A k \in Nat : Len(Zeros(k)) = k /\ WriteBlock(Zeros(k), k + 1, 0) = Zeros(k + 1)
<1>1. Zeros(0) = <<>>
  BY DEF Zeros
<1>2. ASSUME NEW k \in Nat
      PROVE  Len(Zeros(k)) = k /\ WriteBlock(Zeros(k), k + 1, 0) = Zeros(k + 1)
  <2>1. Len(Zeros(k)) = k
    BY DEF Zeros
  <2>2. \A j \in 1..(k + 1) : j # k + 1 => j \in 1..k /\ j <= k
    OBVIOUS
  <2>3. k + 1 > k /\ \A j \in 1..k : Zeros(k)[j] = 0
    BY DEF Zeros
  <2>4. WriteBlock(Zeros(k), k + 1, 0) =
          [j \in 1..(k + 1) |-> CASE j = k + 1 -> 0
                                  [] j # k + 1 /\ j <= k -> Zeros(k)[j]
                                  [] OTHER -> Hole]
    BY <2>1, <2>3 DEF WriteBlock
  <2>5. \A j \in 1..(k + 1) : (CASE j = k + 1 -> 0
                                  [] j # k + 1 /\ j <= k -> Zeros(k)[j]
                                  [] OTHER -> Hole) = 0
    BY <2>2, <2>3
  <2>6. Zeros(k + 1) = [j \in 1..(k + 1) |-> 0]
    BY DEF Zeros
  <2> QED
    BY <2>1, <2>4, <2>5, <2>6
<1> QED
  BY <1>1, <1>2

\* A copy writes where no list and no finished copy is.
LEMMA CopyApart ==
  ASSUME RBase, Calm, Undone, NEW c \in copies, ReplicateFile(c)
  PROVE  /\ \A f \in Files : \A r \in replicas[f] : Holds(r[1], f)'
         /\ rep.pc = "copy" => \A n \in rep.copied : Holds(n, rep.task.id)'
<1> USE TypeFacts
<1>1. /\ rep.pc = "copy" /\ c.id = rep.task.id /\ c.to \in rep.waiting
      /\ c.to \in rep.nodes /\ c.to \notin {r[1] : r \in rep.task.replicas}
      /\ c.to \notin rep.copied
      /\ rep.task.id \in Files /\ rep.task.id \in Entry /\ rep.copied \subseteq Addr
  BY CallsOfTask, ConstFacts DEF Undone, Copying, RBase, TasksOfFiles, Reps
<1>2. \A m \in Addr, x \in Entry :
        ~(m = c.to /\ x = c.id) => content'[m][x] = content[m][x]
  BY CopyStep
<1>3. ASSUME NEW f \in Files, NEW r \in replicas[f]
      PROVE  Holds(r[1], f)'
  <2>1. f \in Entry /\ r[1] \in Addr /\ r[2] = f
    BY ConstFacts DEF TypeOK, Undone, ListsHold
  <2>2. ~(r[1] = c.to /\ f = c.id)
    <3>1. SUFFICES ASSUME r[1] = c.to, f = c.id PROVE FALSE
      OBVIOUS
    <3>2. r \in rep.task.replicas
      BY <1>1, <3>1 DEF Undone, Planned, Seen
    <3> QED
      BY <1>1, <3>1, <3>2
  <2> QED
    BY <1>2, <2>1, <2>2 DEF Undone, ListsHold, Holds
<1>4. \A n \in rep.copied : Holds(n, rep.task.id)'
  <2>1. \A n \in rep.copied : /\ n \in Addr /\ n # c.to
                              /\ content[n][rep.task.id] = Zeros(FileSize)
    BY <1>1 DEF Undone, Copying, Holds
  <2>2. rep'.task = rep.task
    BY DEF ReplicateFile, ReplicateOpen, ReplicateChunk, ReplicateReply, Reps
  <2> QED
    BY <1>1, <1>2, <2>1, <2>2 DEF Holds
<1> QED
  BY <1>3, <1>4

\* What a copy does to its file.
LEMMA CopyGrows ==
  ASSUME RBase, Calm, Undone, NEW c \in copies, ReplicateOpen(c) \/ ReplicateChunk(c)
  PROVE  \E k \in 0..FileSize :
           /\ copies' = (copies \ {c}) \cup {[c EXCEPT !.off = k]}
           /\ content'[c.to][c.id] = Zeros(k)
<1> USE TypeFacts
<1>0. /\ c.to \in Addr /\ c.id \in Entry /\ c.off \in -1..MaxBlocks
      /\ rep.pc = "copy" /\ c.id = rep.task.id
      /\ c.from = rep.source /\ c.size = FileSize
      /\ c.off # -1 => content[c.to][c.id] = Zeros(c.off)
      /\ FileSize \in Nat /\ MaxBlocks \in Nat
  BY CallsOfTask, ConstFacts DEF Undone, Copying, Copies
<1>1. CASE ReplicateOpen(c)
  <2>1. /\ content' = [content EXCEPT ![c.to][c.id] = <<>>]
        /\ copies' = (copies \ {c}) \cup {[c EXCEPT !.off = 0]}
    BY <1>1 DEF ReplicateOpen
  <2>2. content'[c.to][c.id] = <<>>
    BY <1>0, <2>1 DEF Contents
  <2> QED
    BY <1>0, <2>1, <2>2, ZerosGrow
<1>2. CASE ReplicateChunk(c)
  <2> DEFINE k == c.off + 1
             s == content[c.from[1]][c.from[2]]
             v == RangeRead(c.from, c.off)[1]
  <2>1. /\ c.off \in 0..(c.size - 1)
        /\ content' = [content EXCEPT ![c.to][c.id] = WriteBlock(@, k, v)]
        /\ copies' = (copies \ {c}) \cup {[c EXCEPT !.off = k]}
    BY <1>2 DEF ReplicateChunk
  <2>2. k \in 0..FileSize /\ c.off \in Nat /\ c.off < FileSize /\ k \in 1..FileSize
    BY <1>0, <2>1
  <2>3. s = Zeros(FileSize)
    <3>1. rep.source \in replicas[rep.task.id] /\ rep.task.id \in Files
      BY <1>0 DEF Undone, Copying, Planned, Seen, RBase, TasksOfFiles
    <3> QED
      BY <1>0, <3>1 DEF Undone, ListsHold, Holds
  <2>4. v = 0
    <3>1. Len(s) = FileSize
      BY <1>0, <2>3, ZerosGrow
    <3>2. s[k] = 0
      BY <2>2, <2>3 DEF Zeros
    <3>3. RangeRead(c.from, c.off) = IF c.off < Len(s) THEN <<s[k]>> ELSE <<>>
      BY DEF RangeRead
    <3> HIDE DEF s, k
    <3> QED
      BY <2>2, <3>1, <3>2, <3>3
  <2>5. content[c.to][c.id] = Zeros(c.off)
    BY <1>0, <2>2
  <2>6. content'[c.to][c.id] = WriteBlock(content[c.to][c.id], k, v)
    <3> HIDE DEF k, v
    <3> DEFINE b == WriteBlock(content[c.to][c.id], k, v)
    <3>1. content' = [content EXCEPT ![c.to][c.id] = b]
      BY <2>1
    <3> HIDE DEF b
    <3>2. content'[c.to][c.id] = b
      BY <1>0, <3>1 DEF Contents
    <3> QED
      BY <3>2 DEF b
  <2>7. content'[c.to][c.id] = Zeros(k)
    BY <2>2, <2>4, <2>5, <2>6, ZerosGrow
  <2> QED
    BY <2>1, <2>2, <2>7
<1> QED
  BY <1>1, <1>2

LEMMA CopyPlans ==
  ASSUME RBase, Calm, Undone, NEW c \in copies, ReplicateFile(c)
  PROVE  Undone'
<1> USE TypeFacts
<1>0. /\ rep.pc = "copy" /\ c.id = rep.task.id /\ c.to \in rep.waiting /\ c.wanted
      /\ c \in Copies /\ c.to \in Addr /\ c.id \in Entry /\ c.size = FileSize
      /\ c.from = rep.source
      /\ \A d \in copies \ {c} : d.to # c.to
      /\ \A d \in copies : d.to \in Addr /\ d.id \in Entry
  BY CallsOfTask DEF Calm, Undone, Copying, Copies
<1>1. /\ rep'.pc = "copy" /\ rep'.tasks = rep.tasks /\ rep'.task = rep.task
      /\ rep'.nodes = rep.nodes /\ rep'.source = rep.source /\ replicas' = replicas
  BY <1>0 DEF ReplicateFile, ReplicateOpen, ReplicateChunk, ReplicateReply, Reps, tree
<1>2. ListsHold'
  BY <1>1, CopyApart DEF Undone, ListsHold
<1>3. Planned'
  BY <1>0, <1>1 DEF Undone, Planned, Seen
<1>4. \A d \in copies \ {c} :
        /\ d.from = rep.source /\ d.size = FileSize /\ d.off <= FileSize
        /\ d.off # -1 => content'[d.to][d.id] = Zeros(d.off)
  BY <1>0, CopyStep DEF Undone, Copying
<1>5. CASE ReplicateOpen(c) \/ ReplicateChunk(c)
  <2>1. PICK k \in 0..FileSize : /\ copies' = (copies \ {c}) \cup {[c EXCEPT !.off = k]}
                                 /\ content'[c.to][c.id] = Zeros(k)
    BY <1>5, CopyGrows
  <2>2. rep' = rep
    BY <1>5 DEF ReplicateOpen, ReplicateChunk
  <2> DEFINE d == [c EXCEPT !.off = k]
  <2>3. d.to = c.to /\ d.id = c.id /\ d.from = c.from /\ d.size = c.size /\ d.off = k
    BY <1>0 DEF Copies
  <2>4. copies' = (copies \ {c}) \cup {d}
    BY <2>1
  <2> HIDE DEF d
  <2>5. k <= FileSize
    BY ConstFacts
  <2>6. \A x \in copies' :
          /\ x.from = rep.source /\ x.size = FileSize /\ x.off <= FileSize
          /\ x.off # -1 => content'[x.to][x.id] = Zeros(x.off)
    BY <1>0, <1>4, <2>1, <2>3, <2>4, <2>5
  <2>7. Copying'
    BY <1>0, <2>2, <2>6, CopyApart DEF Undone, Copying
  <2> QED
    BY <1>2, <1>3, <2>7 DEF Undone
<1>6. CASE ReplicateReply(c)
  <2>1. /\ c.off = c.size /\ copies' = copies \ {c} /\ content' = content
        /\ rep' = [rep EXCEPT !.waiting = @ \ {c.to}, !.copied = @ \cup {c.to}]
    BY <1>0, <1>6 DEF ReplicateReply
  <2>2. rep'.waiting = rep.waiting \ {c.to} /\ rep'.copied = rep.copied \cup {c.to}
    BY <2>1 DEF Reps
  <2>3. content[c.to][c.id] = Zeros(FileSize)
    BY <1>0, <2>1, ConstFacts DEF Undone, Copying
  <2>4. \A n \in rep'.copied : Holds(n, rep.task.id)'
    <3>1. \A n \in rep.copied : Holds(n, rep.task.id)
      BY <1>0 DEF Undone, Copying
    <3>2. \A n \in rep'.copied : content[n][rep.task.id] = Zeros(FileSize)
      BY <1>0, <2>2, <2>3, <3>1 DEF Holds
    <3> QED
      BY <1>1, <2>1, <3>2 DEF Holds
  <2>5. /\ rep'.waiting \cup rep'.copied \subseteq rep.nodes \ {r[1] : r \in rep.task.replicas}
        /\ rep'.waiting \cap rep'.copied = {} /\ rep.source \in rep.task.replicas
    BY <1>0, <2>2 DEF Undone, Copying
  <2>6. Copying'
    BY <1>1, <1>4, <2>1, <2>4, <2>5 DEF Copying
  <2> QED
    BY <1>2, <1>3, <2>6 DEF Undone
<1> QED
  BY <1>5, <1>6 DEF ReplicateFile

LEMMA NextQInv ==
  ASSUME Undisturbed
  PROVE  QInv /\ [RNext]_rvars => QInv'
<1> SUFFICES ASSUME QInv, [RNext]_rvars PROVE QInv'
  OBVIOUS
<1>1. RBase /\ TaskOf /\ Calm /\ Undone
  BY DEF QInv, Undone
<1>2. RBase'
  BY <1>1, NextRBase
<1>3. TaskOf'
  BY <1>1, NextTaskOf DEF OneFile, Undisturbed
<1>4. CalmStep /\ Calm'
  BY <1>1, OnlyCalmSteps
<1>5. Undone'
  <2>1. CASE UNCHANGED <<rep, copies, content, replicas>>
    BY <1>1, <2>1 DEF Undone, ListsHold, Planned, Copying, Holds, Seen
  <2> QED
    BY <1>1, <1>4, <2>1, ScanPlans, MarkPlans, CallPlans, FailPlans, CommitPlans, BackPlans,
       CopyPlans DEF CalmStep
<1> QED
  BY <1>2, <1>3, <1>4, <1>5 DEF QInv, Undone

LEMMA InitQInv ==
  ASSUME RInit, ~Partial
  PROVE  QInv
<1>1. RBase /\ TaskOf
  BY InitSInv DEF SInv
<1>2. PICK at \in [Files -> Name], addrs \in [Files -> SUBSET Addr],
           stored \in [Files -> (SUBSET Addr) \ {{}}] : StartWith(at, addrs, stored)
  BY DEF RInit
<1>3. /\ copies = {} /\ rep = IdleRep /\ handle = [h \in Handle |-> ClosedHandle]
      /\ size = [e \in Entry |-> IF e \in Files THEN FileSize ELSE 0]
      /\ replicas = [e \in Entry |-> IF e \in Files THEN addrs[e] \X {e} ELSE {}]
      /\ \A f \in Files : stored[f] = addrs[f]
  BY <1>2 DEF StartWith
<1>4. content = [n \in Addr |-> [f \in Entry |->
        IF f \in Files /\ n \in stored[f] THEN [i \in 1..FileSize |-> 0] ELSE <<>>]]
  BY <1>2 DEF StartWith
<1>5. Calm
  BY <1>3, ConstFacts DEF Calm, ClosedHandle
<1>6. ListsHold
  <2>1. ASSUME NEW f \in Files, NEW r \in replicas[f]
        PROVE  r[2] = f /\ Holds(r[1], f)
    <3>1. f \in Entry /\ r \in addrs[f] \X {f} /\ addrs[f] \in SUBSET Addr
      BY <1>3, <2>1, ConstFacts
    <3>2. r[2] = f /\ r[1] \in Addr /\ r[1] \in stored[f]
      BY <1>3, <3>1
    <3> QED
      BY <1>4, <3>1, <3>2 DEF Holds, Zeros
  <2>2. \A e \in Entry \ Files : replicas[e] = {}
    BY <1>3
  <2> QED
    BY <2>1, <2>2 DEF ListsHold
<1>7. Planned /\ Copying
  BY <1>3 DEF Planned, Copying, IdleRep
<1> QED
  BY <1>1, <1>5, <1>6, <1>7 DEF QInv

\* Without writes, renames, lost replies and leader changes, every replica
\* that the metadata lists has all blocks of its file, and a copy that was
\* reported equals its source until it is listed.
LEMMA QInvHolds ==
  ASSUME QInv
  PROVE  ListedHoldData /\ CopiesFaithful
<1>1. RBase /\ Calm /\ Undone
  BY DEF QInv, Undone
<1> USE TypeFacts
<1>2. ListedHoldData
  <2>1. ASSUME NEW e \in Reachable, NEW r \in replicas[e]
        PROVE  Len(content[r[1]][r[2]]) >= size[e]
    <3>1. e \in Entry
      BY <2>1 DEF Reachable
    <3>2. e \in Files
      BY <1>1, <2>1, <3>1 DEF Undone, ListsHold
    <3>3. content[r[1]][r[2]] = Zeros(FileSize) /\ size[e] = FileSize
      BY <1>1, <2>1, <3>2 DEF Undone, ListsHold, Holds, Calm
    <3> QED
      BY <3>3, ConstFacts, ZerosGrow
  <2> QED
    BY <2>1 DEF ListedHoldData
<1>3. CopiesFaithful
  <2>1. ASSUME NEW n \in rep.copied, rep.pc = "copy"
        PROVE  content[n][rep.task.id] = content[rep.source[1]][rep.source[2]]
    <3>1. rep.source \in replicas[rep.task.id] /\ rep.task.id \in Files
      BY <1>1, <2>1 DEF Undone, Copying, Planned, Seen, RBase, TasksOfFiles
    <3> QED
      BY <1>1, <2>1, <3>1 DEF Undone, Copying, ListsHold, Holds
  <2> QED
    BY <2>1 DEF CopiesFaithful
<1> QED
  BY <1>2, <1>3

\* As long as clients only read, no call outlives its reply and one MDS
\* leads: a replica is listed only when its copy is complete, whatever nodes
\* are removed, come back and fail their copies.
THEOREM ListedReplicasHoldData ==
  ASSUME ~Partial, ~Renames, MaxWrites = 0, MaxLate = 0, MaxTerm = 0
  PROVE  RSpec => []ListedHoldData
<1>1. Undisturbed
  BY DEF Undisturbed
<1>2. RInit => QInv
  BY InitQInv
<1>3. QInv /\ [RNext]_rvars => QInv'
  BY <1>1, NextQInv
<1>4. QInv => ListedHoldData
  BY QInvHolds
<1> QED
  BY <1>2, <1>3, <1>4, PTL DEF RSpec

\* Under the same conditions a copy that a data node reported equals its
\* source until the list is committed: no target is truncated again.
THEOREM ReportedCopiesFaithful ==
  ASSUME ~Partial, ~Renames, MaxWrites = 0, MaxLate = 0, MaxTerm = 0
  PROVE  RSpec => []CopiesFaithful
<1>1. Undisturbed
  BY DEF Undisturbed
<1>2. RInit => QInv
  BY InitQInv
<1>3. QInv /\ [RNext]_rvars => QInv'
  BY <1>1, NextQInv
<1>4. QInv => CopiesFaithful
  BY QInvHolds
<1> QED
  BY <1>2, <1>3, <1>4, PTL DEF RSpec
=============================================================================
