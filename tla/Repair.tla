------------------------------ MODULE Repair ------------------------------
(***************************************************************************)
(* Re-replication: the replicator of the leading MDS                        *)
(* (internal/metadata/replicator.go) finds complete files with too few      *)
(* replicas on registered data nodes, has other data nodes pull copies      *)
(* (DataNode.ReplicateFile, internal/datanode/datanode.go) and commits the  *)
(* new replica lists to the tree of Namespace.  Meanwhile data nodes are    *)
(* removed and come back, clients rename files and write through open       *)
(* handles (internal/client/file_handle.go), and the leader may change.     *)
(*                                                                          *)
(* A file's bytes are a sequence of blocks of replicateChunkSize.  A block  *)
(* is the number of the write that produced it, 0 in the files that are     *)
(* there at the start and Hole where a sparse file was never written.  A    *)
(* data node reads a file it does not have as an empty one (RangeRead), so  *)
(* <<>> stands for both.  mds.repairing is left out: one goroutine repairs  *)
(* one file at a time and removes the mark before it scans again.           *)
(***************************************************************************)
EXTENDS Namespace, Integers, FiniteSets

CONSTANTS
  Files,         \* the files that exist at the start, all complete
  FileSize,      \* their size
  ReplicaCount,  \* mds.replicaCount
  BatchSize,     \* replicateBatchSize
  Handle,        \* file handles of clients
  Hole,          \* a block of zeros
  Renames,       \* whether clients rename files
  Partial,       \* whether PutFile failed to reach some replicas
  MaxBlocks,     \* bound: blocks of the longest file
  MaxWrites,     \* bound: WriteAt calls
  MaxRemovals,   \* bound: data nodes removed
  MaxLate,       \* bound: copies that go on after their call was lost
  MaxTerm        \* bound: leader changes

ASSUME RepairAssumption ==
  /\ Files \subseteq Entry \ {Root}
  /\ {FileSize, BatchSize, MaxBlocks, MaxWrites, MaxRemovals, MaxLate, MaxTerm}
       \subseteq Nat
  /\ IsFiniteSet(Addr) /\ ReplicaCount \in 1..Cardinality(Addr)
  /\ BatchSize > 0 /\ FileSize <= MaxBlocks /\ Size = 0..MaxBlocks
  /\ Renames \in BOOLEAN /\ Partial \in BOOLEAN

VARIABLES
  dataNodes,  \* mds.dataNodes: the registered nodes
  removals,   \* how many were removed so far
  content,    \* content[n][f]: the blocks of /data/f on node n
  copies,     \* the ReplicateFile calls that run on data nodes
  rep,        \* where the replicator of the leader is
  term,       \* counts the leader changes
  handle,     \* handle[h]: an open file
  writes      \* how many WriteAt calls began

tree == <<kind, children, fileID, status, size, replicas>>
clients == <<handle, writes>>
rvars == <<tree, dataNodes, removals, content, copies, rep, term, clients>>

NoTask == [path |-> <<>>, id |-> Nil, size |-> 0, replicas |-> {}]

IdleRep == [pc |-> "scan", tasks |-> {}, nodes |-> {}, task |-> NoTask,
            source |-> <<>>, calls |-> {}, waiting |-> {}, copied |-> {}]

ClosedHandle == [pc |-> "closed", path |-> <<>>, replicas |-> {}, size |-> 0,
            block |-> 0, ver |-> 0, todo |-> {}, ok |-> TRUE]

Block == 0..MaxWrites \cup {Hole}
Blocks == UNION {[1..n -> Block] : n \in 0..MaxBlocks}
Replica == Addr \X Entry
Task == [path : Path, id : Entry \cup {Nil}, size : 0..MaxBlocks,
         replicas : SUBSET Replica]

RTypeOK ==
  /\ TypeOK
  /\ dataNodes \in SUBSET Addr
  /\ removals \in 0..MaxRemovals
  /\ content \in [Addr -> [Entry -> Blocks]]
  /\ copies \subseteq [to : Addr, from : Replica, id : Entry,
                       size : 0..MaxBlocks, off : -1..MaxBlocks, wanted : BOOLEAN]
  /\ rep.pc \in {"scan", "mark", "copy", "complete", "rollback"}
  /\ rep.tasks \subseteq Task /\ rep.task \in Task
  /\ rep.nodes \subseteq Addr /\ rep.source \in Replica \cup {<<>>}
  /\ rep.calls \subseteq rep.waiting /\ rep.waiting \cup rep.copied \subseteq Addr
  /\ term \in 0..MaxTerm /\ writes \in 0..MaxWrites
  /\ handle \in [Handle ->
       [pc : {"closed", "open", "writing"}, path : Path, replicas : SUBSET Replica,
        size : 0..MaxBlocks, block : 0..MaxBlocks, ver : 0..MaxWrites,
        todo : SUBSET Replica, ok : BOOLEAN]]

\* The files of the start hang in the root under the names at, each with
\* ReplicaCount replicas.  PutFile reports success when it stored one of them.
StartWith(at, addrs, stored) ==
  /\ \A f, g \in Files : at[f] = at[g] => f = g
  /\ \A f \in Files :
       /\ Cardinality(addrs[f]) = ReplicaCount
       /\ IF Partial THEN stored[f] \subseteq addrs[f]
                                 ELSE stored[f] = addrs[f]
  /\ kind = [e \in Entry |-> CASE e = Root -> "dir"
                               [] e \in Files -> "file"
                               [] OTHER -> "free"]
  /\ children = [e \in Entry |-> [n \in Name |->
       IF e = Root /\ \E f \in Files : at[f] = n
       THEN CHOOSE f \in Files : at[f] = n ELSE Nil]]
  /\ fileID = [e \in Entry |-> IF e \in Files THEN e ELSE Nil]
  /\ status = [e \in Entry |-> IF e \in Files THEN "complete" ELSE "none"]
  /\ size = [e \in Entry |-> IF e \in Files THEN FileSize ELSE 0]
  /\ replicas = [e \in Entry |-> IF e \in Files THEN addrs[e] \X {e} ELSE {}]
  /\ content = [n \in Addr |-> [f \in Entry |->
       IF f \in Files /\ n \in stored[f] THEN [i \in 1..FileSize |-> 0] ELSE <<>>]]
  /\ dataNodes = Addr /\ removals = 0
  /\ copies = {}
  /\ rep = IdleRep /\ term = 0
  /\ handle = [h \in Handle |-> ClosedHandle] /\ writes = 0

RInit ==
  \E at \in [Files -> Name], addrs \in [Files -> SUBSET Addr],
     stored \in [Files -> (SUBSET Addr) \ {{}}] : StartWith(at, addrs, stored)

----------------------------------------------------------------------------
(* Membership.                                                              *)

applyHeartbeat(n) == dataNodes' = dataNodes \cup {n}

applyRemoveDataNode(n) == dataNodes' = dataNodes \ {n}

\* A heartbeat registers the node; from a registered one it changes only the
\* time, which is left out.
sendHeartbeat(n) ==
  /\ n \notin dataNodes
  /\ applyHeartbeat(n)
  /\ UNCHANGED <<tree, removals, content, copies, rep, term, clients>>

\* Heartbeats of n were late by heartbeatTimeout, which says nothing of n: it
\* may still serve calls, and a heartbeat may have arrived since the check.
checkDataNodeHealth(n) ==
  /\ n \in dataNodes
  /\ removals < MaxRemovals
  /\ applyRemoveDataNode(n)
  /\ removals' = removals + 1
  /\ UNCHANGED <<tree, content, copies, rep, term, clients>>

----------------------------------------------------------------------------
(* The replicator.                                                          *)

AliveReplicas(e) == {r \in replicas[e] : r[1] \in dataNodes}

LostTwo ==                                                       \* mutant
  {p \in Path : LET e == lookup(p) IN
     /\ IsFile(e)
     /\ status[e] = "complete"
     /\ Cardinality(AliveReplicas(e)) + 1 < ReplicaCount}

UnderReplicated ==
  {p \in Path : LET e == lookup(p) IN
     /\ IsFile(e)
     /\ status[e] = "complete"
     /\ Cardinality(AliveReplicas(e)) < ReplicaCount}

RepairTask(p) ==
  [path |-> p, id |-> fileID[lookup(p)], size |-> size[lookup(p)],
   replicas |-> AliveReplicas(lookup(p))]

\* One turn of runReplication's outer loop, in this cycle or in the next.
\* Which files make up the batch depends on Go's map order.
findUnderReplicatedTasks(batch) ==
  /\ rep.pc = "scan" /\ rep.tasks = {}
  /\ batch # {} /\ batch \subseteq UnderReplicated
  /\ \/ Cardinality(batch) = BatchSize
     \/ Cardinality(batch) < BatchSize /\ batch = UnderReplicated
  /\ rep' = [rep EXCEPT !.tasks = {RepairTask(p) : p \in batch},
                        !.nodes = dataNodes]
  /\ UNCHANGED <<tree, dataNodes, removals, content, copies, term, clients>>

SelectAnyNodes(t) ==                                             \* mutant
  {T \in SUBSET rep.nodes : Cardinality(T) = ReplicaCount - Cardinality(t.replicas)}

\* The sets of targets for task t: as many as replicas are missing, or all
\* the nodes of the scan that hold no replica.
selectTargetNodes(t) ==
  LET free == rep.nodes \ {r[1] : r \in t.replicas}
      missing == ReplicaCount - Cardinality(t.replicas)
  IN  {T \in SUBSET free : \/ Cardinality(T) = missing
                           \/ Cardinality(T) < missing /\ T = free}

\* repairFile is left, with the rest of the batch to do.
Leave(tasks) == [IdleRep EXCEPT !.tasks = tasks, !.nodes = rep.nodes]

\* repairFile, steps 1 to 3: the file at the path of the task is marked as
\* recovering, and a source and targets are chosen.
Mark(t, T) ==
  LET rest == rep.tasks \ {t} IN
  /\ rep.pc = "scan" /\ t \in rep.tasks
  /\ T \in selectTargetNodes(t)
  /\ \/ /\ applyUpdateStatus(t.path, "recovering")
        /\ \/ /\ t.replicas = {} \/ T = {}
              /\ rep' = [Leave(rest) EXCEPT !.pc = "rollback", !.task = t]
           \/ /\ T # {}
              /\ \E s \in t.replicas :
                   rep' = [Leave(rest) EXCEPT !.pc = "copy", !.task = t,
                             !.source = s, !.calls = T, !.waiting = T]
     \/ /\ ~IsFile(lookup(t.path))
        /\ rep' = Leave(rest)
        /\ UNCHANGED tree
  /\ UNCHANGED <<dataNodes, removals, content, copies, term, clients>>

\* The call that repairFile makes to node n.
Call(n) == [to |-> n, from |-> rep.source, id |-> rep.task.id,
            size |-> rep.task.size, off |-> -1, wanted |-> TRUE]

\* triggerReplicate reaches node n, which is yet to open its file.
triggerReplicate(n) ==
  /\ rep.pc = "copy" /\ n \in rep.calls
  /\ copies' = copies \cup {Call(n)}
  /\ rep' = [rep EXCEPT !.calls = @ \ {n}]
  /\ UNCHANGED <<tree, dataNodes, removals, content, term, clients>>

\* A call that fails: before the node was reached, on the node, or on the
\* way back, in which case the node keeps copying for nobody.
Unwanted(cs) == {[c EXCEPT !.wanted = FALSE] : c \in cs}

CopyFails(n) ==
  LET mine == {c \in copies : c.to = n /\ c.wanted} IN
  /\ rep.pc = "copy" /\ n \in rep.waiting
  /\ \/ copies' = copies \ mine
     \/ /\ Cardinality({c \in copies : ~c.wanted}) < MaxLate
        /\ copies' = (copies \ mine) \cup Unwanted(mine)
  /\ rep' = [rep EXCEPT !.calls = @ \ {n}, !.waiting = @ \ {n}]
  /\ UNCHANGED <<tree, dataNodes, removals, content, term, clients>>

CommitAllTargets ==                                              \* mutant
  LET t == rep.task IN
  /\ rep.pc = "copy" /\ rep.calls = {}
  /\ applyUpdateReplicas(t.path, t.replicas \cup ((rep.waiting \cup rep.copied) \X {t.id}))
  /\ rep' = [Leave(rep.tasks) EXCEPT !.pc = "complete", !.task = t]
  /\ UNCHANGED <<dataNodes, removals, content, copies, term, clients>>

\* repairFile, steps 5 and 6: every call has returned; the new list holds
\* the replicas the scan found alive and the successful copies.  When the
\* command fails, repairFile returns at once.
Commit ==
  LET t == rep.task IN
  /\ rep.pc = "copy" /\ rep.waiting = {}
  /\ \/ /\ applyUpdateReplicas(t.path, t.replicas \cup (rep.copied \X {t.id}))
        /\ rep' = [Leave(rep.tasks) EXCEPT !.pc = "complete", !.task = t]
     \/ /\ ~IsFile(lookup(t.path))
        /\ rep' = Leave(rep.tasks)
        /\ UNCHANGED tree
  /\ UNCHANGED <<dataNodes, removals, content, copies, term, clients>>

\* The file at the path of the task becomes complete again.
BackToComplete ==
  /\ IF IsFile(lookup(rep.task.path))
     THEN applyUpdateStatus(rep.task.path, "complete")
     ELSE UNCHANGED tree
  /\ rep' = Leave(rep.tasks)
  /\ UNCHANGED <<dataNodes, removals, content, copies, term, clients>>

\* repairFile, step 7.
Complete == rep.pc = "complete" /\ BackToComplete

NoRollback ==                                                    \* mutant
  /\ rep.pc = "rollback"
  /\ rep' = Leave(rep.tasks)
  /\ UNCHANGED <<tree, dataNodes, removals, content, copies, term, clients>>

rollbackStatus == rep.pc = "rollback" /\ BackToComplete

\* The leader stops or is deposed; the next one starts with a scan.  Data
\* nodes go on with the calls they work on, and a leader that is deposed with
\* those it has yet to make; but Raft refuses whatever it submits from now on.
Failover ==
  /\ term < MaxTerm
  /\ term' = term + 1
  /\ rep' = IdleRep
  /\ \E sent \in SUBSET rep.calls :
       /\ rep.pc # "copy" => sent = {}
       /\ copies' = Unwanted(copies \cup {Call(n) : n \in sent})
  /\ UNCHANGED <<tree, dataNodes, removals, content, clients>>

----------------------------------------------------------------------------
(* DataNode.ReplicateFile, on the target of a copy.                         *)

WriteAfter(s, i, v) == Append(s, v)                              \* mutant

\* The bytes s after block i was written.
WriteBlock(s, i, v) ==
  [j \in 1..(IF i > Len(s) THEN i ELSE Len(s)) |->
     CASE j = i -> v
       [] j # i /\ j <= Len(s) -> s[j]
       [] OTHER -> Hole]

\* The source was dialled; the local file is created or truncated.
ReplicateOpen(c) ==
  /\ c.off = -1
  /\ content' = [content EXCEPT ![c.to][c.id] = <<>>]
  /\ copies' = (copies \ {c}) \cup {[c EXCEPT !.off = 0]}
  /\ UNCHANGED <<tree, dataNodes, removals, rep, term, clients>>

\* The block of replica r at off, nothing at the end of the file or when the
\* node does not have the file.
RangeRead(r, off) ==
  LET s == content[r[1]][r[2]] IN
  IF off < Len(s) THEN <<s[off + 1]>> ELSE <<>>

\* One turn of the loop.  When the source has no block at off, RangeRead
\* returns no data and no error, and the loop turns without progress.
ReplicateChunk(c) ==
  LET read == RangeRead(c.from, c.off) IN
  /\ c.off \in 0..(c.size - 1)
  /\ read # <<>>
  /\ content' = [content EXCEPT ![c.to][c.id] = WriteBlock(@, c.off + 1, read[1])]
  /\ copies' = (copies \ {c}) \cup {[c EXCEPT !.off = @ + 1]}
  /\ UNCHANGED <<tree, dataNodes, removals, rep, term, clients>>

ReplyEarly(c) ==                                                 \* mutant
  /\ c.off >= 0 /\ c.off + 1 >= c.size
  /\ copies' = copies \ {c}
  /\ rep' = IF ~c.wanted THEN rep
            ELSE [rep EXCEPT !.waiting = @ \ {c.to}, !.copied = @ \cup {c.to}]
  /\ UNCHANGED <<tree, dataNodes, removals, content, term, clients>>

\* The loop is done and the reply reaches the caller, if it still waits.
ReplicateReply(c) ==
  /\ c.off = c.size
  /\ copies' = copies \ {c}
  /\ rep' = IF ~c.wanted THEN rep
            ELSE [rep EXCEPT !.waiting = @ \ {c.to}, !.copied = @ \cup {c.to}]
  /\ UNCHANGED <<tree, dataNodes, removals, content, term, clients>>

----------------------------------------------------------------------------
(* Clients.                                                                 *)

Rename(src, dst) ==
  /\ Renames
  /\ src # dst
  /\ applyRename(src, dst)
  /\ UNCHANGED <<dataNodes, removals, content, copies, rep, term, clients>>

\* Client.Open with O_RDWR of an existing file: refused while it recovers.
\* The handle keeps the path, the replicas and the size.
Open(h, p) ==
  LET e == lookup(p) IN
  /\ handle[h].pc = "closed"
  /\ IsFile(e)
  /\ status[e] # "recovering"
  /\ handle' = [handle EXCEPT ![h] = [ClosedHandle EXCEPT !.pc = "open", !.path = p,
                                        !.replicas = replicas[e], !.size = size[e]]]
  /\ UNCHANGED <<tree, dataNodes, removals, content, copies, rep, term, writes>>

\* FileHandle.WriteAt of block i starts a PartialWrite on every replica.
WriteAt(h, i) ==
  /\ handle[h].pc = "open"
  /\ writes < MaxWrites
  /\ writes' = writes + 1
  /\ handle' = [handle EXCEPT ![h].pc = "writing",
                              ![h].block = i, ![h].ver = writes + 1,
                              ![h].todo = handle[h].replicas, ![h].ok = TRUE]
  /\ UNCHANGED <<tree, dataNodes, removals, content, copies, rep, term>>

PartialWrite(h, r, ok) ==
  /\ handle[h].pc = "writing" /\ r \in handle[h].todo
  /\ content' = IF ok THEN [content EXCEPT ![r[1]][r[2]] =
                              WriteBlock(@, handle[h].block, handle[h].ver)]
                ELSE content
  /\ handle' = [handle EXCEPT ![h].todo = @ \ {r}, ![h].ok = @ /\ ok]
  /\ UNCHANGED <<tree, dataNodes, removals, copies, rep, term, writes>>

\* The end of WriteAt: when every replica took the write and the file grew,
\* the MDS is told the new size; a refusal (recovering) is only logged.
WriteEnd(h) ==
  LET end == handle[h].block
      grown == handle[h].ok /\ end > handle[h].size
      e == lookup(handle[h].path)
  IN
  /\ handle[h].pc = "writing" /\ handle[h].todo = {}
  /\ IF grown /\ IsFile(e) /\ status[e] # "recovering"
     THEN applyUpdateSize(handle[h].path, end)
     ELSE UNCHANGED tree
  /\ handle' = [handle EXCEPT ![h].pc = "open", ![h].block = 0, ![h].ver = 0,
                              ![h].size = IF grown THEN end ELSE @]
  /\ UNCHANGED <<dataNodes, removals, content, copies, rep, term, writes>>

\* FileHandle.Close of a file that was complete when it was opened.
Close(h) ==
  /\ handle[h].pc = "open"
  /\ handle' = [handle EXCEPT ![h] = ClosedHandle]
  /\ UNCHANGED <<tree, dataNodes, removals, content, copies, rep, term, writes>>

----------------------------------------------------------------------------

ReplicatorStep ==
  \/ \E batch \in SUBSET Path : findUnderReplicatedTasks(batch)
  \/ \E t \in rep.tasks, T \in SUBSET Addr : Mark(t, T)
  \/ \E n \in Addr : triggerReplicate(n) \/ CopyFails(n)
  \/ Commit
  \/ Complete
  \/ rollbackStatus
  \/ Failover

ReplicateFile(c) == ReplicateOpen(c) \/ ReplicateChunk(c) \/ ReplicateReply(c)

DataNodeStep ==
  \/ \E n \in Addr : sendHeartbeat(n) \/ checkDataNodeHealth(n)
  \/ \E c \in copies : ReplicateFile(c)

HandleStep ==
  \/ \E src, dst \in Path : Rename(src, dst)
  \/ \E h \in Handle :
       \/ \E p \in Path : Open(h, p)
       \/ \E i \in 1..MaxBlocks : WriteAt(h, i)
       \/ \E r \in Replica, ok \in BOOLEAN : PartialWrite(h, r, ok)
       \/ WriteEnd(h)
       \/ Close(h)

RNext == ReplicatorStep \/ DataNodeStep \/ HandleStep

RSpec == RInit /\ [][RNext]_rvars

\* The ticker starts replication for ever, a data node works on the calls it
\* got, and no node fails its copies of a file at the same point every time.
RFairness ==
  /\ WF_rvars(\E batch \in SUBSET Path : findUnderReplicatedTasks(batch))
  /\ WF_rvars(\E t \in rep.tasks, T \in SUBSET Addr : Mark(t, T))
  /\ WF_rvars(Commit) /\ WF_rvars(Complete) /\ WF_rvars(rollbackStatus)
  /\ \A n \in Addr, f \in Files :
       /\ SF_rvars(rep.task.id = f /\ triggerReplicate(n))
       /\ \A k \in -1..MaxBlocks :
            SF_rvars(\E c \in copies :
                       c.to = n /\ c.id = f /\ c.off = k /\ ReplicateFile(c))

FairRSpec == RSpec /\ RFairness

----------------------------------------------------------------------------
(* Properties.                                                              *)

\* After the removal of at most one data node, a registered node that the
\* metadata lists has all blocks of every file, whatever overlaps with the
\* repair: copies go to nodes without a replica, so that O_TRUNC on a target
\* never costs the last copy, and lists keep the survivors.
DataSurvives ==
  removals <= 1 =>
    \A e \in Reachable \cap Files :
      \E r \in AliveReplicas(e) : Len(content[r[1]][r[2]]) >= size[e]

\* From the moment a target reports its copy to the commit of the new
\* replica list, the copy equals its source (writes are to be refused while
\* the file is recovering).
CopiesFaithful ==
  rep.pc = "copy" =>
    \A n \in rep.copied :
      content[n][rep.task.id] = content[rep.source[1]][rep.source[2]]

\* A replica that the metadata lists has all blocks of its file: the list
\* is committed after the data was copied.
ListedHoldData ==
  \A e \in Reachable : \A r \in replicas[e] :
    Len(content[r[1]][r[2]]) >= size[e]

\* The bytes of every file are stored under the identity of the file, which
\* is what garbageCollectNode tests physical paths against, though the list
\* of a repair is committed to whatever file has the path of the task by then.
DataAtIdentity ==
  \A e \in Entry : \A r \in replicas[e] : r[2] = fileID[e]

\* No file stays in recovering, where it can be neither written nor repaired.
RecoveringEnds ==
  \A e \in Files : status[e] = "recovering" ~> status[e] # "recovering"

\* A file that lost replicas has ReplicaCount of them again, or as many as
\* there are nodes, unless it lost them all.
FullyReplicated ==
  \A e \in Files :
    AliveReplicas(e) # {} ~>
      \/ AliveReplicas(e) = {}
      \/ Cardinality(AliveReplicas(e)) >= ReplicaCount
      \/ dataNodes \subseteq {r[1] : r \in AliveReplicas(e)}

\* The repair of one file does not block the replicator for ever.
RepairEnds == rep.pc = "copy" ~> rep.pc # "copy"
=============================================================================
