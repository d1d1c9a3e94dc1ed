# fstorex in TLA+

A TLA+ model of [fstorex](../src/README.md), a distributed file system in Go: a
metadata server (MDS) replicated with Raft, data nodes that keep the bytes, and
a client library with a FUSE front end. TLC checks the model on small
instances; TLAPS proves part of what TLC checks for instances of every size.

    tlc -workers 2 -config MCNamespace_tree.cfg MCNamespace    # one run
    tlapm NamespaceProofs.tla                                  # the proofs of a module

`PROJECT.json` lists the runs with their configurations, the source lines each
definition models, the mutants every property was tried against, the hazards
and the findings.

## 1. Inventory

| Component | State | Operations | Talks to |
|---|---|---|---|
| Metadata state machine (`internal/metadata/apply.go`, `state_machine.go`) | tree of `entry` (children, FileID, status, size, replicas), map of data nodes | `applyMkdir`, `applyCreateFile`, `applyCompleteFile`, `applyDelete`, `applyRename`, `applyUpdateSize`, `applyUpdateReplicas`, `applyUpdateStatus`, `applyHeartbeat`, `applyRemoveDataNode`; snapshot, restore | applied by Raft, one command at a time |
| MDS RPC handlers (`mds.go`) | none of their own | `CreateFile` (draws a FileID, chooses nodes), `CompleteFile`, `Delete` (lookup, then command), `Rename`, `Mkdir`, `UpdateSize`, `Open`, `Stat`, `ListDir`, `Heartbeat` | submit commands to Raft, read the tree under `RLock` |
| Orphan collector and health check (`gc.go`) | a cycle in progress: start time, valid FileIDs, list of orphans | `runGC`, `garbageCollectNode`, `checkDataNodeHealth`, on the leader | `ListAllPaths`, `DeleteData` on data nodes |
| Replicator (`replicator.go`) | `repairing`, a batch of tasks in progress | `findUnderReplicatedTasks`, `repairFile`, `rollbackStatus`, on the leader | `ReplicateFile` on data nodes, commands to Raft |
| Data node (`internal/datanode`) | files `/data/{FileID}` with modification times | `StoreData`, `GetData`, `DeleteData`, `ListAllPaths`, `RangeRead`, `PartialWrite`, `Truncate`, `Sync`, `ReplicateFile`, heartbeats | MDS (heartbeats), other data nodes (pull copies) |
| Client (`internal/client/client.go`) | the address of one MDS server | `PutFile`, `GetFile`, `Delete`, `Rename`, `Mkdir`, `ListDir`, `Open`, `Truncate` | MDS with redirects, data nodes in parallel |
| File handle (`internal/client/file_handle.go`) | path, replicas, size and status as of `Open` | `ReadAt` (parallel), `WriteAt`, `Truncate`, `Sync`, `Close` | data nodes, `UpdateSize` and `CompleteFile` on the MDS |
| FUSE (`internal/fuse`) | a path per inode, open handles | kernel calls to client calls | client |

What is hard in it, and what makes each part correct:

* **Commands name files by path, identities are FileIDs.** Between a lookup and
  the command that follows it, a path may come to hold another file. This
  touches `Delete`, the cleanup of `PutFile`, `CompleteFile`, and every command
  of a repair. *Wanted:* what is deleted, completed or repaired is the file that
  was meant.
* **The tree is pointers.** Renames and overwrites must keep it a tree, or the
  recursions of the collector and the replicator do not end. *Wanted:* a tree,
  one identity per object, no identity twice.
* **Collector against uploads.** The collector compares a tree it read with
  directory listings it reads later, on other clocks. *Wanted:* it never deletes
  the bytes of a live file, and it does delete all others in the end.
* **Repairs take minutes.** They work from what a scan found, while nodes leave
  and return, clients rename and write, calls get lost and the leader changes.
  *Wanted:* a repair never costs data, new replicas equal old ones, lists hold
  only replicas with the data, no file is stuck, and replicas do come back.
* **Partial failure.** Uploads succeed with one replica of several; writes may
  reach some replicas; clients stop between two calls.
* **Parallel reads and writes through handles** that keep the replica list, the
  size and the path of `Open`, with calls that fail on some replicas. *Wanted:*
  replicas and size are what acknowledged updates made them, reads miss nothing
  that was acknowledged.
* **Membership by timeouts.** Every server takes heartbeat times on its own clock
  while it applies commands, restarts from snapshots, and may become the leader
  that gives nodes up; data nodes know one server. *Wanted:* servers agree, only
  silent nodes are given up, live ones come back.
* **Two caches over one tree.** The kernel caches names and inodes, the FUSE layer
  paths, the MDS has the truth. *Wanted:* a name leads to the object it led to.

## 2. Plan

| Order | Module | Content | State |
|---|---|---|---|
| 1 | `Identities` | abstract: what the MDS promises about FileIDs | done |
| 2 | `Namespace` | the commands on the tree | done, proved |
| 3 | `Lifecycle` | uploads, deletes, crashes, data nodes, collector, over `Namespace` | done, proved |
| 4 | `Repair` | replicator, copies, membership, writers, over `Namespace` | done, proved |
| 5 | `Handles` | `Open` with its flags, `WriteAt`, `ReadAt`, `Truncate`, `Close`, `GetFile` over `Namespace` and the bytes on data nodes | done, proved |
| 6 | `Cluster` | MDS servers that crash, restore, replay and change leader; heartbeats with times and redirects; the health check | done, proved |
| 7 | `Mount` | the FUSE nodes between the kernel's caches and the paths of the MDS, over `Namespace` | done, proved |
| 8 | `Snapshots`, `Replay` | abstract: the tree as a value; `Namespace` shown to implement it | done, checked |
| 9 | `NamespaceProofs`, `LifecycleProofs`, `RepairProofs`, `HandlesProofs`, `HandlesOneWriter`, `ClusterProofs`, `MountProofs`, with `Induction` | the theorems of section 6 | done |

`Namespace` is extended by all modules but `Cluster`, which has the other half of
the state machine, the registered data nodes.

Abstract specifications: `Identities` and `Snapshots`, both implemented by
`Namespace`.

Every invariant and every action property of the passing runs is stated by a
theorem of section 6; what is left to TLC is listed at its end.

## 3. The modules

### Namespace

An `*entry` is an element of `Entry`, a pointer that is never reused. Every
`Mkdir` and `CreateFile` draws one FileID and allocates at most one entry, so the
FileID drawn with entry `e` is written `e` as well; it is taken to differ from
all others (16 random bytes). The entry that *overwrites* a file keeps the old
one's FileID, while its replicas lie at `/data/e` of its own draw, as
`CreateFile` placed them: so identity and place can differ, as in the code.

A path is the sequence `splitPath` returns. `Walk` follows `children` as the
loops in `apply.go` do; `ParentFound` and `lookup` are their outcomes. Each
`apply*` function is one action of the same name whose guard is the function's
early returns; a command that returns an error changes nothing and is a disabled
action. Left out: names inside entries, modes and times.

`ReplicaLists` are the lists `UpdateReplicas` commands may carry: `applyUpdateReplicas`
itself takes any list, and the configurations send one that belongs to another
file. `Repair` computes the lists the replicator really sends.

### Lifecycle

Extends `Namespace` with the clock of the MDS, the modification times of the files
on data nodes, and how far calls of clients and collectors have come. MDS commands
and data node RPCs are atomic, everything between them interleaves.

An element of `Client` is a call in progress, not a person. `net/rpc` cancels
nothing: when a client crashes or gives a call up, the handler at the MDS goes on
and still submits its command, at any later time. Such a call is a member of `Client`
that takes the rest of its steps late and then fails (`ClientFails`), while what its
user does next, the same upload again for instance, is another member. So two
members are two clients, or one that did not wait.

| Action | Code |
|---|---|
| `PutCreate`, `StoreData`, `StoreFails`, `PutComplete`, `PutCleanup` | `Client.PutFile` |
| `Delete`, `PutCleanup` (through `LookupTarget`), `DeleteApply`, `Erase` | the two halves of `MetadataServer.Delete`, then the erasing loop of `Client.Delete` |
| `ClientFails` | the call ends where it is: its client stopped before the next request, or that request did not arrive, or its answer was lost |
| `Mkdir`, `Rename` | the calls of the same names, in one step |
| `FallsBehind` | the server that is to run a collector was deposed and gets no more commands |
| `runGC`, `Collect`, `ListAllPaths`, `SkipNode`, `DeleteOrphan`, `DeleteOrphanFails`, `EndGC`, `MDSFails` | `runGC` and `garbageCollectNode` |
| `Tick` | time |

`op[c].own` remembers which entry a client's upload created; only the properties
and `PutCleanup` read it. `StoreData` takes a modification time within `Skew` of the
MDS clock, and its acknowledgement may be lost. Several collectors may run: the
ticker's and one of `TriggerGC`.

A collector reads the tree of its own server (`gc.go:49`). `IsLeader` was asked
before, once, and a leader that was cut off may not know yet that there is another.
With `Lag > 0` the tree of such a server may have stopped up to `Lag` before
the cycle begins: `FallsBehind` keeps what it references, `runGC` begins the cycle,
and `Collect` then takes what was kept.

`Calls` says which of Mkdir, Rename and Delete users call besides PutFile, `MaxTime`
is where the clock stops and `Horizon` the time after which no upload starts.

### Repair

Extends `Namespace` with registered nodes, file contents as sequences of blocks,
the `ReplicateFile` calls in progress on data nodes (`copies`), the replicator
and client handles. A block is the number of the write that made it, so two copies
that differ in one write differ in the model. A copy has an offset; -1 means that
the node was called and has not opened its file yet. `wanted` is FALSE once nobody
waits for the reply: the caller lost the connection, or the leader changed. Such
a call still runs, for `net/rpc` has no cancellation.

| Action | Code |
|---|---|
| `findUnderReplicatedTasks(batch)` | one scan; a batch is what Go's map order gives |
| `Mark(t, T)` | `repairFile` 1–3: status to recovering, source and targets |
| `triggerReplicate(n)`, `CopyFails(n)` | `repairFile` 4: parallel calls |
| `Commit`, `Complete`, `rollbackStatus` | `repairFile` 5–7 and the rollback, each a Raft command that may find no file |
| `ReplicateOpen`, `ReplicateChunk`, `ReplicateReply` | `DataNode.ReplicateFile`: O_TRUNC, one chunk per turn, reply |
| `sendHeartbeat`, `checkDataNodeHealth` | registration and removal of nodes, at any time |
| `Open`, `WriteAt`, `PartialWrite`, `WriteEnd`, `Close` | a handle, with `UpdateSize` at the end of a write |
| `Rename`, `Failover` | a client renames; the leader changes. The goroutine of the old leader may still send the calls it has left to make (`sent`); nobody acts on their replies, for Raft refuses its commands |

`Renames`, `Partial`, `Handle` and the bounds say which of the concurrent events a
configuration allows, so that each finding can be shown with nothing else going
on; `MaxLate` bounds the copies that go on after their call was lost. `RInit` starts
with complete files in the root (`StartWith` says which, under which names and
on which nodes). `RepairAssumption` takes `Size` to be the sizes up to
`MaxBlocks` and the data nodes to be finitely many.

### Handles

Extends `Namespace` with the bytes of files on data nodes, and handles whose record
holds what `Open` left in them and the call in progress. A byte is the number of
the `WriteAt` that wrote it (0: never written), so that a read shows which writes it
saw. Each RPC is a step; one that fails may or may not have taken effect (`took`,
`ok`). `acked` and `failed` are history: the bytes that acknowledged updates left,
and the files on which an update failed part of the way.

| Action | Code |
|---|---|
| `OpenStat`, `OpenCreate`, `OpenTruncate`, `OpenLocate` | the four calls `Client.Open` may make, with O_CREAT, O_EXCL, O_TRUNC |
| `WriteAt`, `PartialWrite`, `WriteAnswered`, `WriteReturns` | `FileHandle.WriteAt`: all replicas in parallel, then the size, by path, whose failure is ignored |
| `Truncate`, `TruncateReplica`, `TruncateAnswered`, `TruncateReturns` | `FileHandle.Truncate` and O_TRUNC: data first, then the size |
| `ReadAt`, `RangeRead`, `ReadReturns` | `readAtSerial` and `readAtParallel`: `Segments` cuts the buffer, every segment comes from any one replica |
| `GetLocation`, `GetData`, `GetReturns` | `Client.GetFile` |
| `Close`, `Stop`, `Repairs`, `Rename` | completing a pending file; a client that stops; the replicator's marks; a rename |

`Writers` are the handles opened for writing. `DataNode.Truncate` of a file that a
node does not have fails when the new size is 0 (`os.Truncate` needs the file), and
so does O_TRUNC then, as in the code; the comment at `datanode.go:330` calls it a
no-op. A download of an empty file that is complete ends with an error (`GetData`):
gob delivers its bytes as nil, which `GetFile` takes for a failure of all replicas. `HandlesAssumption` says that sizes, offsets and reads are within `MaxBytes`,
that all these sizes are sizes of the tree, that files are created by
CreateIfNotExist, as `Open` does, and that the data nodes are finitely many and at
least one.

### Cluster

State of every server: its memory, its last snapshot, the commands applied since
(`wal`) and the committed ones it has yet to apply (`pend`). Raft is external: `Do`
commits a command at the leader, `ApplyNext` lets another server catch up, `Elect`
needs a majority and a server that has everything. A time is kept as its *age* in
intervals, so that `time.Now()` at apply time is age 0 whenever the command is
applied, and a replayed heartbeat looks recent, as in the code.

| Action | Code |
|---|---|
| `applyHeartbeat`, `applyRemoveDataNode`, `Apply` | `apply.go`, `state_machine.go` (operators on a server's state) |
| `sendHeartbeat` with `Hops` | `DataNode.sendHeartbeat`: one configured server, at most three attempts, redirects |
| `checkDataNodeHealth`, `RemoveDead` | the two halves of the health check |
| `Applies`, `Restore`, `Restart` | `Snapshot` every `Span` commands, `Restore`, replay |
| `Crash`, `StepDown`, `LoseHeartbeat`, `StopNode`, `StartNode` | faults, bounded by `MaxFaults` |
| `Tick` | one heartbeat interval, which is the interval of the health check too (5 minutes each; `Timeout` is 2 of them) |

An interval ends only when live nodes have sent, the leader has checked and, where a
majority runs, a leader is elected and known: elections take seconds
(`ElectionTimeout` is 3 s), intervals minutes.

### Mount

Extends `Namespace` with `node[i]`, the path in the `fuseNode` of inode `i`, the
kernel's cache of names (`dentry`) and the open files. Inode numbers are FileIDs
(`inodeFromID` hashes them; taken to be injective). External are the kernel, which
sends calls by cached inode, locks the directories involved, moves a name on
rename and forgets inodes, and go-fuse's `NewInode`, which keeps the node it has for
an inode number. Only this mount changes the tree; what others change may be unseen
for `defaultTimeout` by design. Every callback of `node.go` that changes state is an
action of its name; `Movable` says which kinds of objects applications rename.

### Snapshots and Replay

`Snapshots` has the tree as a function from paths to attributes and every command
as a relation between two such values. `Replay` defines `toSnapshot` as the recursion
in `mds.go` and maps `Namespace` onto it.

## 4. Runs that pass

| Run | Shows | Bounds |
|---|---|---|
| `tree` | `TypeOK`, `IsTree`, `UniqueIdentity`, and that the tree implements `Identities` (`FileIDsNeverReturn`) and `Snapshots` (`SnapshotsSuffice`), under all commands, the replicator's included | 3 entries besides the root, 2 names, paths of 3: enough to move a directory below its own child, to rename over a file, and to overwrite twice |
| `gc` | `LTypeOK`, `KillListDead` with two calls of any kind and a collector, nobody overwriting | 2 files, window 2, skew 1, times 0 and 1: to a collector that starts at 1, bytes stored at 0 by a clock one behind are just old enough, all others too young |
| `uploads` | `KillListDead`, `CompleteReadable`, `CleanupRemovesOwn` with two uploads at the same paths and a collector on a server that may be deposed, nobody overwriting or deleting | 2 entries, 2 nodes, depth 2, times 0 to 2: one upload fails halfway and the other reuses its path while the cleanup is late; lag 1 and window 2, the largest lag that is right |
| `reclaim` | `EraseListDead`, and `OrphansReclaimed` under fairness, with two calls that create, make and delete at the same paths, nobody overwriting | 2 entries, 1 node, depth 2: a file is put where another was looked up, or goes with the directory that is deleted; `Lag = 0`: fairness assumes that the leader which runs the collector stays |
| `races` | `RTypeOK`, `DataSurvives` with renames, writes that extend the file, lost calls and a leader change all at once | 3 nodes, 2 replicas, 2 blocks, 1 removal, 1 write, 1 late call |
| `data_repair` | `CopiesFaithful`, `ListedHoldData` for two files in one batch | 3 nodes, 2 blocks, 2 removals |
| `live` | `RecoveringEnds`, `FullyReplicated`, under fairness | 3 nodes, 2 removals |
| `handles` | `HTypeOK`, `Settled`, `SizeBacked`, `ReadsCurrent`, `DownloadsCurrent` with one writer, one reader, a failing call or crash or repair, renames between openings | 2 replicas, 2 writes of bytes 1 and 3 of a file of 3, truncation to 0 and 1: gaps, growth, shrinking, a read of 3 bytes in segments of 1 and 2 |
| `cluster` | `CTypeOK`, `Converges`, `Timed`, `OnlySilentGivenUp`, and `MembershipSettles` under fairness | 3 servers, 1 data node, timeout 2, a snapshot every 2 commands, lag 2, 2 faults |
| `mount` | `MTypeOK`, `NamesCurrent` while applications rename files only | 3 objects, 2 names, depth 2, 1 open file |

Three nodes and two replicas are the smallest instance with a node to repair to
and one to repair from, two blocks the smallest in which a copy is half done.
Two removals make a repair find its source gone. In the runs without fairness
the system may stop when its bounds are used up; `CHECK_DEADLOCK FALSE` is set
there and in `live`, where a fully replicated file leaves nothing to do. In
`Lifecycle` and `Cluster` a step is always possible and deadlock is checked. `cluster`
also passes with 3 faults (1.07 million states) and with 2 data nodes and 1 fault.
A fault of `Cluster` is a server or node that stops, a node that starts, a lost
heartbeat or a leader that steps down: two are enough for a leader to crash while
another server is down, and for a node to stop and return.

**Fairness.** `FairLSpec`: time passes; a call of a client goes on or fails;
tickers start collectors for ever, on a leader that stays (`Lag = 0` in `reclaim`). Collecting, listing a node and
deleting an orphan are strongly fair: each of them may fail or be skipped, and the
collector is restarted by its ticker every cycle, so only a failure at the same
point of *every* cycle is excluded. `FairRSpec` is alike: the replicator's own steps
are weakly fair; reaching a node and the steps of a copy on it are strongly fair
for each node, file and offset, since a scan starts the repair again as long as
the file lacks replicas. Removals and lost calls are never fair, `Failover` neither.
`FairCSpec`: servers that stopped are started again, apply what is committed, learn
the leader and elect one; live data nodes send a heartbeat per ticker interval; the
leader's ticker starts the check and the check submits its removals; all weakly
fair. Faults are not fair, and there are finitely many, so `MembershipSettles` says
what happens once they cease.

## 5. Findings

Two runs of `PROJECT.json` restate a line of the repository and are violated; the
quotes are there.

| Run | What happens |
|---|---|
| `overwrite` | An overwriting upload keeps the old FileID, its bytes lie under a new one: the collector takes them for orphans and deletes the bytes of a live file. |
| `renamed` | A file is renamed through the mount, another is created under its old name; opening the renamed file opens the other one, for its `fuseNode` still has the old path. |

Nine further configurations reproduce a violation each:

| Configuration, property | What happens | What the repository says |
|---|---|---|
| `MCLifecycle_leak.cfg`, `OrphansReclaimed` | `overwrite` from the other side: the bytes of the old version lie under the FileID that the entry keeps, so the collector calls them valid in every cycle, and they stay as long as the file does. | `apply.go:107`: they become orphans for the collector; `README.md:205`: orphans are cleaned up eventually |
| `MCLifecycle_cleanup.cfg`, `CleanupRemovesOwn` | An upload that stored nothing cleans up by path, and removes the file with which another upload has replaced its own. One user who gives an upload up and repeats it is enough. | `client.go:183`: removes the metadata it just created; `README.md:203` |
| `MCLifecycle_ghost.cfg`, `CompleteReadable` | A `CompleteFile` arrives after another upload has overwritten the path, and completes a file that no node has. | `client.go:195`: complete, so that reads can succeed; `README.md:383` |
| `MCLifecycle_delete_race.cfg`, `EraseListDead` | `Delete` looks the file up, another client renames it away and puts a new file there; the new file is deleted, the bytes of the old one erased. | `client.go:308`: cleans up the content of the file removed |
| `MCRepair_failover.cfg`, `RecoveringEnds` | The leader changes during a repair: the file stays in recovering, no scan looks at it again, writes are refused. | `replicator.go:277`: the rollback is there so that no file is stuck in recovering |
| `MCRepair_partial.cfg`, `RepairEnds` | The source of a repair was never stored there (`PutFile` is content with one replica): `ReplicateFile` reads nothing, makes no progress, and the replicator waits for ever. | `replicator.go:13`: a timeout for scan and repair, against long blocking |
| `MCRepair_write.cfg`, `CopiesFaithful` | A handle opened before the repair writes while the file is recovering; the new replica misses the write. | `mds.go:49`, `apply.go:268`: no writes during repair, so that the new replica is consistent |
| `MCHandles_moved.cfg`, `SizesOwn` | A file is renamed while it is open and another created under its name; the next write sends its size to the other file. | `client.go:472`: an open handle still points to the original object |
| `MCCluster_false_removal.cfg`, `NoFalseRemoval` | The leader stops, and it is the one server that a data node is configured with. Another is elected, the node goes on dialling the one that is down, and is removed though alive. | `README.md:375`: "leader failover never causes false removals" |

The same models show more of the kind when a property is checked where it is not
listed:

* `CompleteReadable` under `MCLifecycle_gc.cfg`, without overwriting: a `CompleteFile`
  arrives after a user deleted the path and another call created it anew, and
  completes a file without bytes.
* `CleanupRemovesOwn` under `MCLifecycle_gc.cfg`, without overwriting (renames alone
  are enough): the cleanup of a failed upload deletes another file that has come to
  its path.
* `CompleteReadable` under `MCLifecycle_uploads.cfg` with `Lag = 2`: bytes that were
  stored since the tree of a deposed server stopped are already as old as the window.
* `ListedHoldData` under `MCRepair_races.cfg` (also with `Handle = {}`,
  `Renames = FALSE` and `MaxTerm = 0`): a `ReplicateFile` whose caller gave up
  truncates a replica that a second call filled and the MDS listed.
* `DataAtIdentity` under `MCRepair_data.cfg` with `Renames = TRUE`: a repair commits by
  path and gives the replicas of one file to another.
* `ReplicasAgree` with two writers on the same byte (`MCHandles_handles.cfg` with
  `Writers = {h1, h2}`, `MaxFails = 0`), and `ReadsRead` when a parallel read overlaps a
  write that extends the file: the sum of short segments covers bytes of the
  buffer that were never filled. `src/README.md:399` excludes concurrent use.
* `NamesCurrent` with `Movable = {"file", "dir"}`: after a directory is renamed, names
  below it are looked up under its old path.

`MCLifecycle_erase.cfg` passes: it checks `EraseListDead` with overwriting, 3 entries and
a clock that stands still.

Two more differences need no run: `applyDelete` removes a directory with everything in it
(`docs/filesystem-semantics.md:302` says it is refused), and a pending file of an
abandoned upload is never removed (`client.go:199` says the collector will).

The passing runs show how far the properties do hold: `KillListDead` without
overwriting and with a window that exceeds lag and skew together, `EraseListDead`
without renames, `CompleteReadable` and `CleanupRemovesOwn` among uploads that do not
overwrite and without deletions and renames by users, `OrphansReclaimed` without
overwriting, `CopiesFaithful` and `ListedHoldData` without writers and lost calls,
`DataSurvives` through all of the races on one file, the properties of `handles` with
one writer at a time, and `NamesCurrent` as long as directories are not renamed.

## 6. Proofs

`NamespaceProofs` assumes only `NamespaceAssumption`: the root is an entry, nil is
none, path depth is a number. Sets may be infinite.

* `TypeCorrect`, `TreeCorrect`, `IdentityCorrect`: `Spec => []TypeOK`, `[]IsTree`,
  `[]UniqueIdentity`, from one inductive invariant
  `IInv == TypeOK /\ Linked /\ OneParent /\ NoCycle /\ UniqueIdentity`. The parts need
  each other: the rename of a directory keeps `NoCycle` because the walk to its new
  parent avoids it (`IsAncestorOf`), and a walk that avoids it ends outside its subtree
  only because every entry has one parent (`WalkClosed`). Absence of cycles is
  stated without paths or numbers (every nonempty set of entries has a member
  that is no child within the set), which keeps induction out of the proof;
  `AcyclicRemove`, `AcyclicAddLeaf` and `AcyclicAttach` are the three facts about it.
* `IdentitiesCorrect`: the refinement `Spec => Ids!Spec`. Deletes and renames only
  shrink the reachable set (`DeleteShrinks`, `RenameShrinks`); a creation adds the new
  entry alone (`AllocatedReachable`), and overwriting passes the FileID on.

`DataInv`, that every file's bytes lie under its own FileID, is no result of its own:
it follows from how `applyCreateFile` fills an entry as long as nobody overwrites. It
is a lemma of the collector's proof, and where another actor can break it, section 5
shows that it is broken.

`LifecycleProofs`, for any number of clients, collectors, data nodes and files:

* `CollectorSafe`: if nobody overwrites and `Lag + Skew < Window`, then
  `LSpec => []KillListDead`. Inductive invariant
  `LInv == IInv /\ DataInv /\ LTypeOK /\ StoringFile /\ BytesOfFiles /\ Started /\ Young /\ Dead`.
  `Young` carries the argument: a file that is reachable now and was not when the
  collector read the tree, or since the tree of its server stopped, has been created
  since (identities do not return, `TreeGrowth`), so all of its bytes are younger than
  the window. Hence what is
  listed as an orphan is unreachable (`Dead`), and unreachable entries stay so.
  The bounds `Horizon` and `MaxTime` do not enter the proof.

* `LifecycleTypeCorrect`: `LSpec => []LTypeOK` without any condition, from
  `LBase == IInv /\ LTypeOK /\ StoringFile`.
* `EraseSafe`: `LSpec => []EraseListDead` if nobody renames, overwriting and deletions
  included, without a condition on clocks, from
  `EInv == LBase /\ Placed /\ \A c : CallSafe(c)`. Between the two halves of `Delete`
  other calls may remove what was looked up and put another file there. `CallSafe`
  says what is left: what was looked up, if still in the tree, is still at the path,
  so that the command removes it; if it has left the tree it does not come back.
  Either way its bytes are unreferenced (`Placed`) when they are erased. This rests on
  `LinkStep`: without renames a command only drops one link or gives one to a new
  entry, after which a path leads where it led or to nothing known (`StayLinked`).
* `CompleteFilesReadable`, `CleanupSafe`: `CompleteReadable` and the action property
  `CleanupRemovesOwn` under the conditions of `CollectorSafe` and if users upload and
  make directories only, any number of them, from
  `UInv == LInv /\ EInv /\ Uploads /\ CompleteReadable`. `Uploads` says of every upload,
  until its completion or its cleanup is applied, that its path leads to the file it
  created (`Owns`), that no other call has that file, and that what it still has to
  store goes to replicas of it and what was acknowledged is there (`Sent`). So no
  late `CompleteFile` hits another upload's file, and no late `Delete` either. That
  collectors spare the bytes is `CollectorSafe` again. Overwriting, deletions and
  renames by users each break one of them (section 5): the conditions are the range
  in which the code is right.

`ClusterProofs`, for any number of servers, any `Span`, `MaxLag`, `MaxFaults`, `Timeout`
and finitely many data nodes (they are a Go slice):

* `ClusterTypeCorrect`, `ClusterTimed`, `ClusterConverges` and the action property
  `ClusterSilent`, from `CInv == Control /\ Queues /\ States /\ Agreement`. `Agreement`
  is the core: replaying what is pending from memory, and `wal` and then what is
  pending from the snapshot, both give the committed list, with heartbeat times no
  older than the committed ones. `Replay` is a recursive function; what it
  does to a longer log (`ReplayAppend`, `ReplayCons`) is proved with the induction
  principle of `Induction`: a set of numbers that has 0 and is closed under + 1.
  `States` keeps lists free of duplicates, without which removing a node from the
  slice once would leave it registered.

`MountProofs`, for any depth, names and number of open files:

* `MountTypeCorrect`: `MSpec => []MTypeOK`, from
  `MBase == IInv /\ OwnIds /\ MTypeOK /\ KnownObjects`.
* `NamesStayCurrent`: `MSpec => []NamesCurrent` if directories are not renamed, from
  `MInv == MBase /\ DirPaths /\ NamesAt`: the path kept in the node of a directory
  leads to it, and a cached name is in a directory that has it. A renamed
  directory breaks `DirPaths` for the nodes below it, see section 5.

`RepairProofs`, for any number of files, handles, blocks, removals and finitely many
data nodes:

* `RepairTypeCorrect`: `RSpec => []RTypeOK` without any condition, from
  `RBase == IInv /\ RTypeOK /\ SameFiles /\ TasksOfFiles`.
* `RepairKeepsData`: `RSpec => []DataSurvives` if at least two replicas are wanted and
  all of them were stored, and if there is only one file or nobody renames. Writes,
  lost calls, copies that outlive their caller and leader changes are allowed.
  `SInv == RBase /\ TaskOf /\ Quiet /\ Survivor`: before the first removal there is
  nothing to repair and every replica is safe; after it, one on a registered node is.
  *Safe* is what makes this inductive: the replica is listed and long enough, every
  task about the file keeps it and no copy, wanted or not, goes to its node
  (`Kept`), and every open handle writes to it (`Written`). With renames and two files
  a repair may give one file the list of the other, and `DataSurvives` fails.
* `ListedReplicasHoldData`, `ReportedCopiesFaithful`: `ListedHoldData` and
  `CopiesFaithful` for any number of files, removals, returns and failing copies, if
  nobody writes or renames, no call outlives its caller and the leader stays; each of
  these events breaks one of them (section 5). Invariant
  `QInv == RBase /\ TaskOf /\ Calm /\ ListsHold /\ Planned /\ Copying`: what the scan saw
  of a file stays true until its repair commits, since a file is in a batch once
  (`PathsDiffer`) and targets hold no listed replica; a copy has written as much as its
  offset says.

`HandlesProofs`, for any number of handles, writers, data nodes, files and bytes:

* `HandlesTypeCorrect`: `HSpec => []HTypeOK` without any condition, renames of open
  files included, from `HBase == IInv /\ FlatFiles /\ HTypes`. What takes work is that
  `ReadAt` never counts more bytes than its buffer has. `Segments` is shown to cut the
  buffer into disjoint parts that cover it (`SegmentsFacts`; the last one takes the
  remainder of the division), so that each answer adds its own positions to those
  *filled* (`FilledGrows`), and the count stays within their number (`Progress`).

`HandlesOneWriter`, with one handle that writes, any number that read, and no rename
of a file that is open (`OneWriter`). Both conditions are needed: with two writers
replicas may end up different, and after a rename sizes go to another file (section 5).

* `SizesBacked`, `ReadsAreCurrent`, `DownloadsAreCurrent`: `HSpec => []SizeBacked`,
  `[]ReadsCurrent`, `[]DownloadsCurrent`, whatever calls fail or take effect without an
  answer, from
  `OneInv == HBase /\ (\A h : Role /\ Binding /\ Answer /\ Floor) /\ Unborn /\ Covered /\ Backed`.
  `Binding`: the path of a handle still leads to the file it writes. `Covered`: every
  replica has at least what was acknowledged, byte by byte, and no byte is newer than
  the last `WriteAt`; this is what lets a later write go over an earlier one that was
  lost half way. `Answer` says what the answers collected so far mean, which is how a
  write may be acknowledged, or its size sent, when the last one is in. `Floor` is the
  read: the positions filled hold nothing older than what was acknowledged when it
  began, and those that lie within that length are all counted.
* `UpdatesSettle`: `HSpec => []Settled`, from `SettledInv`, which adds to `OneInv`, for
  files on which no update failed since they were last emptied: the size that the
  writer keeps is that of the MDS (`Sized`), without which `WriteAt` could fail to
  send a size; a replica has either what was acknowledged or that with the write or
  truncation done, according to whether it has answered (`Course`); and between updates
  it has what was acknowledged (`Still`).

The invariants were checked with TLC on the configurations of the runs before
they were proved.

Only model-checked: the liveness properties (`OrphansReclaimed`, `RecoveringEnds`,
`FullyReplicated`, `MembershipSettles`), for TLAPS as used here has no rules for
fairness and ENABLED; the refinement of `Snapshots`, whose mapping is a recursive
operator over the tree.

## 7. Not modelled

* Raft itself (goraft is a library): commands are atomic and in one order. How long it
  leaves a leader in office that was cut off, which is `Lag`, is not known from this
  repository; the proof says how long it may.
* The restoration of the tree from a snapshot (`toEntry`): `SnapshotsSuffice` says that
  a snapshot holds all that commands depend on, in the direction of saving. Restore
  and replay are modelled for the registered data nodes (`Cluster`).
* Reads of the tree on followers that lag: `Cluster` has the lag but not the tree, and
  of the readers at the MDS only the collector of `Lifecycle` may be behind. The lookup
  in `Delete` is taken from an up-to-date tree. A stale answer to `Open` leads to what
  a handle that was opened earlier leads to, and `Repair` has those.
* Placement by hash (`selectDataNodes`): any nonempty set of nodes may be chosen.
* In `Repair`: creation, deletion and upload of files (they are in `Lifecycle`), times
  (they are in `Cluster`), and more than one handle in the runs.
* In `Handles`: files get a replica on every node, and repairs only change the status,
  not the list (`replicator.go:250`); copies and lists are in `Repair`, where a handle
  keeps writing to its old list. A call on a data node takes effect at once or never:
  a `PartialWrite` or `Truncate` that is served after its caller gave up is left out.
* `Sync` and what a data node loses when its machine stops: files are on disk once
  an RPC has returned.
* `Stat` beyond its use in `Open`, `ListDir`, `Readdir`, `Getattr`, `GetReplicas`,
  `ListDataNodes`: they change no state and return what the MDS has.
* Command line programs, RPC types, logging, formatting, modes and times of files.
