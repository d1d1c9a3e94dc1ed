----------------------------- MODULE Lifecycle -----------------------------
(***************************************************************************)
(* The life of a file's bytes: clients that upload, rename and delete       *)
(* (internal/client/client.go) talk to the metadata server, whose tree is   *)
(* the one of Namespace, and to the data nodes (internal/datanode), while   *)
(* orphan collectors of the MDS (internal/metadata/gc.go) delete from the   *)
(* data nodes what the tree does not reference.  There may be two of them   *)
(* at once: the ticker's, and one started by TriggerGC.                     *)
(*                                                                          *)
(* Each MDS command is atomic (serial Raft apply), each RPC to a data node   *)
(* is atomic (dn.mu), and everything between two of them interleaves.        *)
(* Clocks of data nodes differ from the MDS's by at most Skew.              *)
(*                                                                          *)
(* An element of Client is a call in progress, not a person: a handler goes *)
(* on after its caller is gone (net/rpc cancels nothing), so a client that  *)
(* crashed in the middle of a call, or gave it up, may still have the rest  *)
(* of that handler done much later.  That is a member which takes those     *)
(* steps late and then fails, while what the user does anew is another      *)
(* member.  A collector may fail at any point too.                          *)
(***************************************************************************)
EXTENDS Namespace, Integers

CONSTANTS
  Client,     \* calls of clients that may be in progress at once
  Calls,      \* which of Mkdir, Rename and Delete users call, beside PutFile
  Collector,  \* concurrent runs of runGC
  Absent,     \* modification time of a file that a node does not hold
  Window,     \* gcSafetyWindow
  Skew,       \* external: largest clock difference, MDS to data node
  Lag,        \* external: how old the tree of a server may be that takes
              \* itself for the Raft leader
  Horizon,    \* bound: no upload starts after this time
  MaxTime     \* bound: the clock stops here

ASSUME LifecycleAssumption ==
  /\ Calls \subseteq {"Mkdir", "Rename", "Delete"}
  /\ Window \in Nat /\ Skew \in Nat /\ Lag \in Nat
  /\ Horizon \in Nat /\ MaxTime \in Nat
  /\ Absent \notin Int

VARIABLES
  now,    \* the clock of the MDS
  mtime,  \* mtime[n][f]: when node n last modified /data/f, or Absent
  op,     \* op[c]: where client c is in PutFile or Delete
  gc      \* gc[g]: where collector g is in runGC

tree == <<kind, children, fileID, status, size, replicas>>
lvars == <<tree, now, mtime, op, gc>>

Idle == [pc |-> "idle", path |-> <<>>, own |-> Nil, file |-> Nil,
         todo |-> {}, stored |-> FALSE]

NoGC == [pc |-> "idle", start |-> 0, valid |-> {}, queue |-> {},
         at |-> Nil, kill |-> {}]

LTypeOK ==
  /\ now \in Nat
  /\ mtime \in [Addr -> [Entry -> Int \cup {Absent}]]
  /\ op \in [Client ->
       [pc : {"idle", "storing", "deleting", "erasing"}, path : Path,
        own : Entry \cup {Nil}, file : Entry \cup {Nil},
        todo : SUBSET Addr, stored : BOOLEAN]]
  /\ gc \in [Collector ->
       [pc : {"idle", "behind", "collect", "stale", "scan"}, start : Nat,
        valid : SUBSET Entry, queue : SUBSET Addr, at : Addr \cup {Nil}, kill : SUBSET Entry]]

LInit ==
  /\ Init
  /\ now = 0
  /\ mtime = [n \in Addr |-> [f \in Entry |-> Absent]]
  /\ op = [c \in Client |-> Idle]
  /\ gc = [g \in Collector |-> NoGC]

----------------------------------------------------------------------------
(* Clients.                                                                 *)

Mkdir(c, p, e) ==
  /\ "Mkdir" \in Calls
  /\ op[c].pc = "idle"
  /\ applyMkdir(p, e)
  /\ UNCHANGED <<now, mtime, op, gc>>

Rename(c, src, dst) ==
  /\ "Rename" \in Calls
  /\ op[c].pc = "idle"
  /\ src # dst
  /\ applyRename(src, dst)
  /\ UNCHANGED <<now, mtime, op, gc>>

PutCreateNoReturn(c, p, e, mode, sz, addrs) ==                   \* mutant
  /\ op[c].pc = "idle"
  /\ now <= Horizon
  /\ addrs # {}
  /\ \/ applyCreateFile(p, e, mode, sz, addrs)
     \/ IsFile(lookup(p)) /\ Fresh(e) /\ UNCHANGED tree
  /\ op' = [op EXCEPT ![c] = [pc |-> "storing", path |-> p, own |-> e,
                              file |-> e, todo |-> {}, stored |-> FALSE]]
  /\ UNCHANGED <<now, mtime, gc>>

\* PutFile, to the reply of CreateFile: selectDataNodes has chosen addrs.
PutCreate(c, p, e, mode, sz, addrs) ==
  /\ op[c].pc = "idle"
  /\ now <= Horizon
  /\ addrs # {}
  /\ applyCreateFile(p, e, mode, sz, addrs)
  /\ op' = [op EXCEPT ![c] = [pc |-> "storing", path |-> p, own |-> e,
                              file |-> e, todo |-> addrs, stored |-> FALSE]]
  /\ UNCHANGED <<now, mtime, gc>>

\* One of the parallel uploads of PutFile: node n writes the file and renames
\* it in place; the client learns of it (ack) or sees an error.
StoreData(c, n, t, ack) ==
  /\ op[c].pc = "storing"
  /\ n \in op[c].todo
  /\ mtime' = [mtime EXCEPT ![n][op[c].file] = t]
  /\ op' = [op EXCEPT ![c].todo = @ \ {n}, ![c].stored = @ \/ ack]
  /\ UNCHANGED <<tree, now, gc>>

StoreFails(c, n) ==
  /\ op[c].pc = "storing"
  /\ n \in op[c].todo
  /\ op' = [op EXCEPT ![c].todo = @ \ {n}]
  /\ UNCHANGED <<tree, now, mtime, gc>>

\* The end of PutFile: at least one replica is stored.  CompleteFile names
\* the file by its path; when it fails, the error is only logged.
PutComplete(c) ==
  /\ op[c].pc = "storing" /\ op[c].todo = {} /\ op[c].stored
  /\ IF IsFile(lookup(op[c].path))
     THEN applyCompleteFile(op[c].path)
     ELSE UNCHANGED tree
  /\ op' = [op EXCEPT ![c] = Idle]
  /\ UNCHANGED <<now, mtime, gc>>

\* The first half of MDS.Delete: it looks the target up, for the replicas the
\* client is to erase (none for a directory).  own is the file a failed
\* PutFile wants removed, Nil when a user asked for the deletion.
LookupTarget(c, p, own) ==
  LET e == lookup(p) IN
  /\ op' = [op EXCEPT ![c] =
       IF e = Nil THEN Idle
       ELSE [pc |-> "deleting", path |-> p, own |-> own, file |-> e,
             todo |-> {r[1] : r \in replicas[e]}, stored |-> FALSE]]
  /\ UNCHANGED <<tree, now, mtime, gc>>

Delete(c, p) ==
  /\ "Delete" \in Calls
  /\ op[c].pc = "idle"
  /\ lookup(p) # Nil
  /\ LookupTarget(c, p, Nil)

\* No replica could be stored: PutFile deletes the path it created.
PutCleanup(c) ==
  /\ op[c].pc = "storing" /\ op[c].todo = {} /\ ~op[c].stored
  /\ LookupTarget(c, op[c].path, op[c].own)

EraseWithoutDelete(c) ==                                         \* mutant
  /\ op[c].pc = "deleting"
  /\ op' = [op EXCEPT ![c] = IF @.todo = {} THEN Idle
                             ELSE [@ EXCEPT !.pc = "erasing"]]
  /\ UNCHANGED <<tree, now, mtime, gc>>

\* The second half of MDS.Delete: the command, which names the path again.
DeleteApply(c) ==
  /\ op[c].pc = "deleting"
  /\ \/ /\ applyDelete(op[c].path)
        /\ op' = [op EXCEPT ![c] = IF @.todo = {} THEN Idle
                                   ELSE [@ EXCEPT !.pc = "erasing"]]
     \/ /\ lookup(op[c].path) = Nil
        /\ op' = [op EXCEPT ![c] = Idle]
        /\ UNCHANGED tree
  /\ UNCHANGED <<now, mtime, gc>>

\* Client.Delete after the reply of the MDS: each replica is erased (erased),
\* or the node is left alone after an error.
Erase(c, n, erased) ==
  /\ op[c].pc = "erasing"
  /\ n \in op[c].todo
  /\ mtime' = IF erased THEN [mtime EXCEPT ![n][op[c].file] = Absent] ELSE mtime
  /\ op' = [op EXCEPT ![c] = IF op[c].todo = {n} THEN Idle
                             ELSE [op[c] EXCEPT !.todo = @ \ {n}]]
  /\ UNCHANGED <<tree, now, gc>>

\* The call ends here: the client stopped before its next request went out,
\* or the request did not reach its handler, or the answer was lost.
ClientFails(c) ==
  /\ op[c].pc # "idle"
  /\ op' = [op EXCEPT ![c] = Idle]
  /\ UNCHANGED <<tree, now, mtime, gc>>

----------------------------------------------------------------------------
(* The orphan collector.                                                    *)

\* The tree of the server that is to run g gets no more commands: from here
\* on valid is what it references.
FallsBehind(g) ==
  /\ Lag > 0
  /\ gc[g].pc = "idle"
  /\ gc' = [gc EXCEPT ![g].pc = "behind", ![g].start = now,
                      ![g].valid = collectValidFileIDs]
  /\ UNCHANGED <<tree, now, mtime, op>>

\* The server takes itself for the leader, and begins a cycle.
runGC(g) ==
  /\ \/ gc[g].pc = "idle"
     \/ gc[g].pc = "behind" /\ now <= gc[g].start + Lag
  /\ gc' = [gc EXCEPT ![g].pc = IF @ = "idle" THEN "collect" ELSE "stale",
                      ![g].start = now]
  /\ UNCHANGED <<tree, now, mtime, op>>

\* runGC, steps 1 and 2, on the tree of its own server.
Collect(g) ==
  /\ gc[g].pc \in {"collect", "stale"}
  /\ gc' = [gc EXCEPT ![g].pc = "scan", ![g].queue = Addr,
                      ![g].valid = IF gc[g].pc = "stale" THEN @
                                   ELSE collectValidFileIDs]
  /\ UNCHANGED <<tree, now, mtime, op>>

OrphansWithoutWindow(n, valid, start) ==                         \* mutant
  {f \in Entry : /\ mtime[n][f] # Absent
                 /\ f \notin valid
                 /\ mtime[n][f] <= start}

\* What garbageCollectNode deletes from n: files that are not valid and were
\* not modified within the safety window before the collector's start.
Orphans(n, valid, start) ==
  {f \in Entry : /\ mtime[n][f] # Absent
                 /\ f \notin valid
                 /\ mtime[n][f] <= start - Window}

\* garbageCollectNode up to the reply of ListAllPaths.
ListAllPaths(g, n) ==
  /\ gc[g].pc = "scan" /\ gc[g].kill = {}
  /\ n \in gc[g].queue
  /\ gc' = [gc EXCEPT ![g].queue = @ \ {n}, ![g].at = n,
                      ![g].kill = Orphans(n, gc[g].valid, gc[g].start)]
  /\ UNCHANGED <<tree, now, mtime, op>>

\* The node cannot be reached, or is not registered.
SkipNode(g, n) ==
  /\ gc[g].pc = "scan" /\ gc[g].kill = {}
  /\ n \in gc[g].queue
  /\ gc' = [gc EXCEPT ![g].queue = @ \ {n}]
  /\ UNCHANGED <<tree, now, mtime, op>>

\* One turn of garbageCollectNode's loop that reaches DeleteData.
DeleteOrphan(g, f) ==
  /\ f \in gc[g].kill
  /\ mtime' = [mtime EXCEPT ![gc[g].at][f] = Absent]
  /\ gc' = [gc EXCEPT ![g].kill = @ \ {f}]
  /\ UNCHANGED <<tree, now, op>>

DeleteOrphanFails(g, f) ==
  /\ f \in gc[g].kill
  /\ gc' = [gc EXCEPT ![g].kill = @ \ {f}]
  /\ UNCHANGED <<tree, now, mtime, op>>

\* runGC returns, or the MDS stops in the middle of it, or learns that it is
\* not the leader before it starts.
EndGC(g) ==
  /\ gc[g].pc = "scan" /\ gc[g].queue = {} /\ gc[g].kill = {}
  /\ gc' = [gc EXCEPT ![g] = NoGC]
  /\ UNCHANGED <<tree, now, mtime, op>>

MDSFails(g) ==
  /\ gc[g].pc # "idle"
  /\ gc' = [gc EXCEPT ![g] = NoGC]
  /\ UNCHANGED <<tree, now, mtime, op>>

\* Time passes; at the horizon it waits for the uploads in progress.
Tick ==
  /\ now < MaxTime
  /\ now >= Horizon => \A c \in Client : op[c].pc # "storing"
  /\ now' = now + 1
  /\ UNCHANGED <<tree, mtime, op, gc>>

----------------------------------------------------------------------------

ClientStep(c) ==
  \/ \E p \in Path, e \in Entry : Mkdir(c, p, e)
  \/ \E src, dst \in Path : Rename(c, src, dst)
  \/ \E p \in Path, e \in Entry, mode \in CreateModes, sz \in Size,
        addrs \in SUBSET Addr : PutCreate(c, p, e, mode, sz, addrs)
  \/ \E n \in Addr, t \in (now - Skew)..(now + Skew), ack \in BOOLEAN :
        StoreData(c, n, t, ack)
  \/ \E n \in Addr : StoreFails(c, n)
  \/ PutComplete(c)
  \/ PutCleanup(c)
  \/ \E p \in Path : Delete(c, p)
  \/ DeleteApply(c)
  \/ \E n \in Addr, erased \in BOOLEAN : Erase(c, n, erased)
  \/ ClientFails(c)

CollectorStep(g) ==
  \/ FallsBehind(g)
  \/ runGC(g)
  \/ Collect(g)
  \/ \E n \in Addr : ListAllPaths(g, n) \/ SkipNode(g, n)
  \/ \E f \in Entry : DeleteOrphan(g, f) \/ DeleteOrphanFails(g, f)
  \/ EndGC(g)
  \/ MDSFails(g)

LNext ==
  \/ \E c \in Client : ClientStep(c)
  \/ \E g \in Collector : CollectorStep(g)
  \/ Tick

LSpec == LInit /\ [][LNext]_lvars

\* What the code's scheduling gives: time passes, clients proceed or fail,
\* the ticker starts collectors for ever, and neither a data node nor the MDS
\* fails at the same point of every cycle.
ClientProgress(c) ==
  \/ \E n \in Addr, t \in (now - Skew)..(now + Skew), ack \in BOOLEAN :
       StoreData(c, n, t, ack)
  \/ \E n \in Addr : StoreFails(c, n)
  \/ PutComplete(c)
  \/ PutCleanup(c)
  \/ DeleteApply(c)
  \/ \E n \in Addr, erased \in BOOLEAN : Erase(c, n, erased)

Fairness ==
  /\ WF_lvars(Tick)
  /\ \A c \in Client : WF_lvars(ClientProgress(c))
  /\ \A g \in Collector :
       /\ WF_lvars(runGC(g))
       /\ SF_lvars(Collect(g))
       /\ WF_lvars(EndGC(g))
       /\ \A n \in Addr :
            /\ SF_lvars(ListAllPaths(g, n))
            /\ \A f \in Entry : SF_lvars(gc[g].at = n /\ DeleteOrphan(g, f))

FairLSpec == LSpec /\ Fairness

----------------------------------------------------------------------------
(* Properties.                                                              *)

\* The physical paths that files of the tree point to.
Referenced == {r[2] : r \in UNION {replicas[e] : e \in Reachable}}

\* What a collector is about to delete is not referenced, though uploads,
\* renames and deletes went on since it read the tree and listed the node.
KillListDead == \A g \in Collector : gc[g].kill \cap Referenced = {}

\* What Client.Delete is about to erase is not referenced.
EraseListDead ==
  \A c \in Client : op[c].pc = "erasing" => op[c].file \notin Referenced

\* A file that an upload completed has its bytes on one of its replicas, so
\* that it can be read.  (Handles has the files that Close completes.)
CompleteReadable ==
  \A e \in Reachable :
    status[e] = "complete" => \E r \in replicas[e] : mtime[r[1]][r[2]] # Absent

\* A PutFile that could not store anything removes nothing but the file it
\* created.
CleanupRemovesOwn ==
  [][\A c \in Client :
       DeleteApply(c) /\ op[c].own # Nil /\ lookup(op[c].path) # Nil
         => lookup(op[c].path) = op[c].own]_lvars

\* Bytes that the tree no longer references leave the data nodes, whatever
\* the client that should have erased them did.
OrphansReclaimed ==
  \A n \in Addr, f \in Entry \ {Root} :
    (mtime[n][f] # Absent /\ kind[f] = "file" /\ f \notin Referenced)
      ~> mtime[n][f] = Absent
=============================================================================
