------------------------------ MODULE Handles ------------------------------
(***************************************************************************)
(* Random access through file handles: Client.Open and GetFile              *)
(* (internal/client/client.go) and the methods of FileHandle                *)
(* (internal/client/file_handle.go), over the tree of Namespace and the     *)
(* RangeRead, PartialWrite, Truncate and GetData calls of the data nodes    *)
(* (internal/datanode/datanode.go).  The FUSE layer drives the same calls.  *)
(*                                                                          *)
(* Every RPC is a step; the parallel calls of one operation interleave with  *)
(* those of other handles.  A failing RPC may have taken effect or not.  A  *)
(* file is a sequence of bytes; a byte is the number of the WriteAt that     *)
(* wrote it and 0 where nothing was written.  A call in flight when its      *)
(* client stops takes effect at once or never.  Files get a replica on       *)
(* every node of Addr.                                                      *)
(*                                                                          *)
(* acked and failed are history: what the applications may count on, and    *)
(* which files an update that failed may have left in disorder.             *)
(***************************************************************************)
EXTENDS Namespace, Integers, FiniteSets

CONSTANTS
  Handle,
  Writers,      \* the handles that applications write through; others read
  OpenFlags,    \* flags with which writers open: O_CREAT, O_EXCL, O_TRUNC
  Offsets,      \* the bytes that applications write
  Reads,        \* the <<offset, length>> of reads
  Absent,       \* the content of a file that a node does not have
  MinParallel,  \* minParallelReadSize
  Sizes,        \* the sizes applications truncate to
  MoveOpen,     \* whether files are renamed while they are open
  MaxBytes,     \* bound: length of the longest file
  MaxWrites,    \* bound: WriteAt calls
  MaxFails      \* bound: failing RPCs and marks of the replicator

ASSUME HandlesAssumption ==
  /\ Writers \subseteq Handle
  /\ OpenFlags \subseteq SUBSET {"O_CREAT", "O_EXCL", "O_TRUNC"}
  /\ {MinParallel, MaxBytes, MaxWrites, MaxFails} \subseteq Nat
  /\ Sizes \subseteq 0..MaxBytes /\ Offsets \subseteq 1..MaxBytes
  /\ Reads \subseteq (0..MaxBytes) \X (1..MaxBytes)
  /\ MoveOpen \in BOOLEAN
  /\ 0..MaxBytes \subseteq Size /\ "CreateIfNotExist" \in CreateModes
  /\ IsFiniteSet(Addr) /\ Addr # {}
  /\ Absent \notin Seq(Nat)

VARIABLES
  content,  \* content[n][f]: the bytes of /data/f on node n, or Absent
  handle,   \* handle[h]: an open file and the call that runs on it
  writes,   \* how many WriteAt calls began
  fails,    \* how many RPCs failed
  acked,    \* acked[f]: the bytes of f that acknowledged updates left
  failed    \* <<f, op>>: an op on f failed part of the way

tree == <<kind, children, fileID, status, size, replicas>>
hvars == <<tree, content, handle, writes, fails, acked, failed>>

Replica == Addr \X Entry
Byte == 0..MaxWrites
IsBytes(s) == s \in Seq(Byte) /\ Len(s) <= MaxBytes
Unread == -1  \* whatever the caller's buffer held

\* path to status are what Open leaves in the handle; the rest is the call in
\* progress: on is the file it updates, todo the replicas, or the segments of
\* a read, still to be called, floor what was acked at the start of a read.
ClosedHandle ==
  [pc |-> "closed", op |-> "none", path |-> <<>>, flags |-> {}, id |-> Nil,
   replicas |-> {}, size |-> 0, status |-> "none", on |-> Nil, arg |-> 0,
   ver |-> 0, todo |-> {}, ok |-> TRUE, buf |-> <<>>, n |-> 0, floor |-> <<>>]

HTypeOK ==
  /\ TypeOK
  /\ \A n \in Addr, f \in Entry :
       content[n][f] = Absent \/ IsBytes(content[n][f])
  /\ writes \in 0..MaxWrites /\ fails \in 0..MaxFails
  /\ \A f \in Entry : IsBytes(acked[f])
  /\ failed \subseteq Entry \X {"write", "truncate", "size"}
  /\ \A h \in Handle : LET x == handle[h] IN
       /\ x.pc \in {"closed", "create", "located", "locate", "open", "writing",
                    "truncating", "sizing", "reading", "getting", "got"}
       /\ x.op \in {"none", "open", "write", "truncate"}
       /\ x.path \in Path /\ {x.id, x.on} \subseteq Entry \cup {Nil}
       /\ x.replicas \subseteq Replica /\ x.size \in 0..MaxBytes
       /\ x.arg \in 0..MaxBytes /\ x.ver \in 0..MaxWrites
       /\ x.n \in 0..Len(x.buf) /\ Len(x.buf) <= MaxBytes

HInit ==
  /\ Init
  /\ content = [n \in Addr |-> [f \in Entry |-> Absent]]
  /\ handle = [h \in Handle |-> ClosedHandle]
  /\ writes = 0 /\ fails = 0
  /\ acked = [f \in Entry |-> <<>>]
  /\ failed = {}

----------------------------------------------------------------------------
(* Bytes.                                                                   *)

Smaller(i, j) == IF i < j THEN i ELSE j
Larger(i, j) == IF i < j THEN j ELSE i

\* A missing file reads as an empty one.
BytesAt(r) == IF content[r[1]][r[2]] = Absent THEN <<>> ELSE content[r[1]][r[2]]

\* The bytes s after byte i was written, with zeros in a gap.
Write(s, i, v) ==
  [j \in 1..Larger(i, Len(s)) |->
     IF j = i THEN v ELSE IF j <= Len(s) THEN s[j] ELSE 0]

\* The bytes s cut, or filled up with zeros, to length k.
Resize(s, k) == [j \in 1..k |-> IF j <= Len(s) THEN s[j] ELSE 0]

\* What reads may no longer count on once a truncation of file f to k began.
Cut(s, k) == SubSeq(s, 1, Smaller(k, Len(s)))

----------------------------------------------------------------------------
(* Client.Open.                                                             *)

Set(h, x) == handle' = [handle EXCEPT ![h] = x]

\* A call fails where the code allows for it, within the bound.
Outcome(ok) == ~ok => fails < MaxFails
Counted(ok) == fails' = IF ok THEN fails ELSE fails + 1

\* Stat decides what is to be done; an error of Open changes nothing.
OpenStat(h, p, flags) ==
  LET e == lookup(p)
      x == [ClosedHandle EXCEPT !.path = p, !.op = "open", !.flags = flags]
  IN
  /\ handle[h].pc = "closed"
  /\ p # <<>> /\ (h \in Writers \/ flags = {})
  /\ \/ e = Nil /\ "O_CREAT" \in flags /\ Set(h, [x EXCEPT !.pc = "create"])
     \/ /\ IsFile(e) /\ "O_EXCL" \notin flags
        /\ Set(h, IF "O_TRUNC" \in flags THEN [x EXCEPT !.pc = "located"]
                  ELSE [x EXCEPT !.pc = "locate", !.size = size[e]])
  /\ UNCHANGED <<tree, content, writes, fails, acked, failed>>

\* Another client may have created the file since.
OpenCreate(h, e) ==
  LET p == handle[h].path IN
  /\ handle[h].pc = "create"
  /\ \/ /\ applyCreateFile(p, e, "CreateIfNotExist", 0, Addr)
        /\ handle' = [handle EXCEPT ![h].pc = "locate", ![h].status = "pending",
                                    ![h].replicas = Addr \X {e}]
     \/ /\ lookup(p) # Nil \/ ~ParentFound(p)
        /\ Set(h, ClosedHandle)
        /\ UNCHANGED tree
  /\ UNCHANGED <<content, writes, fails, acked, failed>>

\* The last call of Open, for the FileID and, unless the file was created
\* here, for its replicas and status.
OpenLocate(h) ==
  LET e == lookup(handle[h].path)
      x == handle[h]
      st == IF x.status = "none" THEN status[e] ELSE x.status
  IN
  /\ x.pc = "locate"
  /\ Set(h, IF ~IsFile(e) \/ (st = "recovering" /\ h \in Writers)
            THEN ClosedHandle
            ELSE [x EXCEPT !.pc = "open", !.op = "none", !.flags = {}, !.status = st,
                    !.id = fileID[e],
                    !.replicas = IF @ = {} THEN replicas[e] ELSE @])
  /\ UNCHANGED <<tree, content, writes, fails, acked, failed>>

----------------------------------------------------------------------------
(* FileHandle.WriteAt.                                                      *)

\* The handle after a call: open again, or gone when Open failed.
Back(x) ==
  [x EXCEPT !.pc = "open", !.op = "none", !.on = Nil, !.arg = 0, !.ver = 0, !.todo = {},
            !.ok = TRUE, !.buf = <<>>, !.n = 0, !.floor = <<>>]

WriteAt(h, i) ==
  /\ handle[h].pc = "open" /\ h \in Writers
  /\ handle[h].replicas # {}
  /\ writes < MaxWrites
  /\ writes' = writes + 1
  /\ Set(h, [handle[h] EXCEPT !.pc = "writing", !.op = "write", !.on = handle[h].id,
               !.arg = i,
               !.ver = writes + 1, !.todo = handle[h].replicas])
  /\ UNCHANGED <<tree, content, fails, acked, failed>>

PartialWrite(h, r, took, ok) ==
  LET x == handle[h] IN
  /\ x.pc = "writing" /\ r \in x.todo
  /\ ok => took
  /\ Outcome(ok) /\ Counted(ok)
  /\ content' = IF took THEN [content EXCEPT ![r[1]][r[2]] = Write(BytesAt(r), x.arg, x.ver)]
                ELSE content
  /\ Set(h, [x EXCEPT !.todo = @ \ {r}, !.ok = @ /\ ok])
  /\ UNCHANGED <<tree, writes, acked, failed>>

WriteIgnoresErrors(h) ==                                         \* mutant
  LET x == handle[h]
      grown == x.arg > x.size
  IN
  /\ x.pc = "writing" /\ x.todo = {}
  /\ Set(h, IF grown THEN [x EXCEPT !.pc = "sizing", !.size = x.arg] ELSE Back(x))
  /\ acked' = IF ~grown THEN [acked EXCEPT ![x.on] = Write(@, x.arg, x.ver)] ELSE acked
  /\ UNCHANGED <<tree, content, writes, fails, failed>>

SizeAnyway(h) ==                                                 \* mutant
  LET x == handle[h]
      grown == x.arg > x.size
  IN
  /\ x.pc = "writing" /\ x.todo = {}
  /\ Set(h, IF grown THEN [x EXCEPT !.pc = "sizing", !.size = x.arg] ELSE Back(x))
  /\ acked' = IF x.ok /\ ~grown THEN [acked EXCEPT ![x.on] = Write(@, x.arg, x.ver)]
              ELSE acked
  /\ failed' = IF x.ok THEN failed ELSE failed \cup {<<x.on, "write">>}
  /\ UNCHANGED <<tree, content, writes, fails>>

\* Every replica has answered.  When one failed, WriteAt returns an error;
\* when the file did not grow, it returns; otherwise the size is yet to be
\* sent (the size kept in the handle is changed first).
WriteAnswered(h) ==
  LET x == handle[h]
      grown == x.arg > x.size
  IN
  /\ x.pc = "writing" /\ x.todo = {}
  /\ Set(h, IF x.ok /\ grown THEN [x EXCEPT !.pc = "sizing", !.size = x.arg] ELSE Back(x))
  /\ acked' = IF x.ok /\ ~grown THEN [acked EXCEPT ![x.on] = Write(@, x.arg, x.ver)]
              ELSE acked
  /\ failed' = IF x.ok THEN failed ELSE failed \cup {<<x.on, "write">>}
  /\ UNCHANGED <<tree, content, writes, fails>>

SizeRefused(h) ==
  ~IsFile(lookup(handle[h].path)) \/ status[lookup(handle[h].path)] = "recovering"

\* updateSize, by path.
updateSize(h, took, ok) ==
  /\ handle[h].pc = "sizing"
  /\ ok => took
  /\ took => ~SizeRefused(h)
  /\ IF SizeRefused(h) THEN UNCHANGED fails ELSE Outcome(ok) /\ Counted(ok)
  /\ IF took THEN applyUpdateSize(handle[h].path, handle[h].arg) ELSE UNCHANGED tree

\* WriteAt returns success whether or not the MDS took the size.
WriteReturns(h, took, ok) ==
  LET x == handle[h] IN
  /\ x.op = "write"
  /\ updateSize(h, took, ok)
  /\ Set(h, Back(x))
  /\ acked' = [acked EXCEPT ![x.on] = Write(@, x.arg, x.ver)]
  /\ failed' = IF ok THEN failed ELSE failed \cup {<<x.on, "size">>}
  /\ UNCHANGED <<content, writes>>

----------------------------------------------------------------------------
(* FileHandle.Truncate, and O_TRUNC in Open.                                *)

\* truncateAllReplicas asks where the file at the path is, and starts a call
\* on each of its replicas.
truncateAllReplicas(h, k) ==
  LET e == lookup(handle[h].path) IN
  /\ IsFile(e)
  /\ handle' = [g \in Handle |->
       IF g = h THEN [handle[h] EXCEPT !.pc = "truncating", !.arg = k, !.on = fileID[e],
                        !.op = IF @ = "open" THEN @ ELSE "truncate",
                        !.todo = replicas[e]]
       ELSE IF handle[g].id = fileID[e] THEN [handle[g] EXCEPT !.floor = Cut(@, k)]
       ELSE handle[g]]
  /\ acked' = [acked EXCEPT ![fileID[e]] = Cut(@, k)]
  /\ UNCHANGED <<tree, content, writes, fails, failed>>

Truncate(h, k) ==
  /\ handle[h].pc = "open" /\ h \in Writers
  /\ truncateAllReplicas(h, k)

OpenTruncate(h) ==
  /\ handle[h].pc = "located"
  /\ \/ truncateAllReplicas(h, 0)
     \/ /\ ~IsFile(lookup(handle[h].path))
        /\ Set(h, ClosedHandle)
        /\ UNCHANGED <<tree, content, writes, fails, acked, failed>>

\* DataNode.Truncate creates a missing file unless it is to be empty, and
\* fails then.
TruncateReplica(h, r, took, ok) ==
  LET x == handle[h]
      missing == x.arg = 0 /\ content[r[1]][r[2]] = Absent
  IN
  /\ x.pc = "truncating" /\ r \in x.todo
  /\ ok => took
  /\ IF missing THEN ~took /\ ~ok /\ UNCHANGED fails
     ELSE Outcome(ok) /\ Counted(ok)
  /\ content' = IF took THEN [content EXCEPT ![r[1]][r[2]] = Resize(BytesAt(r), x.arg)]
                ELSE content
  /\ Set(h, [x EXCEPT !.todo = @ \ {r}, !.ok = @ /\ ok])
  /\ UNCHANGED <<tree, writes, acked, failed>>

TruncateAnswered(h) ==
  LET x == handle[h] IN
  /\ x.pc = "truncating" /\ x.todo = {}
  /\ Set(h, CASE x.ok -> [x EXCEPT !.pc = "sizing"]
              [] ~x.ok /\ x.op = "open" -> ClosedHandle
              [] OTHER -> Back(x))
  /\ failed' = IF x.ok THEN failed ELSE failed \cup {<<x.on, "truncate">>}
  /\ UNCHANGED <<tree, content, writes, fails, acked>>

\* The size follows the data; an error makes Truncate, or Open, fail.  All
\* replicas are equal again when the file was emptied.
TruncateReturns(h, took, ok) ==
  LET x == handle[h] IN
  /\ x.op \in {"truncate", "open"}
  /\ updateSize(h, took, ok)
  /\ Set(h, CASE ok /\ x.op = "open" -> [Back(x) EXCEPT !.pc = "locate", !.op = "open"]
              [] ok /\ x.op # "open" -> [Back(x) EXCEPT !.size = x.arg]
              [] ~ok /\ x.op = "open" -> ClosedHandle
              [] OTHER -> Back(x))
  /\ acked' = IF ok THEN [acked EXCEPT ![x.on] = Resize(@, x.arg)] ELSE acked
  /\ failed' = CASE ~ok -> failed \cup {<<x.on, "truncate">>}
                 [] ok /\ x.arg = 0 -> {m \in failed : m[1] # x.on}
                 [] OTHER -> failed
  /\ UNCHANGED <<content, writes>>
----------------------------------------------------------------------------
(* FileHandle.ReadAt.                                                       *)

EqualSegments(n, len) ==                                         \* mutant
  LET s == len \div n IN
  IF n = 1 \/ len < MinParallel \/ s = 0 THEN {<<1, len>>}
  ELSE {<<(i - 1) * s + 1, i * s>> : i \in 1..n}

\* The parts of a buffer of length len that are read from n replicas in
\* parallel, as first and last position; the last one takes the remainder.
Segments(n, len) ==
  LET s == len \div n IN
  IF n = 1 \/ len < MinParallel \/ s = 0 THEN {<<1, len>>}
  ELSE {<<(i - 1) * s + 1, IF i = n THEN len ELSE i * s>> : i \in 1..n}

ReadAt(h, off, len) ==
  LET x == handle[h] IN
  /\ x.pc = "open" /\ h \notin Writers
  /\ x.replicas # {}
  /\ Set(h, [x EXCEPT !.pc = "reading", !.arg = off,
               !.todo = Segments(Cardinality(x.replicas), len),
               !.buf = [j \in 1..len |-> Unread], !.floor = acked[x.id]])
  /\ UNCHANGED <<tree, content, writes, fails, acked, failed>>

RangeReadPastEnd(h, seg, r) ==                                   \* mutant
  LET x == handle[h]
      s == BytesAt(r)
      last == Smaller(seg[2], Len(s) - x.arg)
  IN
  /\ x.pc = "reading" /\ seg \in x.todo /\ r \in x.replicas
  /\ Set(h, [x EXCEPT !.todo = @ \ {seg}, !.n = @ + (last - seg[1]) + 1,
               !.buf = [j \in DOMAIN @ |-> IF j \in seg[1]..last THEN s[x.arg + j] ELSE @[j]]])
  /\ UNCHANGED <<tree, content, writes, fails, acked, failed>>

\* A segment is read from one replica, any of them: calls to those before it
\* in the rotation may have failed.  The bytes found are counted and stored.
RangeRead(h, seg, r) ==
  LET x == handle[h]
      s == BytesAt(r)
      last == Smaller(seg[2], Len(s) - x.arg)
  IN
  /\ x.pc = "reading" /\ seg \in x.todo /\ r \in x.replicas
  /\ Set(h, [x EXCEPT !.todo = @ \ {seg},
               !.n = @ + Larger(0, last - seg[1] + 1),
               !.buf = [j \in DOMAIN @ |-> IF j \in seg[1]..last THEN s[x.arg + j] ELSE @[j]]])
  /\ UNCHANGED <<tree, content, writes, fails, acked, failed>>

\* ReadAt returns the first n bytes of the buffer, or an error when the calls
\* of a segment failed on all replicas.
ReadReturns(h) ==
  /\ handle[h].pc = "reading"
  /\ Set(h, Back(handle[h]))
  /\ UNCHANGED <<tree, content, writes, fails, acked, failed>>

----------------------------------------------------------------------------
(* Client.GetFile, here with a handle to hold its state.                    *)

EmptyUnlessComplete(h, p) ==                                     \* mutant
  LET e == lookup(p) IN
  /\ handle[h].pc = "closed" /\ h \notin Writers
  /\ IsFile(e)
  /\ Set(h, [ClosedHandle EXCEPT !.pc = IF status[e] = "complete" THEN "getting" ELSE "got",
               !.path = p, !.id = fileID[e], !.replicas = replicas[e],
               !.status = status[e], !.floor = acked[fileID[e]]])
  /\ UNCHANGED <<tree, content, writes, fails, acked, failed>>

GetLocation(h, p) ==
  LET e == lookup(p) IN
  /\ handle[h].pc = "closed" /\ h \notin Writers
  /\ IsFile(e)
  /\ Set(h, [ClosedHandle EXCEPT !.pc = IF status[e] = "pending" THEN "got" ELSE "getting",
               !.path = p, !.id = fileID[e], !.replicas = replicas[e],
               !.status = status[e], !.floor = acked[fileID[e]]])
  /\ UNCHANGED <<tree, content, writes, fails, acked, failed>>

\* The first replica that has the file, after calls to others failed.  No
\* bytes arrive as nil, which GetFile takes for the failure of all replicas.
GetData(h, r) ==
  LET s == content[r[1]][r[2]] IN
  /\ handle[h].pc = "getting" /\ r \in handle[h].replicas
  /\ s # Absent
  /\ Set(h, IF s = <<>> THEN ClosedHandle
            ELSE [handle[h] EXCEPT !.pc = "got", !.buf = s, !.n = Len(s)])
  /\ UNCHANGED <<tree, content, writes, fails, acked, failed>>

\* GetFile returns, with an error when no replica gave the bytes.
GetReturns(h) ==
  /\ handle[h].pc \in {"getting", "got"}
  /\ Set(h, ClosedHandle)
  /\ UNCHANGED <<tree, content, writes, fails, acked, failed>>

----------------------------------------------------------------------------

\* The file is completed when it was pending as the handle was opened.
Close(h) ==
  LET x == handle[h] IN
  /\ x.pc = "open"
  /\ IF x.status = "pending" /\ IsFile(lookup(x.path))
     THEN applyCompleteFile(x.path) ELSE UNCHANGED tree
  /\ Set(h, ClosedHandle)
  /\ UNCHANGED <<content, writes, fails, acked, failed>>

\* The client stops.
Stop(h) ==
  LET x == handle[h] IN
  /\ x.pc # "closed"
  /\ Outcome(FALSE) /\ Counted(FALSE)
  /\ Set(h, ClosedHandle)
  /\ failed' = IF x.on = Nil THEN failed
               ELSE failed \cup {<<x.on, IF x.op = "write" THEN "write" ELSE "truncate">>}
  /\ UNCHANGED <<tree, content, writes, acked>>

\* The replicator of the MDS marks a file and, later, completes it again.
Repairs(p) ==
  /\ IsFile(lookup(p))
  /\ \/ /\ status[lookup(p)] = "complete"
        /\ Outcome(FALSE) /\ Counted(FALSE)
        /\ applyUpdateStatus(p, "recovering")
     \/ /\ status[lookup(p)] = "recovering"
        /\ UNCHANGED fails
        /\ applyUpdateStatus(p, "complete")
  /\ UNCHANGED <<content, handle, writes, acked, failed>>

\* Client.Rename.
Rename(src, dst) ==
  /\ src # dst
  /\ MoveOpen \/ \A h \in Handle : handle[h].path \notin {src, dst}
  /\ applyRename(src, dst)
  /\ UNCHANGED <<content, handle, writes, fails, acked, failed>>

OpenStep(h) ==
  \/ \E p \in Path, flags \in OpenFlags \cup {{}} : OpenStat(h, p, flags)
  \/ \E e \in Entry : OpenCreate(h, e)
  \/ OpenTruncate(h)
  \/ OpenLocate(h)

UpdateStep(h) ==
  \/ \E i \in Offsets : WriteAt(h, i)
  \/ \E k \in Sizes : Truncate(h, k)
  \/ \E r \in Replica, took, ok \in BOOLEAN :
       PartialWrite(h, r, took, ok) \/ TruncateReplica(h, r, took, ok)
  \/ WriteAnswered(h) \/ TruncateAnswered(h)
  \/ \E took, ok \in BOOLEAN : WriteReturns(h, took, ok) \/ TruncateReturns(h, took, ok)

ReadStep(h) ==
  \/ \E range \in Reads : ReadAt(h, range[1], range[2])
  \/ \E seg \in handle[h].todo, r \in Replica : RangeRead(h, seg, r)
  \/ ReadReturns(h)
  \/ \E p \in Path : GetLocation(h, p)
  \/ \E r \in Replica : GetData(h, r)
  \/ GetReturns(h)

HNext ==
  \/ \E h \in Handle : OpenStep(h) \/ UpdateStep(h) \/ ReadStep(h) \/ Close(h) \/ Stop(h)
  \/ \E p \in Path : Repairs(p)
  \/ \E src, dst \in Path : Rename(src, dst)

HSpec == HInit /\ [][HNext]_hvars

----------------------------------------------------------------------------
(* Properties.                                                              *)

Updating(f, ops) == \E h \in Handle : handle[h].on = f /\ handle[h].op \in ops

\* A file that is not being updated, and on which no update failed since it
\* was last emptied, is what the acknowledged updates made it: the same bytes
\* on every replica, and the size that the MDS shows.
Settled ==
  \A e \in Reachable : LET f == fileID[e] IN
    IsFile(e) /\ ~Updating(f, {"write", "truncate", "open"}) /\ (\A m \in failed : m[1] # f)
      => size[e] = Len(acked[f]) /\ \A r \in replicas[e] : BytesAt(r) = acked[f]

\* The same without a reference to what was acknowledged: the replicas of
\* such a file are equal (WriteAt succeeds only when every replica took the
\* write, so that replicas do not differ).
ReplicasAgree ==
  \A e \in Reachable : LET f == fileID[e] IN
    IsFile(e) /\ ~Updating(f, {"write", "truncate", "open"}) /\ (\A m \in failed : m[1] # f)
      => \A r1, r2 \in replicas[e] : BytesAt(r1) = BytesAt(r2)

\* Data before metadata: whatever calls fail, every replica has the bytes up
\* to the size that the MDS shows, unless a truncation runs or failed.
SizeBacked ==
  \A e \in Reachable : LET f == fileID[e] IN
    IsFile(e) /\ ~Updating(f, {"truncate", "open"}) /\ <<f, "truncate">> \notin failed
      => \A r \in replicas[e] : size[e] <= Len(BytesAt(r))

\* What ReadAt returns covers the bytes that were acknowledged when it began,
\* and none of them is older than that, though its segments come from several
\* replicas and writes go on.
ReadsCurrent ==
  \A h \in Handle : LET x == handle[h] IN
    x.pc = "reading" /\ x.todo = {} =>
      \A j \in 1..Len(x.buf) :
        x.arg + j <= Len(x.floor) => j <= x.n /\ x.buf[j] >= x.floor[x.arg + j]

\* So does GetFile of a file that is complete.
DownloadsCurrent ==
  \A h \in Handle : LET x == handle[h] IN
    x.pc = "got" /\ x.status # "pending" =>
      \A j \in 1..Len(x.floor) : j <= x.n /\ x.buf[j] >= x.floor[j]

\* Every byte that ReadAt returns was read from a replica.
ReadsRead ==
  \A h \in Handle : LET x == handle[h] IN
    x.pc = "reading" /\ x.todo = {} => \A j \in 1..x.n : x.buf[j] # Unread

\* A handle changes the size of no file but the one it was opened on.
SizesOwn ==
  [][\A h \in Handle, e \in Entry :
       handle[h].pc = "sizing" /\ handle'[h].pc = "open" /\ size'[e] # size[e]
         => fileID[e] = handle[h].id]_hvars
=============================================================================
