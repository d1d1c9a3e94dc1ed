----------------------------- MODULE Snapshots -----------------------------
(***************************************************************************)
(* The directory tree as a value: what MetadataServer.Snapshot writes and   *)
(* Restore reads back (entrySnapshot, internal/metadata/mds.go), without    *)
(* pointers.  A server that restores a snapshot and replays the log after   *)
(* it ends like the others only if commands change this value, and depend   *)
(* on nothing else that an entry holds.  Each command relates the value s   *)
(* before it to the value t after it.                                       *)
(***************************************************************************)
EXTENDS Naturals, Sequences, SequencesExt, Functions

CONSTANTS
  FileIDs, Sizes,
  Lists,  \* lists of replicas
  NoID    \* the identity of the root

VARIABLE fs   \* fs[p]: what is at path p

Directory(id) ==
  [kind |-> "dir", id |-> id, status |-> "none", size |-> 0, replicas |-> {}]

Init == fs = [p \in {<<>>} |-> Directory(NoID)]

IsFile(s, p) == p \in DOMAIN s /\ s[p].kind = "file"
IsDir(s, p) == p \in DOMAIN s /\ s[p].kind = "dir"

\* Below an existing directory, and in place of a file at most.
MayPut(s, p) == p # <<>> /\ IsDir(s, Front(p)) /\ ~IsDir(s, p)

Below(s, p) == {q \in DOMAIN s : IsPrefix(p, q)}
Put(s, p, a) == [q \in DOMAIN s \cup {p} |-> IF q = p THEN a ELSE s[q]]

Mkdir(s, t, p, id) ==
  /\ MayPut(s, p) /\ p \notin DOMAIN s
  /\ t = Put(s, p, Directory(id))

\* A file that is overwritten keeps its identity.
CreateFile(s, t, p, id, sz, list) ==
  /\ MayPut(s, p)
  /\ t = Put(s, p, [kind |-> "file", id |-> IF p \in DOMAIN s THEN s[p].id ELSE id,
                    status |-> "pending", size |-> sz, replicas |-> list])

Delete(s, t, p) ==
  /\ p # <<>> /\ p \in DOMAIN s
  /\ t = Restrict(s, DOMAIN s \ Below(s, p))

\* The subtree at src appears at dst, all of its attributes as they were.
Rename(s, t, src, dst) ==
  LET moved == {dst \o SubSeq(q, Len(src) + 1, Len(q)) : q \in Below(s, src)}
      From(q) == IF q \in moved THEN src \o SubSeq(q, Len(dst) + 1, Len(q)) ELSE q
  IN
  /\ src # <<>> /\ src \in DOMAIN s
  /\ MayPut(s, dst) /\ ~IsStrictPrefix(src, dst)
  /\ t = [q \in (DOMAIN s \ Below(s, src)) \cup moved |-> s[From(q)]]

UpdateSize(s, t, p, sz) ==
  /\ IsFile(s, p) /\ s[p].status # "recovering"
  /\ t = [s EXCEPT ![p].size = sz]

UpdateReplicas(s, t, p, list) ==
  /\ IsFile(s, p) /\ list # {}
  /\ t = [s EXCEPT ![p].replicas = list]

\* CompleteFile and UpdateStatus.
UpdateStatus(s, t, p, st) ==
  /\ IsFile(s, p)
  /\ t = [s EXCEPT ![p].status = st]

\* A command that changes something has a path of s or of t.
Command(s, t) ==
  \E p \in DOMAIN s \cup DOMAIN t :
    \/ \E st \in {"complete", "recovering"} : UpdateStatus(s, t, p, st)
    \/ \E sz \in Sizes : UpdateSize(s, t, p, sz)
    \/ \E list \in Lists : UpdateReplicas(s, t, p, list)
    \/ Delete(s, t, p)
    \/ \E dst \in DOMAIN t : Rename(s, t, p, dst)
    \/ \E id \in FileIDs : Mkdir(s, t, p, id)
    \/ \E id \in FileIDs, sz \in Sizes, list \in Lists : CreateFile(s, t, p, id, sz, list)

Next ==
  LET s == fs
      t == fs'
  IN  s # t /\ Command(s, t)

Spec == Init /\ [][Next]_fs
=============================================================================
