------------------------------ MODULE Cluster ------------------------------
(***************************************************************************)
(* The MDS cluster as data nodes see it: which data nodes are registered.   *)
(* Commands are committed by Raft (the goraft library, external here) and   *)
(* applied by every server to its own state (internal/metadata/apply.go,    *)
(* state_machine.go); servers stop, restore a snapshot and replay their     *)
(* log.  Data nodes send heartbeats to one configured server and follow     *)
(* redirects (internal/datanode/datanode.go); the leader removes the silent *)
(* ones (checkDataNodeHealth, internal/metadata/gc.go).                     *)
(*                                                                          *)
(* The directory tree is left out.  Time passes in heartbeat intervals, in  *)
(* each of which every data node sends one heartbeat and the leader checks  *)
(* once (heartbeatInterval and gcInterval are both 5 minutes).  They are    *)
(* long for Raft (ElectionTimeout is 3 seconds): when one ends, a majority  *)
(* has elected a leader and the servers that run have applied everything.   *)
(* A time is kept as its age, up to Timeout + 1, so that a timestamp taken  *)
(* with time.Now() is age 0 where and when the command is applied, after a  *)
(* restart too.                                                             *)
(***************************************************************************)
EXTENDS Naturals, Sequences, FiniteSets

CONSTANTS
  Server,        \* MDS servers
  Node,          \* data nodes
  Contact,       \* Contact[n]: the server that n is configured with
  Nil,
  Timeout,       \* heartbeatTimeout, in intervals
  Span,          \* Config.MaxIndexSpan: commands between two snapshots
  MaxLag,        \* bound: committed commands that a server did not apply
  MaxFaults      \* bound: servers and data nodes that stop, lost heartbeats

ASSUME ClusterAssumption ==
  /\ {Timeout, MaxLag, MaxFaults} \subseteq Nat
  /\ Span \in Nat \ {0}
  /\ Contact \in [Node -> Server]
  /\ Nil \notin Server \cup Node \cup Nat
  /\ IsFiniteSet(Node)

VARIABLES
  up,       \* the servers that run
  leader,   \* raftServer.IsLeader() holds on it, or Nil
  known,    \* known[s]: raftServer.GetLeader() on s
  mem,      \* mem[s]: the state machine of s
  snap,     \* snap[s]: its last snapshot
  wal,      \* wal[s]: the commands it applied since
  pend,     \* pend[s]: the committed commands it is yet to apply
  table,    \* history: the state after all committed commands
  alive,    \* the data nodes that run
  sent,     \* the data nodes that sent their heartbeat in this interval
  heard,    \* history: heard[n] is the age of the last committed heartbeat
  checked,  \* whether the leader did its health check in this interval
  dead,     \* deadNodes of that check, yet to be removed
  faults

servers == <<up, leader, known, mem, snap, wal, pend, table>>
nodes == <<alive, sent, heard>>
cvars == <<servers, nodes, checked, dead, faults>>

Members(m) == {m.nodes[i] : i \in DOMAIN m.nodes}
Age == 0..(Timeout + 1)

\* nodes is mds.dataNodes, beat the age of lastHeartbeat (Nil: no key).
Empty == [nodes |-> <<>>, beat |-> [n \in Node |-> Nil]]

IsState(m) ==
  /\ m.nodes \in Seq(Node) /\ Len(m.nodes) <= Cardinality(Node)
  /\ m.beat \in [Node -> Age \cup {Nil}]

Command == [op : {"heartbeat", "remove"}, node : Node]

CTypeOK ==
  /\ up \subseteq Server /\ leader \in up \cup {Nil}
  /\ known \in [Server -> Server \cup {Nil}]
  /\ \A s \in Server : /\ IsState(mem[s]) /\ IsState(snap[s])
                       /\ wal[s] \in Seq(Command) /\ Len(wal[s]) <= Span
                       /\ pend[s] \in Seq(Command) /\ Len(pend[s]) <= Span + MaxLag
  /\ IsState(table)
  /\ alive \subseteq Node /\ sent \subseteq Node /\ dead \subseteq Node
  /\ heard \in [Node -> Age]
  /\ checked \in BOOLEAN /\ faults \in 0..MaxFaults

CInit ==
  /\ up = Server /\ leader = Nil
  /\ known = [s \in Server |-> Nil]
  /\ mem = [s \in Server |-> Empty] /\ snap = mem
  /\ wal = [s \in Server |-> <<>>] /\ pend = wal
  /\ table = Empty
  /\ alive = Node /\ sent = {}
  /\ heard = [n \in Node |-> Timeout + 1]
  /\ checked = FALSE /\ dead = {} /\ faults = 0

----------------------------------------------------------------------------
(* The state machine.                                                       *)

AppendAlways(m, n) ==                                            \* mutant
  [m EXCEPT !.nodes = Append(@, n), !.beat[n] = 0]

applyHeartbeat(m, n) ==
  [m EXCEPT !.nodes = IF n \in Members(m) THEN @ ELSE Append(@, n),
            !.beat[n] = 0]

\* The list q without its first n.
Without(q, n) ==
  LET i == CHOOSE k \in DOMAIN q : q[k] = n /\ \A j \in 1..(k - 1) : q[j] # n
  IN  [j \in 1..(Len(q) - 1) |-> IF j < i THEN q[j] ELSE q[j + 1]]

RemoveFromList(m, n) ==                                          \* mutant
  [m EXCEPT !.nodes = IF n \in Members(m) THEN Without(@, n) ELSE @]

applyRemoveDataNode(m, n) ==
  [m EXCEPT !.nodes = IF n \in Members(m) THEN Without(@, n) ELSE @,
            !.beat[n] = Nil]

Apply(m, cmd) ==
  CASE cmd.op = "heartbeat" -> applyHeartbeat(m, cmd.node)
    [] cmd.op = "remove" -> applyRemoveDataNode(m, cmd.node)

\* The state after the commands of q.
Replay(m, q) ==
  LET after[i \in 0..Len(q)] == IF i = 0 THEN m ELSE Apply(after[i - 1], q[i])
  IN  after[Len(q)]

----------------------------------------------------------------------------
(* Raft, as far as the state machine sees it.                               *)

Majority(S) == 2 * Cardinality(S) > Cardinality(Server)

\* s applies cmd, and takes a snapshot when Span commands follow the last.
Applies(s, cmd) ==
  LET q == Append(wal[s], cmd) IN
  /\ mem' = [mem EXCEPT ![s] = Apply(@, cmd)]
  /\ snap' = IF Len(q) < Span THEN snap ELSE [snap EXCEPT ![s] = mem'[s]]
  /\ wal' = [wal EXCEPT ![s] = IF Len(q) < Span THEN q ELSE <<>>]

\* submitCommand on the leader: when Do returns, the command is committed and
\* the leader has applied it.
Do(cmd) ==
  /\ leader # Nil
  /\ \A s \in Server \ {leader} : Len(pend[s]) < MaxLag
  /\ Applies(leader, cmd)
  /\ pend' = [s \in Server |-> IF s = leader THEN pend[s] ELSE Append(pend[s], cmd)]
  /\ table' = Apply(table, cmd)
  /\ UNCHANGED <<up, leader, known>>

ApplyNext(s) ==
  /\ s \in up /\ pend[s] # <<>>
  /\ Applies(s, Head(pend[s]))
  /\ pend' = [pend EXCEPT ![s] = Tail(@)]
  /\ UNCHANGED <<up, leader, known, table, nodes, checked, dead, faults>>

\* A leader that is gone takes its health check with it.
NoLeader == leader' = Nil /\ checked' = FALSE /\ dead' = {}

Fault == faults < MaxFaults /\ faults' = faults + 1

\* A server stops; without a majority nobody leads.
Crash(s) ==
  /\ s \in up /\ Fault
  /\ up' = up \ {s}
  /\ mem' = [mem EXCEPT ![s] = Empty]
  /\ IF s = leader \/ ~Majority(up') THEN NoLeader
     ELSE UNCHANGED <<leader, checked, dead>>
  /\ UNCHANGED <<known, snap, wal, pend, table, nodes>>

RestoreTreeOnly(s) == Empty                                      \* mutant

Restore(s) == snap[s]

\* It comes back with its snapshot and replays the log that follows it.
Restart(s) ==
  /\ s \notin up
  /\ up' = up \cup {s}
  /\ mem' = [mem EXCEPT ![s] = Restore(s)]
  /\ pend' = [pend EXCEPT ![s] = wal[s] \o @]
  /\ wal' = [wal EXCEPT ![s] = <<>>]
  /\ known' = [known EXCEPT ![s] = Nil]
  /\ UNCHANGED <<leader, snap, table, nodes, checked, dead, faults>>

\* The new leader has every committed command, and has applied it.
Elect(s) ==
  /\ leader = Nil /\ s \in up /\ Majority(up)
  /\ pend[s] = <<>>
  /\ leader' = s
  /\ known' = [known EXCEPT ![s] = s]
  /\ UNCHANGED <<up, mem, snap, wal, pend, table, nodes, checked, dead, faults>>

\* The leader is deposed.
StepDown ==
  /\ leader # Nil /\ Fault
  /\ NoLeader
  /\ UNCHANGED <<up, known, mem, snap, wal, pend, table, nodes>>

Learn(s) ==
  /\ leader # Nil /\ s \in up /\ known[s] # leader
  /\ known' = [known EXCEPT ![s] = leader]
  /\ UNCHANGED <<up, leader, mem, snap, wal, pend, table, nodes, checked, dead, faults>>

----------------------------------------------------------------------------
(* Heartbeats.                                                              *)

\* The servers that a call to s is sent to, one redirect after the other;
\* Nil once it gave up: the server is down, or names nobody, or itself.
Hops(s) ==
  LET hop[i \in 1..3] ==
        IF i = 1 THEN s
        ELSE LET t == hop[i - 1] IN
             IF t = Nil THEN Nil
             ELSE IF t \notin up \/ known[t] = t THEN Nil ELSE known[t]
  IN  hop

ContactOnly(s) == leader # Nil /\ s = leader                     \* mutant

ReachesLeader(s) == leader # Nil /\ \E i \in 1..3 : Hops(s)[i] = leader

\* One heartbeat, which registers the node; when it cannot be delivered the
\* next one is sent after an interval.
sendHeartbeat(n) ==
  /\ n \in alive \ sent
  /\ sent' = sent \cup {n}
  /\ IF ReachesLeader(Contact[n])
     THEN /\ Do([op |-> "heartbeat", node |-> n])
          /\ heard' = [heard EXCEPT ![n] = 0]
     ELSE UNCHANGED <<servers, heard>>
  /\ UNCHANGED <<alive, checked, dead, faults>>

LoseHeartbeat(n) ==
  /\ n \in alive \ sent /\ Fault
  /\ sent' = sent \cup {n}
  /\ UNCHANGED <<servers, alive, heard, checked, dead>>

\* A data node stops, or starts again and sends a heartbeat at once.
StopNode(n) ==
  /\ n \in alive /\ Fault
  /\ alive' = alive \ {n}
  /\ UNCHANGED <<servers, sent, heard, checked, dead>>

StartNode(n) ==
  /\ n \notin alive /\ Fault
  /\ alive' = alive \cup {n} /\ sent' = sent \ {n}
  /\ UNCHANGED <<servers, heard, checked, dead>>

----------------------------------------------------------------------------
(* The health check, in two parts: the times are read under a lock, which   *)
(* is released before the commands are submitted.                           *)

AsOldAsTimeout(m) == {n \in Node : m.beat[n] # Nil /\ m.beat[n] >= Timeout}
                                                                 \* mutant

Overdue(m) == {n \in Node : m.beat[n] # Nil /\ m.beat[n] > Timeout}

checkDataNodeHealth ==
  /\ leader # Nil /\ ~checked
  /\ checked' = TRUE
  /\ dead' = Overdue(mem[leader])
  /\ UNCHANGED <<servers, nodes, faults>>

RemoveDead(n) ==
  /\ n \in dead
  /\ Do([op |-> "remove", node |-> n])
  /\ dead' = dead \ {n}
  /\ UNCHANGED <<nodes, checked, faults>>

----------------------------------------------------------------------------

Older(k) == IF k > Timeout THEN k ELSE k + 1
OlderState(m) ==
  [m EXCEPT !.beat = [n \in Node |-> IF @[n] = Nil THEN Nil ELSE Older(@[n])]]

\* An interval ends: everybody had the time to send, to check and to remove.
Tick ==
  /\ alive \subseteq sent
  /\ \A s \in up : pend[s] = <<>> /\ (leader # Nil => known[s] = leader)
  /\ leader = Nil => ~Majority(up)
  /\ leader # Nil => checked /\ dead = {}
  /\ mem' = [s \in Server |-> OlderState(mem[s])]
  /\ snap' = [s \in Server |-> OlderState(snap[s])]
  /\ table' = OlderState(table)
  /\ heard' = [n \in Node |-> Older(heard[n])]
  /\ sent' = {} /\ checked' = FALSE
  /\ UNCHANGED <<up, leader, known, wal, pend, alive, dead, faults>>

ServerStep(s) == ApplyNext(s) \/ Crash(s) \/ Restart(s) \/ Elect(s) \/ Learn(s)

NodeStep(n) ==
  sendHeartbeat(n) \/ LoseHeartbeat(n) \/ StopNode(n) \/ StartNode(n) \/ RemoveDead(n)

CNext ==
  \/ \E s \in Server : ServerStep(s)
  \/ \E n \in Node : NodeStep(n)
  \/ StepDown
  \/ checkDataNodeHealth
  \/ Tick

CSpec == CInit /\ [][CNext]_cvars

\* Servers come back, apply what is committed and elect a leader, which
\* checks in every interval; data nodes keep sending.
CFairness ==
  /\ WF_cvars(Tick) /\ WF_cvars(checkDataNodeHealth)
  /\ WF_cvars(\E s \in Server : Elect(s))
  /\ \A s \in Server : /\ WF_cvars(Restart(s)) /\ WF_cvars(Learn(s))
                       /\ WF_cvars(ApplyNext(s))
  /\ \A n \in Node : WF_cvars(sendHeartbeat(n)) /\ WF_cvars(RemoveDead(n))

FairCSpec == CSpec /\ CFairness

----------------------------------------------------------------------------
(* Properties.                                                              *)

\* A server that applies everything committed has the one committed state,
\* from its memory as from its snapshot after a restart, although times are
\* taken where commands are applied.
Converges ==
  \A s \in Server :
    /\ s \in up => Replay(mem[s], pend[s]).nodes = table.nodes
    /\ Replay(snap[s], wal[s] \o pend[s]).nodes = table.nodes

\* A registered node, and no other, has a heartbeat time on every server, so
\* that whoever becomes leader can find it overdue.
Timed ==
  \A s \in Server : \A m \in {mem[s], snap[s]} :
    {n \in Node : m.beat[n] # Nil} = Members(m)

\* The leader, whatever restarts it went through, gives up only nodes of
\* which no heartbeat was committed for longer than the timeout.
OnlySilentGivenUp ==
  [][\A n \in dead' \ dead : heard[n] > Timeout]_cvars

\* Once faults cease, the registered nodes are those that run, for good.
MembershipSettles ==
  \A n \in Node : <>[](n \in Members(table) <=> n \in alive)

\* A leader that fails over does not cost a live data node its place: a node
\* whose server led when it last ran stays registered.
NoFalseRemoval ==
  [][\A n \in alive :
       n \in Members(table) /\ known[Contact[n]] = Contact[n]
         => n \in Members(table')]_cvars
=============================================================================
