--------------------------- MODULE ClusterProofs ---------------------------
(***************************************************************************)
(* Cluster: type correctness, Timed, Converges and OnlySilentGivenUp, for   *)
(* any number of servers and data nodes and all bounds.                     *)
(***************************************************************************)
EXTENDS Cluster, Induction, FiniteSetTheorems, SequenceTheorems

State == [nodes : Seq(Node), beat : [Node -> Age \cup {Nil}]]

\* The state of a server: every data node is listed once, and has a time if
\* and only if it is listed.
Sound(m) ==
  /\ m \in State
  /\ \A i, j \in 1..Len(m.nodes) : m.nodes[i] = m.nodes[j] => i = j
  /\ {n \in Node : m.beat[n] # Nil} = Members(m)

\* State m lists the nodes of t, with no time older than h, the ages of the
\* last committed heartbeats.
Agrees(m, t, h) ==
  /\ m.nodes = t.nodes
  /\ \A n \in Node : m.beat[n] # Nil => m.beat[n] <= h[n]

Control ==
  /\ up \subseteq Server /\ leader \in up \cup {Nil}
  /\ known \in [Server -> Server \cup {Nil}]
  /\ alive \subseteq Node /\ sent \subseteq Node /\ dead \subseteq Node
  /\ heard \in [Node -> Age]
  /\ checked \in BOOLEAN /\ faults \in 0..MaxFaults

\* A leader lags behind nothing; what a restart has to replay is bounded.
Queues ==
  /\ wal \in [Server -> Seq(Command)] /\ pend \in [Server -> Seq(Command)]
  /\ \A s \in Server : /\ Len(wal[s]) < Span
                       /\ Len(wal[s]) + Len(pend[s]) < Span + MaxLag
  /\ leader # Nil => pend[leader] = <<>>

States ==
  /\ mem \in [Server -> State] /\ snap \in [Server -> State] /\ Sound(table)
  /\ \A s \in Server : Sound(mem[s]) /\ Sound(snap[s])

\* With what it has yet to apply, from memory or from its snapshot, a server
\* gets to the committed state.
Agreement ==
  \A s \in Server :
    /\ s \in up => Agrees(Replay(mem[s], pend[s]), table, heard)
    /\ Agrees(Replay(snap[s], wal[s] \o pend[s]), table, heard)

CInv == Control /\ Queues /\ States /\ Agreement

----------------------------------------------------------------------------
(* Replay.                                                                  *)

\* f lists the states that the commands of q lead to from m.
IsRun(f, m, q) ==
  /\ f[0] = m
  /\ \A i \in 1..Len(q) : f[i] = Apply(f[i - 1], q[i])

\* The recursion in Replay has a solution.
LEMMA ReplayRuns ==
  ASSUME NEW m, NEW q, Len(q) \in Nat
  PROVE  \E f : IsRun(f, m, q) /\ Replay(m, q) = f[Len(q)]
<1> DEFINE F(n, f) == f = [i \in 0..n |-> IF i = 0 THEN m ELSE Apply(f[i - 1], q[i])]
           S == {n \in Nat : \E f : F(n, f)}
<1>1. 0 \in S
  <2>1. F(0, [i \in 0..0 |-> m])
    OBVIOUS
  <2> QED
    BY <2>1
<1>2. ASSUME NEW n \in Nat, n \in S PROVE n + 1 \in S
  <2>1. PICK f : F(n, f)
    BY <1>2
  <2> DEFINE g == [i \in 0..(n + 1) |-> IF i = 0 THEN m ELSE Apply(f[i - 1], q[i])]
  <2>2. \A i \in 0..n : g[i] = f[i]
    <3> HIDE DEF g
    <3> SUFFICES ASSUME NEW i \in 0..n PROVE g[i] = f[i]
      OBVIOUS
    <3>1. f[i] = IF i = 0 THEN m ELSE Apply(f[i - 1], q[i])
      BY <2>1, Zenon
    <3>2. g[i] = IF i = 0 THEN m ELSE Apply(f[i - 1], q[i])
      BY DEF g
    <3> QED
      BY <3>1, <3>2
  <2>3. F(n + 1, g)
    <3>1. ASSUME NEW i \in 0..(n + 1), i # 0 PROVE g[i - 1] = f[i - 1]
      <4>1. i - 1 \in 0..n
        BY <3>1
      <4> HIDE DEF g
      <4> QED
        BY <4>1, <2>2
    <3>2. g = [i \in 0..(n + 1) |-> IF i = 0 THEN m ELSE Apply(g[i - 1], q[i])]
      <4> DEFINE A(i) == IF i = 0 THEN m ELSE Apply(f[i - 1], q[i])
                 B(i) == IF i = 0 THEN m ELSE Apply(g[i - 1], q[i])
      <4>1. \A i \in 0..(n + 1) : A(i) = B(i)
        <5> HIDE DEF g
        <5> QED
          BY <3>1
      <4>2. g = [i \in 0..(n + 1) |-> A(i)]
        OBVIOUS
      <4> HIDE DEF A, B, g
      <4>3. g = [i \in 0..(n + 1) |-> B(i)]
        BY <4>1, <4>2
      <4> QED
        BY <4>3 DEF B
    <3> QED
      BY <3>2
  <2>4. n + 1 \in Nat
    OBVIOUS
  <2> HIDE DEF F, g
  <2> QED
    BY <2>3, <2>4
<1>3. \E f : F(Len(q), f)
  <2> HIDE DEF S
  <2>1. Nat \subseteq S
    BY <1>1, <1>2, SetInduction
  <2> QED
    BY <2>1 DEF S
<1> DEFINE after == CHOOSE f : F(Len(q), f)
<1>4. after = [i \in 0..Len(q) |-> IF i = 0 THEN m ELSE Apply(after[i - 1], q[i])]
  BY <1>3
<1>5. Replay(m, q) = after[Len(q)]
  BY DEF Replay
<1> HIDE DEF after
<1>6. after[0] = m
  BY <1>4
<1>7. ASSUME NEW i \in 1..Len(q) PROVE after[i] = Apply(after[i - 1], q[i])
  <2>1. i \in 0..Len(q) /\ i # 0
    OBVIOUS
  <2> QED
    BY <1>4, <2>1
<1> QED
  BY <1>5, <1>6, <1>7 DEF IsRun

\* The states of a run are determined by its start and the commands.
LEMMA RunUnique ==
  ASSUME NEW q, Len(q) \in Nat, NEW f, NEW g,
         f[0] = g[0], \A i \in 1..Len(q) : f[i - 1] = g[i - 1] => f[i] = g[i]
  PROVE  f[Len(q)] = g[Len(q)]
<1> DEFINE S == {i \in 0..Len(q) : f[i] = g[i]}
<1>1. 0 \in S
  OBVIOUS
<1>2. ASSUME NEW i \in 1..Len(q), i - 1 \in S PROVE i \in S
  BY <1>2
<1> HIDE DEF S
<1>3. Len(q) \in S
  BY <1>1, <1>2, InductionUpTo
<1> QED
  BY <1>3 DEF S

\* Nothing is replayed from an empty log.
LEMMA ReplayEmpty ==
  ASSUME NEW m
  PROVE  Replay(m, <<>>) = m
<1>1. Len(<<>>) = 0
  OBVIOUS
<1>2. PICK f : IsRun(f, m, <<>>) /\ Replay(m, <<>>) = f[Len(<<>>)]
  BY <1>1, ReplayRuns
<1> QED
  BY <1>1, <1>2 DEF IsRun

\* The last command is applied last.
LEMMA ReplayAppend ==
  ASSUME NEW m, NEW q \in Seq(Command), NEW c \in Command
  PROVE  Replay(m, Append(q, c)) = Apply(Replay(m, q), c)
<1> DEFINE r == Append(q, c)
<1>1. /\ Len(q) \in Nat /\ Len(r) \in Nat /\ Len(r) = Len(q) + 1
      /\ r[Len(r)] = c
      /\ \A i \in 1..Len(q) : r[i] = q[i]
  OBVIOUS
<1> HIDE DEF r
<1>2. PICK f : IsRun(f, m, r) /\ Replay(m, r) = f[Len(r)]
  BY <1>1, ReplayRuns
<1>3. PICK g : IsRun(g, m, q) /\ Replay(m, q) = g[Len(q)]
  BY <1>1, ReplayRuns
<1>4. f[Len(q)] = g[Len(q)]
  <2>1. f[0] = g[0]
    BY <1>2, <1>3 DEF IsRun
  <2>2. ASSUME NEW i \in 1..Len(q), f[i - 1] = g[i - 1] PROVE f[i] = g[i]
    <3>1. i \in 1..Len(r)
      BY <1>1
    <3>2. f[i] = Apply(f[i - 1], r[i]) /\ g[i] = Apply(g[i - 1], q[i])
      BY <1>2, <1>3, <3>1 DEF IsRun
    <3> QED
      BY <1>1, <2>2, <3>2
  <2> QED
    BY <1>1, <2>1, <2>2, RunUnique
<1>5. Len(r) \in 1..Len(r) /\ Len(r) - 1 = Len(q)
  BY <1>1
<1>6. f[Len(r)] = Apply(f[Len(q)], c)
  BY <1>1, <1>2, <1>5 DEF IsRun
<1> QED
  BY <1>2, <1>3, <1>4, <1>6 DEF r

\* The first command is applied first.
LEMMA ReplayCons ==
  ASSUME NEW m, NEW q \in Seq(Command), q # <<>>
  PROVE  Replay(m, q) = Replay(Apply(m, Head(q)), Tail(q))
<1> DEFINE t == Tail(q)
<1>1. /\ Len(q) \in Nat /\ Len(t) \in Nat /\ Len(q) = Len(t) + 1
      /\ q[1] = Head(q)
      /\ \A i \in 1..Len(t) : t[i] = q[i + 1]
  OBVIOUS
<1> HIDE DEF t
<1>2. PICK f : IsRun(f, m, q) /\ Replay(m, q) = f[Len(q)]
  BY <1>1, ReplayRuns
<1>3. PICK g : /\ IsRun(g, Apply(m, Head(q)), t)
               /\ Replay(Apply(m, Head(q)), t) = g[Len(t)]
  BY <1>1, ReplayRuns
<1> DEFINE h == [i \in 0..Len(t) |-> f[i + 1]]
<1>4. h[0] = g[0]
  <2>1. 1 \in 1..Len(q) /\ 1 - 1 = 0
    BY <1>1
  <2>2. f[1] = Apply(f[0], Head(q))
    BY <1>1, <1>2, <2>1 DEF IsRun
  <2>3. h[0] = f[1]
    BY <1>1
  <2> QED
    BY <1>2, <1>3, <2>2, <2>3 DEF IsRun
<1>5. ASSUME NEW i \in 1..Len(t), h[i - 1] = g[i - 1] PROVE h[i] = g[i]
  <2>1. /\ i + 1 \in 1..Len(q) /\ (i + 1) - 1 = i /\ i \in 0..Len(t)
        /\ i - 1 \in 0..Len(t) /\ (i - 1) + 1 = i
    BY <1>1
  <2>2. f[i + 1] = Apply(f[i], q[i + 1])
    BY <1>2, <2>1 DEF IsRun
  <2>3. g[i] = Apply(g[i - 1], t[i])
    BY <1>3 DEF IsRun
  <2>4. h[i] = f[i + 1] /\ h[i - 1] = f[i]
    BY <2>1
  <2> HIDE DEF h
  <2> QED
    BY <1>1, <1>5, <2>2, <2>3, <2>4
<1>6. h[Len(t)] = g[Len(t)]
  <2> HIDE DEF h
  <2> QED
    BY <1>1, <1>4, <1>5, RunUnique
<1>7. h[Len(t)] = f[Len(q)]
  BY <1>1
<1> QED
  BY <1>2, <1>3, <1>6, <1>7 DEF t

----------------------------------------------------------------------------
(* The commands.                                                            *)

\* Without drops one element, which the list has once, and keeps the order.
LEMMA WithoutFacts ==
  ASSUME NEW q \in Seq(Node), NEW n \in {q[i] : i \in 1..Len(q)},
         \A i, j \in 1..Len(q) : q[i] = q[j] => i = j
  PROVE  /\ Without(q, n) \in Seq(Node)
         /\ LET w == Without(q, n) IN
              /\ \A i, j \in 1..Len(w) : w[i] = w[j] => i = j
              /\ {w[i] : i \in 1..Len(w)} = {q[i] : i \in 1..Len(q)} \ {n}
<1> DEFINE P(k) == k \in DOMAIN q /\ q[k] = n /\ \A j \in 1..(k - 1) : q[j] # n
           d == CHOOSE k \in DOMAIN q : q[k] = n /\ \A j \in 1..(k - 1) : q[j] # n
           w == Without(q, n)
<1>1. DOMAIN q = 1..Len(q) /\ Len(q) \in Nat
  OBVIOUS
<1>2. PICK k \in 1..Len(q) : q[k] = n
  OBVIOUS
<1>3. \A j \in 1..(k - 1) : q[j] # n
  BY <1>1, <1>2
<1>4. d \in 1..Len(q) /\ q[d] = n
  BY <1>1, <1>2, <1>3
<1>5. w = [j \in 1..(Len(q) - 1) |-> IF j < d THEN q[j] ELSE q[j + 1]]
  BY DEF Without
<1> HIDE DEF d, w
<1>6. Len(q) - 1 \in Nat
  BY <1>1, <1>4
<1>7. w \in [1..(Len(q) - 1) -> Node]
  BY <1>1, <1>4, <1>5, <1>6
<1>8. w \in Seq(Node) /\ Len(w) = Len(q) - 1
  BY <1>6, <1>7
<1>9. ASSUME NEW i \in 1..Len(w), NEW j \in 1..Len(w), w[i] = w[j] PROVE i = j
  <2> DEFINE a == IF i < d THEN i ELSE i + 1
             b == IF j < d THEN j ELSE j + 1
  <2>1. a \in 1..Len(q) /\ b \in 1..Len(q)
    BY <1>1, <1>4, <1>8
  <2>2. w[i] = q[a] /\ w[j] = q[b]
    BY <1>5, <1>8
  <2>3. a = b
    BY <1>9, <2>1, <2>2
  <2> QED
    BY <1>4, <2>3
<1>10. ASSUME NEW i \in 1..Len(w) PROVE w[i] \in {q[x] : x \in 1..Len(q)} \ {n}
  <2> DEFINE a == IF i < d THEN i ELSE i + 1
  <2>1. a \in 1..Len(q) /\ a # d
    BY <1>1, <1>4, <1>8
  <2>2. w[i] = q[a]
    BY <1>5, <1>8
  <2> HIDE DEF a
  <2> QED
    BY <1>4, <2>1, <2>2
<1>11. ASSUME NEW i \in 1..Len(q), q[i] # n PROVE q[i] \in {w[x] : x \in 1..Len(w)}
  <2> DEFINE a == IF i < d THEN i ELSE i - 1
  <2>1. i # d
    BY <1>4, <1>11
  <2>2. a \in 1..Len(w) /\ a = (IF a < d THEN i ELSE i - 1)
    BY <1>1, <1>4, <1>8, <2>1
  <2>3. w[a] = q[i]
    BY <1>1, <1>4, <1>5, <1>8, <2>1
  <2> QED
    BY <2>2, <2>3
<1>12. {w[i] : i \in 1..Len(w)} = {q[i] : i \in 1..Len(q)} \ {n}
  <2>1. \A x \in {w[i] : i \in 1..Len(w)} : x \in {q[i] : i \in 1..Len(q)} \ {n}
    BY <1>10
  <2>2. \A x \in {q[i] : i \in 1..Len(q)} \ {n} : x \in {w[i] : i \in 1..Len(w)}
    BY <1>11
  <2> QED
    BY <2>1, <2>2
<1> QED
  BY <1>8, <1>9, <1>12 DEF w

\* A command keeps a state well-formed, whatever it finds.
LEMMA ApplySound ==
  ASSUME NEW m, Sound(m), NEW c \in Command
  PROVE  Sound(Apply(m, c))
<1> DEFINE n == c.node
           r == Apply(m, c)
<1>1. /\ m \in State /\ n \in Node /\ c.op \in {"heartbeat", "remove"}
      /\ m.nodes \in Seq(Node) /\ m.beat \in [Node -> Age \cup {Nil}]
      /\ Members(m) = {m.nodes[i] : i \in 1..Len(m.nodes)}
  BY DEF Sound, State, Command, Members
<1>2. 0 \in Age /\ 0 # Nil
  BY ClusterAssumption DEF Age
<1>3. CASE c.op = "heartbeat"
  <2>1. r = [m EXCEPT !.nodes = IF n \in Members(m) THEN @ ELSE Append(@, n),
                      !.beat[n] = 0]
    BY <1>3 DEF Apply, applyHeartbeat
  <2>2. r.beat = [m.beat EXCEPT ![n] = 0]
    BY <1>1, <2>1 DEF State
  <2>3. r.nodes = IF n \in Members(m) THEN m.nodes ELSE Append(m.nodes, n)
    BY <1>1, <2>1 DEF State
  <2>4. r.nodes \in Seq(Node)
    BY <1>1, <2>3
  <2>5. r \in State
    <3>1. r.beat \in [Node -> Age \cup {Nil}]
      BY <1>1, <1>2, <2>2
    <3>2. r = [nodes |-> r.nodes, beat |-> r.beat]
      BY <1>1, <2>1 DEF State
    <3> HIDE DEF r
    <3> QED
      BY <2>4, <3>1, <3>2 DEF State
  <2> HIDE DEF r
  <2>6. Members(r) = Members(m) \cup {n}
    <3>1. CASE n \in Members(m)
      BY <2>3, <3>1 DEF Members
    <3>2. CASE n \notin Members(m)
      <4> DEFINE q == m.nodes
                 w == Append(q, n)
      <4>1. /\ DOMAIN w = 1..(Len(q) + 1) /\ Len(q) \in Nat
            /\ w[Len(q) + 1] = n /\ \A i \in 1..Len(q) : w[i] = q[i]
        BY <1>1
      <4>2. r.nodes = w
        BY <2>3, <3>2
      <4> HIDE DEF w
      <4>3. {w[i] : i \in DOMAIN w} = {q[i] : i \in 1..Len(q)} \cup {n}
        <5>1. ASSUME NEW i \in DOMAIN w PROVE w[i] \in {q[j] : j \in 1..Len(q)} \cup {n}
          <6>1. i \in 1..Len(q) \/ i = Len(q) + 1
            BY <4>1
          <6> QED
            BY <4>1, <6>1
        <5>2. ASSUME NEW i \in 1..Len(q) PROVE q[i] \in {w[j] : j \in DOMAIN w}
          <6>1. i \in DOMAIN w
            BY <4>1
          <6> QED
            BY <4>1, <6>1
        <5>3. n \in {w[j] : j \in DOMAIN w}
          <6>1. Len(q) + 1 \in DOMAIN w
            BY <4>1
          <6> QED
            BY <4>1, <6>1
        <5> QED
          BY <5>1, <5>2, <5>3
      <4> QED
        BY <1>1, <4>2, <4>3 DEF Members
    <3> QED
      BY <3>1, <3>2
  <2>7. \A i, j \in 1..Len(r.nodes) : r.nodes[i] = r.nodes[j] => i = j
    <3>1. CASE n \in Members(m)
      BY <2>3, <3>1 DEF Sound
    <3>2. CASE n \notin Members(m)
      BY <1>1, <2>3, <3>2 DEF Sound
    <3> QED
      BY <3>1, <3>2
  <2>8. {x \in Node : r.beat[x] # Nil} = {x \in Node : m.beat[x] # Nil} \cup {n}
    BY <1>1, <1>2, <2>2
  <2> QED
    BY <2>5, <2>6, <2>7, <2>8 DEF Sound, r
<1>4. CASE c.op = "remove"
  <2>1. r = [m EXCEPT !.nodes = IF n \in Members(m) THEN Without(@, n) ELSE @,
                      !.beat[n] = Nil]
    BY <1>4 DEF Apply, applyRemoveDataNode
  <2>2. r.beat = [m.beat EXCEPT ![n] = Nil]
    BY <1>1, <2>1 DEF State
  <2>3. r.nodes = IF n \in Members(m) THEN Without(m.nodes, n) ELSE m.nodes
    BY <1>1, <2>1 DEF State
  <2>4. /\ r.nodes \in Seq(Node)
        /\ \A i, j \in 1..Len(r.nodes) : r.nodes[i] = r.nodes[j] => i = j
        /\ {r.nodes[i] : i \in 1..Len(r.nodes)} = Members(m) \ {n}
    <3> HIDE DEF r, n
    <3>1. CASE n \in Members(m)
      <4>1. n \in {m.nodes[i] : i \in 1..Len(m.nodes)}
        BY <1>1, <3>1
      <4>2. \A i, j \in 1..Len(m.nodes) : m.nodes[i] = m.nodes[j] => i = j
        BY DEF Sound
      <4>3. r.nodes = Without(m.nodes, n)
        BY <2>3, <3>1
      <4> DEFINE q == m.nodes
                 w == Without(q, n)
      <4>4. /\ w \in Seq(Node)
            /\ \A i, j \in 1..Len(w) : w[i] = w[j] => i = j
            /\ {w[i] : i \in 1..Len(w)} = {q[i] : i \in 1..Len(q)} \ {n}
        <5> HIDE DEF q
        <5>1. q \in Seq(Node)
          BY <1>1 DEF q
        <5> QED
          BY <4>1, <4>2, <5>1, WithoutFacts, Zenon DEF q
      <4> HIDE DEF w
      <4>5. r.nodes = w
        BY <4>3 DEF w
      <4>6. {w[i] : i \in 1..Len(w)} = Members(m) \ {n}
        BY <1>1, <4>4
      <4> QED
        BY <4>4, <4>5, <4>6
    <3>2. CASE n \notin Members(m)
      <4>1. r.nodes = m.nodes
        BY <2>3, <3>2
      <4> QED
        BY <1>1, <3>2, <4>1 DEF Sound
    <3> QED
      BY <3>1, <3>2
  <2>5. r \in State
    BY <1>1, <2>1, <2>2, <2>4, ZenonT(60) DEF State
  <2> HIDE DEF r
  <2>6. Members(r) = Members(m) \ {n}
    <3>1. DOMAIN r.nodes = 1..Len(r.nodes)
      BY <2>4
    <3> QED
      BY <2>4, <3>1 DEF Members
  <2>7. {x \in Node : r.beat[x] # Nil} = {x \in Node : m.beat[x] # Nil} \ {n}
    BY <1>1, <2>2
  <2> QED
    BY <2>4, <2>5, <2>6, <2>7 DEF Sound, r
<1> QED
  BY <1>1, <1>3, <1>4

\* The list of nodes depends on the lists and the commands, not on times.
LEMMA ApplyNodes ==
  ASSUME NEW m1 \in State, NEW m2 \in State, m1.nodes = m2.nodes, NEW c \in Command
  PROVE  Apply(m1, c).nodes = Apply(m2, c).nodes
BY DEF Apply, applyHeartbeat, applyRemoveDataNode, Members, State, Command

\* A command sets the time of its own node only.
LEMMA ApplyBeat ==
  ASSUME NEW m \in State, NEW c \in Command
  PROVE  Apply(m, c).beat = [m.beat EXCEPT ![c.node] =
                               IF c.op = "heartbeat" THEN 0 ELSE Nil]
BY DEF Apply, applyHeartbeat, applyRemoveDataNode, State, Command

\* Replaying commands keeps a state well-formed.
LEMMA ReplaySound ==
  ASSUME NEW m, Sound(m), NEW q \in Seq(Command)
  PROVE  Sound(Replay(m, q))
<1>1. Len(q) \in Nat /\ \A i \in 1..Len(q) : q[i] \in Command
  OBVIOUS
<1>2. PICK f : IsRun(f, m, q) /\ Replay(m, q) = f[Len(q)]
  BY <1>1, ReplayRuns
<1> DEFINE S == {i \in 0..Len(q) : Sound(f[i])}
<1>3. 0 \in S
  BY <1>1, <1>2 DEF IsRun
<1>4. ASSUME NEW i \in 1..Len(q), i - 1 \in S PROVE i \in S
  <2>1. f[i] = Apply(f[i - 1], q[i])
    BY <1>2 DEF IsRun
  <2>2. Sound(f[i])
    BY <1>1, <1>4, <2>1, ApplySound
  <2> QED
    BY <2>2
<1> HIDE DEF S
<1>5. Len(q) \in S
  BY <1>1, <1>3, <1>4, InductionUpTo
<1> QED
  BY <1>2, <1>5 DEF S

\* Time passes: times grow, the list stays.
LEMMA OlderSound ==
  ASSUME NEW m, Sound(m)
  PROVE  /\ Sound(OlderState(m))
         /\ OlderState(m).nodes = m.nodes
         /\ \A n \in Node : OlderState(m).beat[n] =
              IF m.beat[n] = Nil THEN Nil ELSE Older(m.beat[n])
<1> DEFINE r == OlderState(m)
<1>1. m \in State /\ Timeout \in Nat /\ Nil \notin Nat
  BY ClusterAssumption DEF Sound
<1>2. r = [nodes |-> m.nodes,
           beat |-> [n \in Node |-> IF m.beat[n] = Nil THEN Nil ELSE Older(m.beat[n])]]
  BY <1>1 DEF OlderState, State
<1>3. ASSUME NEW k \in Age PROVE Older(k) \in Age /\ Older(k) # Nil
  BY <1>1 DEF Older, Age
<1>4. /\ r.nodes = m.nodes
      /\ \A n \in Node : r.beat[n] =
           IF m.beat[n] = Nil THEN Nil ELSE Older(m.beat[n])
  BY <1>2
<1>5. r \in State
  BY <1>1, <1>2, <1>3 DEF State
<1> HIDE DEF r
<1>6. Members(r) = Members(m)
  BY <1>4 DEF Members
<1>7. {n \in Node : r.beat[n] # Nil} = {n \in Node : m.beat[n] # Nil}
  BY <1>1, <1>3, <1>4 DEF State
<1>8. Sound(r)
  BY <1>4, <1>5, <1>6, <1>7 DEF Sound
<1> QED
  BY <1>4, <1>8 DEF r

\* State a is what b is after an interval, or knows of later heartbeats.
IsOlder(a, b) ==
  /\ a.nodes = b.nodes
  /\ \A n \in Node :
       a.beat[n] # Nil => b.beat[n] # Nil /\ a.beat[n] <= Older(b.beat[n])

\* A log replayed from a state an interval later leads to the same list, and
\* to times that are at most an interval older.
LEMMA ReplayOlder ==
  ASSUME NEW m, Sound(m), NEW q \in Seq(Command)
  PROVE  IsOlder(Replay(OlderState(m), q), Replay(m, q))
<1>1. Len(q) \in Nat /\ \A i \in 1..Len(q) : q[i] \in Command
  OBVIOUS
<1>2. PICK f : IsRun(f, OlderState(m), q) /\ Replay(OlderState(m), q) = f[Len(q)]
  BY <1>1, ReplayRuns
<1>3. PICK g : IsRun(g, m, q) /\ Replay(m, q) = g[Len(q)]
  BY <1>1, ReplayRuns
<1>4. Timeout \in Nat /\ Nil \notin Nat
  BY ClusterAssumption
<1>5. ASSUME NEW k \in Age PROVE Older(k) \in Nat /\ Older(k) >= k
  BY <1>4 DEF Older, Age
<1> DEFINE S == {i \in 0..Len(q) : Sound(f[i]) /\ Sound(g[i]) /\ IsOlder(f[i], g[i])}
<1>6. 0 \in S
  <2>1. f[0] = OlderState(m) /\ g[0] = m
    BY <1>2, <1>3 DEF IsRun
  <2>2. \A n \in Node : m.beat[n] \in Age \cup {Nil}
    BY DEF Sound, State
  <2>3. IsOlder(OlderState(m), m)
    BY <1>4, <1>5, <2>2, OlderSound DEF IsOlder
  <2> QED
    BY <1>1, <2>1, <2>3, OlderSound
<1>7. ASSUME NEW i \in 1..Len(q), i - 1 \in S PROVE i \in S
  <2> DEFINE a == f[i - 1]
             b == g[i - 1]
             c == q[i]
  <2>1. f[i] = Apply(a, c) /\ g[i] = Apply(b, c)
    BY <1>2, <1>3 DEF IsRun
  <2>2. Sound(a) /\ Sound(b) /\ IsOlder(a, b) /\ c \in Command
    BY <1>1, <1>7
  <2> HIDE DEF a, b, c
  <2>3. Sound(f[i]) /\ Sound(g[i])
    BY <2>1, <2>2, ApplySound
  <2>4. a \in State /\ b \in State /\ c.node \in Node
    BY <2>2 DEF Sound, Command
  <2>5. f[i].nodes = g[i].nodes
    BY <2>1, <2>2, <2>4, ApplyNodes DEF IsOlder
  <2>6. ASSUME NEW n \in Node, f[i].beat[n] # Nil
        PROVE  g[i].beat[n] # Nil /\ f[i].beat[n] <= Older(g[i].beat[n])
    <3>1. /\ f[i].beat = [a.beat EXCEPT ![c.node] = IF c.op = "heartbeat" THEN 0 ELSE Nil]
          /\ g[i].beat = [b.beat EXCEPT ![c.node] = IF c.op = "heartbeat" THEN 0 ELSE Nil]
      BY <2>1, <2>2, <2>4, ApplyBeat
    <3>2. CASE n = c.node
      <4>1. f[i].beat[n] = 0 /\ g[i].beat[n] = 0
        BY <2>4, <2>6, <3>1, <3>2 DEF State
      <4>2. 0 \in Age
        BY <1>4 DEF Age
      <4> QED
        BY <1>4, <1>5, <4>1, <4>2
    <3>3. CASE n # c.node
      <4>1. f[i].beat[n] = a.beat[n] /\ g[i].beat[n] = b.beat[n]
        BY <2>4, <3>1, <3>3 DEF State
      <4> QED
        BY <2>2, <2>6, <4>1 DEF IsOlder
    <3> QED
      BY <3>2, <3>3
  <2>7. IsOlder(f[i], g[i])
    BY <2>5, <2>6 DEF IsOlder
  <2> QED
    BY <2>3, <2>7
<1> HIDE DEF S
<1>8. Len(q) \in S
  BY <1>1, <1>6, <1>7, InductionUpTo
<1> QED
  BY <1>2, <1>3, <1>8 DEF S

\* A command applied on both sides keeps the agreement.
LEMMA ApplyAgrees ==
  ASSUME NEW m, Sound(m), NEW t, Sound(t), NEW h \in [Node -> Age], Agrees(m, t, h),
         NEW c \in Command,
         NEW k, k = IF c.op = "heartbeat" THEN [h EXCEPT ![c.node] = 0] ELSE h
  PROVE  Agrees(Apply(m, c), Apply(t, c), k)
<1>1. m \in State /\ t \in State /\ c.node \in Node
  BY DEF Sound, Command
<1>2. Apply(m, c).nodes = Apply(t, c).nodes
  BY <1>1, ApplyNodes DEF Agrees
<1>3. ASSUME NEW n \in Node, Apply(m, c).beat[n] # Nil
      PROVE  Apply(m, c).beat[n] <= k[n]
  <2> DEFINE b == Apply(m, c).beat
  <2>1. b = [m.beat EXCEPT ![c.node] = IF c.op = "heartbeat" THEN 0 ELSE Nil]
    BY <1>1, ApplyBeat
  <2> HIDE DEF b
  <2>2. CASE n = c.node
    <3>1. c.op = "heartbeat" /\ b[n] = 0
      BY <1>1, <1>3, <2>1, <2>2 DEF State, b
    <3> QED
      BY <2>2, <3>1 DEF b
  <2>3. CASE n # c.node
    <3>1. b[n] = m.beat[n] /\ k[n] = h[n]
      BY <1>1, <2>1, <2>3 DEF State
    <3> QED
      BY <1>3, <3>1 DEF Agrees, b
  <2> QED
    BY <2>2, <2>3
<1> QED
  BY <1>2, <1>3 DEF Agrees

\* An interval that passes keeps the agreement.
LEMMA OlderAgrees ==
  ASSUME NEW m, Sound(m), NEW t, Sound(t), NEW q \in Seq(Command),
         NEW h \in [Node -> Age], Agrees(Replay(m, q), t, h)
  PROVE  Agrees(Replay(OlderState(m), q), OlderState(t), [n \in Node |-> Older(h[n])])
<1> DEFINE a == Replay(OlderState(m), q)
           b == Replay(m, q)
<1>1. IsOlder(a, b)
  BY ReplayOlder
<1>2. Sound(a) /\ Sound(b) /\ Sound(OlderState(m))
  BY OlderSound, ReplaySound
<1> HIDE DEF a, b
<1>3. a \in State /\ b \in State /\ Timeout \in Nat /\ Nil \notin Nat
  BY <1>2, ClusterAssumption DEF Sound
<1>4. a.nodes = OlderState(t).nodes
  BY <1>1, OlderSound DEF IsOlder, Agrees, b
<1>5. ASSUME NEW n \in Node, a.beat[n] # Nil PROVE a.beat[n] <= Older(h[n])
  <2>1. b.beat[n] # Nil /\ a.beat[n] <= Older(b.beat[n]) /\ b.beat[n] <= h[n]
    BY <1>1, <1>5 DEF IsOlder, Agrees, b
  <2>2. a.beat[n] \in Age /\ b.beat[n] \in Age /\ h[n] \in Age
    BY <1>3, <1>5, <2>1 DEF State
  <2> QED
    BY <1>3, <2>1, <2>2 DEF Older, Age
<1> QED
  BY <1>4, <1>5 DEF Agrees, a

----------------------------------------------------------------------------
(* The invariant.                                                           *)

\* Concatenations as they occur in the logs: a command comes in at the end,
\* or goes from the commands to apply to those applied.
LEMMA LogAppend ==
  ASSUME NEW w \in Seq(Command), NEW p \in Seq(Command), NEW c \in Command
  PROVE  w \o p \in Seq(Command) /\ w \o Append(p, c) = Append(w \o p, c)
<1>1. w \o p \in Seq(Command)
  BY ConcatProperties
<1>2. Append(p, c) = p \o <<c>> /\ Append(w \o p, c) = (w \o p) \o <<c>>
  BY <1>1, AppendIsConcat
<1>3. <<c>> \in Seq(Command)
  OBVIOUS
<1> QED
  BY <1>1, <1>2, <1>3, ConcatAssociative

LEMMA LogHead ==
  ASSUME NEW w \in Seq(Command), NEW p \in Seq(Command), p # <<>>
  PROVE  Append(w, Head(p)) \o Tail(p) = w \o p
<1>1. Head(p) \in Command /\ Tail(p) \in Seq(Command)
  BY HeadTailProperties
<1>2. p = <<Head(p)>> \o Tail(p)
  OBVIOUS
<1>3. Append(w, Head(p)) = w \o <<Head(p)>> /\ <<Head(p)>> \in Seq(Command)
  BY <1>1, AppendIsConcat
<1>4. (w \o <<Head(p)>>) \o Tail(p) = w \o (<<Head(p)>> \o Tail(p))
  BY <1>1, <1>3, ConcatAssociative
<1> QED
  BY <1>2, <1>3, <1>4

\* The server that applies a command, and the others.
LEMMA AppliesFacts ==
  ASSUME Queues, States, NEW s \in Server, NEW c \in Command, Applies(s, c)
  PROVE  /\ mem' \in [Server -> State] /\ snap' \in [Server -> State]
         /\ wal' \in [Server -> Seq(Command)]
         /\ \A t \in Server : Sound(mem'[t]) /\ Sound(snap'[t])
         /\ mem'[s] = Apply(mem[s], c)
         /\ \A t \in Server \ {s} :
              mem'[t] = mem[t] /\ snap'[t] = snap[t] /\ wal'[t] = wal[t]
         /\ \/ /\ Len(wal[s]) + 1 < Span
               /\ snap'[s] = snap[s] /\ wal'[s] = Append(wal[s], c)
            \/ snap'[s] = mem'[s] /\ wal'[s] = <<>>
<1>1. /\ mem' = [mem EXCEPT ![s] = Apply(@, c)]
      /\ LET q == Append(wal[s], c) IN
           /\ snap' = IF Len(q) < Span THEN snap ELSE [snap EXCEPT ![s] = mem'[s]]
           /\ wal' = [wal EXCEPT ![s] = IF Len(q) < Span THEN q ELSE <<>>]
  BY DEF Applies
<1>2. /\ wal \in [Server -> Seq(Command)] /\ mem \in [Server -> State]
      /\ snap \in [Server -> State]
      /\ \A t \in Server : Sound(mem[t]) /\ Sound(snap[t])
  BY DEF Queues, States
<1>3. mem'[s] = Apply(mem[s], c) /\ \A t \in Server \ {s} : mem'[t] = mem[t]
  BY <1>1, <1>2
<1>4. \A t \in Server : Sound(mem'[t])
  BY <1>2, <1>3, ApplySound
<1>5. mem' \in [Server -> State]
  <2>1. \A t \in Server : mem'[t] \in State
    BY <1>4 DEF Sound
  <2> QED
    BY <1>1, <1>2, <2>1
<1>6. Len(Append(wal[s], c)) = Len(wal[s]) + 1 /\ Append(wal[s], c) \in Seq(Command)
  BY <1>2
<1>7. CASE Len(wal[s]) + 1 < Span
  <2>1. snap' = snap /\ wal' = [wal EXCEPT ![s] = Append(wal[s], c)]
    BY <1>1, <1>6, <1>7
  <2> QED
    BY <1>2, <1>3, <1>4, <1>5, <1>6, <1>7, <2>1
<1>8. CASE ~(Len(wal[s]) + 1 < Span)
  <2>1. snap' = [snap EXCEPT ![s] = mem'[s]] /\ wal' = [wal EXCEPT ![s] = <<>>]
    BY <1>1, <1>6, <1>8
  <2>2. <<>> \in Seq(Command) /\ mem'[s] \in State
    BY <1>5
  <2>3. /\ snap'[s] = mem'[s] /\ wal'[s] = <<>>
        /\ \A t \in Server \ {s} : snap'[t] = snap[t] /\ wal'[t] = wal[t]
        /\ snap' \in [Server -> State] /\ wal' \in [Server -> Seq(Command)]
    BY <1>2, <2>1, <2>2
  <2>4. \A t \in Server : Sound(snap'[t])
    BY <1>2, <1>4, <2>3
  <2> QED
    BY <1>3, <1>4, <1>5, <2>3, <2>4
<1> QED
  BY <1>7, <1>8

\* Committing a command.
LEMMA DoStep ==
  ASSUME CInv, NEW c \in Command, Do(c),
         heard' = IF c.op = "heartbeat" THEN [heard EXCEPT ![c.node] = 0] ELSE heard
  PROVE  Queues' /\ States' /\ Agreement'
<1> DEFINE l == leader
<1>1. /\ l # Nil /\ l \in Server /\ l \in up /\ pend[l] = <<>>
      /\ up' = up /\ leader' = leader
      /\ Applies(l, c)
      /\ pend' = [s \in Server |-> IF s = l THEN pend[s] ELSE Append(pend[s], c)]
      /\ \A s \in Server \ {l} : Len(pend[s]) < MaxLag
      /\ table' = Apply(table, c)
  BY DEF Do, CInv, Control, Queues
<1>2. /\ wal \in [Server -> Seq(Command)] /\ pend \in [Server -> Seq(Command)]
      /\ \A s \in Server : /\ Len(wal[s]) \in Nat /\ Len(pend[s]) \in Nat
                           /\ Len(wal[s]) < Span
                           /\ Len(wal[s]) + Len(pend[s]) < Span + MaxLag
      /\ Span \in Nat \ {0} /\ MaxLag \in Nat
  BY ClusterAssumption DEF CInv, Queues
<1>3. /\ mem' \in [Server -> State] /\ snap' \in [Server -> State]
      /\ wal' \in [Server -> Seq(Command)]
      /\ \A t \in Server : Sound(mem'[t]) /\ Sound(snap'[t])
      /\ mem'[l] = Apply(mem[l], c)
      /\ \A t \in Server \ {l} :
           mem'[t] = mem[t] /\ snap'[t] = snap[t] /\ wal'[t] = wal[t]
      /\ \/ /\ Len(wal[l]) + 1 < Span
            /\ snap'[l] = snap[l] /\ wal'[l] = Append(wal[l], c)
         \/ snap'[l] = mem'[l] /\ wal'[l] = <<>>
  BY <1>1, AppliesFacts DEF CInv
<1>4. /\ Sound(table) /\ heard \in [Node -> Age]
      /\ \A s \in Server : Sound(mem[s]) /\ Sound(snap[s])
  BY DEF CInv, Control, States
<1>5. /\ pend'[l] = <<>> /\ \A t \in Server \ {l} : pend'[t] = Append(pend[t], c)
      /\ pend' \in [Server -> Seq(Command)]
  BY <1>1, <1>2
<1>6. Queues'
  <2>1. ASSUME NEW t \in Server
        PROVE  Len(wal'[t]) < Span /\ Len(wal'[t]) + Len(pend'[t]) < Span + MaxLag
    <3>1. CASE t = l
      <4>1. Len(wal'[l]) < Span /\ Len(wal'[l]) \in Nat
        BY <1>1, <1>2, <1>3
      <4>2. Len(pend'[l]) = 0
        BY <1>5
      <4> QED
        BY <1>2, <3>1, <4>1, <4>2
    <3>2. CASE t # l
      <4>1. /\ wal'[t] = wal[t] /\ Len(pend'[t]) = Len(pend[t]) + 1
            /\ Len(pend[t]) < MaxLag
        BY <1>1, <1>2, <1>3, <1>5, <3>2
      <4> QED
        BY <1>2, <4>1
    <3> QED
      BY <3>1, <3>2
  <2> QED
    BY <1>1, <1>3, <1>5, <2>1 DEF Queues
<1>7. States'
  <2>1. Sound(table')
    BY <1>1, <1>4, ApplySound
  <2> QED
    BY <1>3, <2>1 DEF States
<1>8. ASSUME NEW m, Sound(m), NEW q \in Seq(Command), Agrees(Replay(m, q), table, heard)
      PROVE  Agrees(Replay(m, Append(q, c)), table', heard')
  <2>1. Sound(Replay(m, q))
    BY <1>8, ReplaySound
  <2>2. Agrees(Apply(Replay(m, q), c), Apply(table, c), heard')
    BY <1>4, <1>8, <2>1, ApplyAgrees
  <2> QED
    BY <1>1, <1>8, <2>2, ReplayAppend
<1>9. Agrees(Replay(mem'[l], <<>>), table', heard')
  <2>1. Agrees(Replay(mem[l], <<>>), table, heard)
    BY <1>1 DEF CInv, Agreement
  <2>2. Agrees(mem[l], table, heard)
    BY <2>1, ReplayEmpty
  <2>3. Agrees(Apply(mem[l], c), Apply(table, c), heard')
    BY <1>1, <1>4, <2>2, ApplyAgrees
  <2> QED
    BY <1>1, <1>3, <2>3, ReplayEmpty
<1>10. Agreement'
  <2> SUFFICES ASSUME NEW t \in Server
               PROVE  /\ t \in up' => Agrees(Replay(mem'[t], pend'[t]), table', heard')
                      /\ Agrees(Replay(snap'[t], wal'[t] \o pend'[t]), table', heard')
    BY DEF Agreement
  <2>1. /\ t \in up => Agrees(Replay(mem[t], pend[t]), table, heard)
        /\ Agrees(Replay(snap[t], wal[t] \o pend[t]), table, heard)
        /\ wal[t] \in Seq(Command) /\ pend[t] \in Seq(Command)
    BY <1>2 DEF CInv, Agreement
  <2>2. CASE t = l
    <3>1. Agrees(Replay(mem'[t], pend'[t]), table', heard')
      BY <1>5, <1>9, <2>2
    <3>2. CASE snap'[l] = snap[l] /\ wal'[l] = Append(wal[l], c)
      <4>1. wal[t] \o pend[t] = wal[t] /\ wal'[t] \o pend'[t] = Append(wal[t], c)
        <5>1. pend[t] = <<>> /\ pend'[t] = <<>> /\ wal'[t] = Append(wal[t], c)
          BY <1>1, <1>5, <2>2, <3>2
        <5>2. Append(wal[t], c) \in Seq(Command)
          BY <2>1
        <5> QED
          BY <2>1, <5>1, <5>2, ConcatEmptySeq
      <4>2. Agrees(Replay(snap[t], Append(wal[t], c)), table', heard')
        BY <1>4, <1>8, <2>1, <4>1
      <4> QED
        BY <2>2, <3>1, <3>2, <4>1, <4>2
    <3>3. CASE snap'[l] = mem'[l] /\ wal'[l] = <<>>
      <4>1. wal'[t] \o pend'[t] = <<>>
        BY <1>5, <2>2, <3>3
      <4> QED
        BY <1>9, <2>2, <3>1, <3>3, <4>1
    <3> QED
      BY <1>3, <3>2, <3>3
  <2>3. CASE t # l
    <3>1. /\ mem'[t] = mem[t] /\ snap'[t] = snap[t] /\ wal'[t] = wal[t]
          /\ pend'[t] = Append(pend[t], c)
      BY <1>3, <1>5, <2>3
    <3>2. /\ wal[t] \o Append(pend[t], c) = Append(wal[t] \o pend[t], c)
          /\ wal[t] \o pend[t] \in Seq(Command)
      BY <2>1, LogAppend
    <3>3. t \in up => Agrees(Replay(mem[t], Append(pend[t], c)), table', heard')
      BY <1>4, <1>8, <2>1
    <3>4. Agrees(Replay(snap[t], Append(wal[t] \o pend[t], c)), table', heard')
      BY <1>4, <1>8, <2>1, <3>2
    <3> QED
      BY <1>1, <3>1, <3>2, <3>3, <3>4
  <2> QED
    BY <2>2, <2>3
<1> QED
  BY <1>6, <1>7, <1>10

\* A server that lags applies the next command.
LEMMA ApplyNextStep ==
  ASSUME CInv, NEW s \in Server, ApplyNext(s)
  PROVE  CInv'
<1> DEFINE c == Head(pend[s])
           p == Tail(pend[s])
<1>1. /\ s \in up /\ pend[s] # <<>> /\ Applies(s, c)
      /\ pend' = [pend EXCEPT ![s] = p]
      /\ UNCHANGED <<up, leader, known, table, nodes, checked, dead, faults>>
  BY DEF ApplyNext
<1>2. /\ wal \in [Server -> Seq(Command)] /\ pend \in [Server -> Seq(Command)]
      /\ \A t \in Server : /\ Len(wal[t]) \in Nat /\ Len(pend[t]) \in Nat
                           /\ Len(wal[t]) < Span
                           /\ Len(wal[t]) + Len(pend[t]) < Span + MaxLag
      /\ Span \in Nat \ {0} /\ MaxLag \in Nat
  BY ClusterAssumption DEF CInv, Queues
<1>3. c \in Command /\ p \in Seq(Command) /\ Len(p) = Len(pend[s]) - 1
  BY <1>1, <1>2, HeadTailProperties
<1> HIDE DEF c, p
<1>4. /\ mem' \in [Server -> State] /\ snap' \in [Server -> State]
      /\ wal' \in [Server -> Seq(Command)]
      /\ \A t \in Server : Sound(mem'[t]) /\ Sound(snap'[t])
      /\ mem'[s] = Apply(mem[s], c)
      /\ \A t \in Server \ {s} :
           mem'[t] = mem[t] /\ snap'[t] = snap[t] /\ wal'[t] = wal[t]
      /\ \/ /\ Len(wal[s]) + 1 < Span
            /\ snap'[s] = snap[s] /\ wal'[s] = Append(wal[s], c)
         \/ snap'[s] = mem'[s] /\ wal'[s] = <<>>
  BY <1>1, <1>3, AppliesFacts DEF CInv
<1>5. /\ pend'[s] = p /\ \A t \in Server \ {s} : pend'[t] = pend[t]
      /\ pend' \in [Server -> Seq(Command)]
  BY <1>1, <1>2, <1>3
<1>6. Control'
  BY <1>1 DEF CInv, Control, nodes
<1>7. Queues'
  <2>1. leader' # Nil => pend'[leader'] = <<>>
    BY <1>1, <1>5 DEF CInv, Control, Queues
  <2>2. ASSUME NEW t \in Server
        PROVE  Len(wal'[t]) < Span /\ Len(wal'[t]) + Len(pend'[t]) < Span + MaxLag
    <3>1. CASE t = s
      <4>1. CASE wal'[s] = Append(wal[s], c) /\ Len(wal[s]) + 1 < Span
        <5>1. Len(wal'[s]) = Len(wal[s]) + 1
          BY <1>2, <1>3, <4>1
        <5> QED
          BY <1>2, <1>3, <1>5, <3>1, <4>1, <5>1
      <4>2. CASE wal'[s] = <<>>
        BY <1>2, <1>3, <1>5, <3>1, <4>2
      <4> QED
        BY <1>4, <4>1, <4>2
    <3>2. CASE t # s
      BY <1>2, <1>4, <1>5, <3>2
    <3> QED
      BY <3>1, <3>2
  <2> QED
    BY <1>4, <1>5, <2>1, <2>2 DEF Queues
<1>8. States'
  BY <1>1, <1>4 DEF CInv, States
<1>9. Agreement'
  <2>1. table' = table /\ heard' = heard /\ up' = up
    BY <1>1 DEF nodes
  <2>2. Replay(mem'[s], p) = Replay(mem[s], pend[s])
    BY <1>1, <1>2, <1>4, ReplayCons DEF c, p
  <2>3. ASSUME NEW t \in Server
        PROVE  /\ t \in up => Agrees(Replay(mem'[t], pend'[t]), table, heard)
               /\ Agrees(Replay(snap'[t], wal'[t] \o pend'[t]), table, heard)
    <3>1. /\ t \in up => Agrees(Replay(mem[t], pend[t]), table, heard)
          /\ Agrees(Replay(snap[t], wal[t] \o pend[t]), table, heard)
      BY DEF CInv, Agreement
    <3>2. CASE t = s
      <4>1. Agrees(Replay(mem'[s], p), table, heard)
        BY <1>1, <2>2, <3>1, <3>2
      <4>2. CASE snap'[s] = snap[s] /\ wal'[s] = Append(wal[s], c)
        <5>1. Append(wal[s], c) \o p = wal[s] \o pend[s]
          BY <1>1, <1>2, LogHead DEF c, p
        <5> QED
          BY <1>5, <3>1, <3>2, <4>1, <4>2, <5>1
      <4>3. CASE snap'[s] = mem'[s] /\ wal'[s] = <<>>
        <5>1. <<>> \o p = p
          BY <1>3, ConcatEmptySeq
        <5> QED
          BY <1>5, <3>2, <4>1, <4>3, <5>1
      <4> QED
        BY <1>4, <4>2, <4>3
    <3>3. CASE t # s
      BY <1>4, <1>5, <3>1, <3>3
    <3> QED
      BY <3>2, <3>3
  <2> QED
    BY <2>1, <2>3 DEF Agreement
<1> QED
  BY <1>6, <1>7, <1>8, <1>9 DEF CInv

\* A server stops, or comes back with its snapshot and its log.
LEMMA CrashStep ==
  ASSUME CInv, NEW s \in Server, Crash(s)
  PROVE  CInv'
<1>1. /\ up' = up \ {s} /\ mem' = [mem EXCEPT ![s] = Empty]
      /\ faults < MaxFaults /\ faults' = faults + 1
      /\ \/ leader' = Nil /\ checked' = FALSE /\ dead' = {}
         \/ s # leader /\ UNCHANGED <<leader, checked, dead>>
      /\ UNCHANGED <<known, snap, wal, pend, table, nodes>>
  BY DEF Crash, Fault, NoLeader
<1>2. Sound(Empty)
  BY DEF Empty, Sound, State, Members
<1>3. Control'
  <2>1. leader' \in up' \cup {Nil} /\ up' \subseteq Server
    BY <1>1 DEF CInv, Control
  <2>2. faults' \in 0..MaxFaults
    BY <1>1, ClusterAssumption DEF CInv, Control
  <2>3. checked' \in BOOLEAN /\ dead' \subseteq Node
    BY <1>1 DEF CInv, Control
  <2> QED
    BY <1>1, <2>1, <2>2, <2>3 DEF CInv, Control, nodes
<1>4. Queues'
  BY <1>1 DEF CInv, Queues
<1>5. States'
  BY <1>1, <1>2 DEF CInv, States, Sound
<1>6. Agreement'
  BY <1>1 DEF CInv, Agreement, nodes, States
<1> QED
  BY <1>3, <1>4, <1>5, <1>6 DEF CInv

LEMMA RestartStep ==
  ASSUME CInv, NEW s \in Server, Restart(s)
  PROVE  CInv'
<1>1. /\ s \notin up /\ up' = up \cup {s}
      /\ mem' = [mem EXCEPT ![s] = snap[s]]
      /\ pend' = [pend EXCEPT ![s] = wal[s] \o @]
      /\ wal' = [wal EXCEPT ![s] = <<>>]
      /\ known' = [known EXCEPT ![s] = Nil]
      /\ UNCHANGED <<leader, snap, table, nodes, checked, dead, faults>>
  BY DEF Restart, Restore
<1>2. /\ wal \in [Server -> Seq(Command)] /\ pend \in [Server -> Seq(Command)]
      /\ \A t \in Server : /\ Len(wal[t]) \in Nat /\ Len(pend[t]) \in Nat
                           /\ Len(wal[t]) < Span
                           /\ Len(wal[t]) + Len(pend[t]) < Span + MaxLag
      /\ Span \in Nat \ {0} /\ MaxLag \in Nat
  BY ClusterAssumption DEF CInv, Queues
<1>3. /\ wal[s] \o pend[s] \in Seq(Command)
      /\ Len(wal[s] \o pend[s]) = Len(wal[s]) + Len(pend[s])
      /\ <<>> \o (wal[s] \o pend[s]) = wal[s] \o pend[s]
  BY <1>2, ConcatProperties, ConcatEmptySeq
<1>4. /\ pend'[s] = wal[s] \o pend[s] /\ wal'[s] = <<>> /\ mem'[s] = snap[s]
      /\ \A t \in Server \ {s} :
           pend'[t] = pend[t] /\ wal'[t] = wal[t] /\ mem'[t] = mem[t]
      /\ pend' \in [Server -> Seq(Command)] /\ wal' \in [Server -> Seq(Command)]
  BY <1>1, <1>2, <1>3 DEF CInv, States
<1>5. Control'
  BY <1>1 DEF CInv, Control, nodes
<1>6. Queues'
  <2>1. leader' # Nil => pend'[leader'] = <<>>
    BY <1>1, <1>4 DEF CInv, Control, Queues
  <2>2. ASSUME NEW t \in Server
        PROVE  Len(wal'[t]) < Span /\ Len(wal'[t]) + Len(pend'[t]) < Span + MaxLag
    <3>1. CASE t = s
      <4>1. Len(wal'[s]) = 0 /\ Len(pend'[s]) = Len(wal[s]) + Len(pend[s])
        BY <1>3, <1>4
      <4> QED
        BY <1>2, <3>1, <4>1
    <3>2. CASE t # s
      BY <1>2, <1>4, <3>2
    <3> QED
      BY <3>1, <3>2
  <2> QED
    BY <1>4, <2>1, <2>2 DEF Queues
<1>7. States'
  BY <1>1 DEF CInv, States
<1>8. Agreement'
  <2>1. ASSUME NEW t \in Server
        PROVE  /\ t \in up' => Agrees(Replay(mem'[t], pend'[t]), table, heard)
               /\ Agrees(Replay(snap'[t], wal'[t] \o pend'[t]), table, heard)
    <3>1. /\ t \in up => Agrees(Replay(mem[t], pend[t]), table, heard)
          /\ Agrees(Replay(snap[t], wal[t] \o pend[t]), table, heard)
      BY DEF CInv, Agreement
    <3>2. CASE t = s
      BY <1>1, <1>3, <1>4, <3>1, <3>2
    <3>3. CASE t # s
      BY <1>1, <1>4, <3>1, <3>3
    <3> QED
      BY <3>2, <3>3
  <2> QED
    BY <1>1, <2>1 DEF Agreement, nodes
<1> QED
  BY <1>5, <1>6, <1>7, <1>8 DEF CInv

\* An interval ends.
LEMMA TickStep ==
  ASSUME CInv, Tick
  PROVE  CInv'
<1>1. /\ mem' = [s \in Server |-> OlderState(mem[s])]
      /\ snap' = [s \in Server |-> OlderState(snap[s])]
      /\ table' = OlderState(table)
      /\ heard' = [n \in Node |-> Older(heard[n])]
      /\ sent' = {} /\ checked' = FALSE
      /\ UNCHANGED <<up, leader, known, wal, pend, alive, dead, faults>>
  BY DEF Tick
<1>2. /\ wal \in [Server -> Seq(Command)] /\ pend \in [Server -> Seq(Command)]
      /\ heard \in [Node -> Age] /\ Sound(table)
      /\ \A s \in Server : Sound(mem[s]) /\ Sound(snap[s])
  BY DEF CInv, Control, Queues, States
<1>3. heard' \in [Node -> Age]
  <2>1. \A k \in Age : Older(k) \in Age
    BY ClusterAssumption DEF Older, Age
  <2> QED
    BY <1>1, <1>2, <2>1
<1>4. Control'
  BY <1>1, <1>3 DEF CInv, Control
<1>5. Queues'
  BY <1>1 DEF CInv, Queues
<1>6. States'
  <2>1. \A s \in Server : Sound(mem'[s]) /\ Sound(snap'[s])
    BY <1>1, <1>2, OlderSound
  <2>2. Sound(table')
    BY <1>1, <1>2, OlderSound
  <2>3. \A s \in Server : mem'[s] \in State /\ snap'[s] \in State
    BY <2>1 DEF Sound
  <2> QED
    BY <1>1, <2>1, <2>2, <2>3 DEF States
<1>7. Agreement'
  <2>1. ASSUME NEW s \in Server
        PROVE  /\ s \in up' => Agrees(Replay(mem'[s], pend'[s]), table', heard')
               /\ Agrees(Replay(snap'[s], wal'[s] \o pend'[s]), table', heard')
    <3>1. /\ s \in up => Agrees(Replay(mem[s], pend[s]), table, heard)
          /\ Agrees(Replay(snap[s], wal[s] \o pend[s]), table, heard)
      BY DEF CInv, Agreement
    <3>2. wal[s] \o pend[s] \in Seq(Command)
      BY <1>2, ConcatProperties
    <3>3. s \in up => Agrees(Replay(OlderState(mem[s]), pend[s]), table', heard')
      BY <1>1, <1>2, <3>1, OlderAgrees
    <3>4. Agrees(Replay(OlderState(snap[s]), wal[s] \o pend[s]), table', heard')
      BY <1>1, <1>2, <3>1, <3>2, OlderAgrees
    <3> QED
      BY <1>1, <3>3, <3>4
  <2> QED
    BY <2>1 DEF Agreement
<1> QED
  BY <1>4, <1>5, <1>6, <1>7 DEF CInv

\* The invariant is inductive.
LEMMA InitCInv == CInit => CInv
<1> SUFFICES ASSUME CInit PROVE CInv
  OBVIOUS
<1>1. /\ up = Server /\ leader = Nil /\ known = [s \in Server |-> Nil]
      /\ mem = [s \in Server |-> Empty] /\ snap = mem
      /\ wal = [s \in Server |-> <<>>] /\ pend = wal
      /\ table = Empty /\ alive = Node /\ sent = {}
      /\ heard = [n \in Node |-> Timeout + 1]
      /\ checked = FALSE /\ dead = {} /\ faults = 0
  BY DEF CInit
<1>2. Sound(Empty) /\ Empty \in State
  BY DEF Empty, Sound, State, Members
<1>3. Span \in Nat \ {0} /\ Timeout \in Nat /\ MaxLag \in Nat /\ MaxFaults \in Nat
  BY ClusterAssumption
<1>4. Control
  <2>1. Timeout + 1 \in Age
    BY <1>3 DEF Age
  <2>2. heard \in [Node -> Age] /\ known \in [Server -> Server \cup {Nil}]
    BY <1>1, <2>1
  <2>3. faults \in 0..MaxFaults
    BY <1>1, <1>3
  <2> QED
    BY <1>1, <2>2, <2>3 DEF Control
<1>5. Queues
  <2>1. <<>> \in Seq(Command) /\ Len(<<>>) = 0
    OBVIOUS
  <2> QED
    BY <1>1, <1>3, <2>1 DEF Queues
<1>6. States
  BY <1>1, <1>2 DEF States
<1>7. Agreement
  <2>1. Replay(Empty, <<>>) = Empty
    BY ReplayEmpty
  <2>2. <<>> \o <<>> = <<>>
    OBVIOUS
  <2>3. Agrees(Empty, table, heard)
    BY <1>1 DEF Agrees, Empty
  <2> QED
    BY <1>1, <2>1, <2>2, <2>3 DEF Agreement
<1> QED
  BY <1>4, <1>5, <1>6, <1>7 DEF CInv

\* A step that leaves servers and heartbeats alone.
LEMMA IdleStep ==
  ASSUME CInv, UNCHANGED <<up, mem, snap, wal, pend, table, heard>>,
         Control', leader' # Nil => pend[leader'] = <<>>
  PROVE  CInv'
BY DEF CInv, Queues, States, Agreement

LEMMA NextCInv == CInv /\ [CNext]_cvars => CInv'
<1> SUFFICES ASSUME CInv, [CNext]_cvars PROVE CInv'
  OBVIOUS
<1>1. Control /\ (leader # Nil => pend[leader] = <<>>) /\ MaxFaults \in Nat
  BY ClusterAssumption DEF CInv, Queues
<1>2. ASSUME NEW s \in Server, ApplyNext(s) PROVE CInv'
  BY <1>2, ApplyNextStep
<1>3. ASSUME NEW s \in Server, Crash(s) PROVE CInv'
  BY <1>3, CrashStep
<1>4. ASSUME NEW s \in Server, Restart(s) PROVE CInv'
  BY <1>4, RestartStep
<1>5. ASSUME NEW s \in Server, Elect(s) PROVE CInv'
  <2>1. Control'
    BY <1>1, <1>5 DEF Elect, Control, nodes
  <2> QED
    BY <1>5, <2>1, IdleStep DEF Elect, nodes
<1>6. ASSUME NEW s \in Server, Learn(s) PROVE CInv'
  <2>1. Control'
    BY <1>1, <1>6 DEF Learn, Control, nodes
  <2> QED
    BY <1>1, <1>6, <2>1, IdleStep DEF Learn, nodes
<1>7. ASSUME NEW n \in Node, sendHeartbeat(n) PROVE CInv'
  <2> DEFINE c == [op |-> "heartbeat", node |-> n]
  <2>1. c \in Command /\ c.op = "heartbeat" /\ c.node = n
    BY DEF Command
  <2>2. CASE Do(c) /\ heard' = [heard EXCEPT ![n] = 0]
    <3>1. Queues' /\ States' /\ Agreement'
      <4>1. heard' = IF c.op = "heartbeat" THEN [heard EXCEPT ![c.node] = 0] ELSE heard
        BY <2>1, <2>2
      <4> HIDE DEF c
      <4> QED
        BY <2>1, <2>2, <4>1, DoStep
    <3>2. 0 \in Age
      BY ClusterAssumption DEF Age
    <3>3. /\ UNCHANGED <<up, leader, known, alive, checked, dead, faults>>
          /\ sent' = sent \cup {n}
      BY <1>7, <2>2 DEF sendHeartbeat, Do
    <3>4. Control'
      BY <1>1, <2>2, <3>2, <3>3 DEF Control
    <3> QED
      BY <3>1, <3>4 DEF CInv
  <2>3. CASE UNCHANGED <<servers, heard>>
    <3>1. Control'
      BY <1>1, <1>7, <2>3 DEF sendHeartbeat, Control, servers
    <3> QED
      BY <1>1, <2>3, <3>1, IdleStep DEF servers
  <2> QED
    BY <1>7, <2>2, <2>3 DEF sendHeartbeat
<1>8. ASSUME NEW n \in Node, LoseHeartbeat(n) PROVE CInv'
  <2>1. Control'
    BY <1>1, <1>8 DEF LoseHeartbeat, Fault, Control, servers
  <2> QED
    BY <1>1, <1>8, <2>1, IdleStep DEF LoseHeartbeat, servers
<1>9. ASSUME NEW n \in Node, StopNode(n) PROVE CInv'
  <2>1. Control'
    BY <1>1, <1>9 DEF StopNode, Fault, Control, servers
  <2> QED
    BY <1>1, <1>9, <2>1, IdleStep DEF StopNode, servers
<1>10. ASSUME NEW n \in Node, StartNode(n) PROVE CInv'
  <2>1. Control'
    BY <1>1, <1>10 DEF StartNode, Fault, Control, servers
  <2> QED
    BY <1>1, <1>10, <2>1, IdleStep DEF StartNode, servers
<1>11. ASSUME NEW n \in Node, RemoveDead(n) PROVE CInv'
  <2> DEFINE c == [op |-> "remove", node |-> n]
  <2>1. c \in Command /\ c.op = "remove"
    BY DEF Command
  <2>2. Do(c) /\ heard' = heard /\ dead' = dead \ {n}
    BY <1>11 DEF RemoveDead, nodes
  <2>3. Queues' /\ States' /\ Agreement'
    <3>1. heard' = IF c.op = "heartbeat" THEN [heard EXCEPT ![c.node] = 0] ELSE heard
      BY <2>1, <2>2
    <3> HIDE DEF c
    <3> QED
      BY <2>1, <2>2, <3>1, DoStep
  <2>4. Control'
    <3>1. /\ UNCHANGED <<up, leader, known, alive, sent, heard, checked, faults>>
          /\ dead' = dead \ {n}
      BY <1>11, <2>2 DEF RemoveDead, Do, nodes
    <3> QED
      BY <1>1, <3>1 DEF Control
  <2> QED
    BY <2>3, <2>4 DEF CInv
<1>12. CASE StepDown
  <2>1. Control'
    <3>1. /\ leader' = Nil /\ checked' = FALSE /\ dead' = {}
          /\ faults < MaxFaults /\ faults' = faults + 1
          /\ UNCHANGED <<up, known, alive, sent, heard>>
      BY <1>12 DEF StepDown, Fault, NoLeader, nodes
    <3>2. faults' \in 0..MaxFaults
      BY <1>1, <3>1 DEF Control
    <3> QED
      BY <1>1, <3>1, <3>2 DEF Control
  <2> QED
    BY <1>12, <2>1, IdleStep DEF StepDown, NoLeader, nodes
<1>13. CASE checkDataNodeHealth
  <2>1. Control'
    BY <1>1, <1>13 DEF checkDataNodeHealth, Overdue, Control, nodes, servers
  <2> QED
    BY <1>1, <1>13, <2>1, IdleStep DEF checkDataNodeHealth, nodes, servers
<1>14. CASE Tick
  BY <1>14, TickStep
<1>15. CASE UNCHANGED cvars
  <2>1. Control'
    BY <1>1, <1>15 DEF cvars, nodes, servers, Control
  <2> QED
    BY <1>1, <1>15, <2>1, IdleStep DEF cvars, nodes, servers
<1> QED
  BY <1>2, <1>3, <1>4, <1>5, <1>6, <1>7, <1>8, <1>9, <1>10, <1>11, <1>12, <1>13,
     <1>14, <1>15 DEF CNext, ServerStep, NodeStep

----------------------------------------------------------------------------
(* What follows from it.                                                    *)

\* A list without repetitions is no longer than there are nodes.
LEMMA ListFits ==
  ASSUME NEW m, Sound(m)
  PROVE  IsState(m)
<1>1. m.nodes \in Seq(Node) /\ m.beat \in [Node -> Age \cup {Nil}]
  BY DEF Sound, State
<1> DEFINE q == m.nodes
<1>2. Len(q) \in Nat /\ q \in [1..Len(q) -> Node]
  BY <1>1
<1>3. q \in Injection(1..Len(q), Node)
  BY <1>2 DEF Sound, Injection, IsInjective
<1>4. Cardinality(1..Len(q)) = Len(q)
  BY <1>2, FS_Interval
<1>5. Cardinality(1..Len(q)) <= Cardinality(Node)
  BY <1>3, FS_Injection, ClusterAssumption
<1> QED
  BY <1>1, <1>4, <1>5 DEF IsState

\* Raft's log, the snapshots, the health check and the data nodes keep their
\* types; a list of data nodes never outgrows the data nodes there are, and a
\* restart never replays more than Span + MaxLag commands.
THEOREM ClusterTypeCorrect == CSpec => []CTypeOK
<1>1. CInv => CTypeOK
  <2> SUFFICES ASSUME CInv PROVE CTypeOK
    OBVIOUS
  <2>1. Control /\ IsState(table)
    BY ListFits DEF CInv, States
  <2>2. ASSUME NEW s \in Server
        PROVE  /\ IsState(mem[s]) /\ IsState(snap[s])
               /\ wal[s] \in Seq(Command) /\ Len(wal[s]) <= Span
               /\ pend[s] \in Seq(Command) /\ Len(pend[s]) <= Span + MaxLag
    <3>1. IsState(mem[s]) /\ IsState(snap[s])
      BY ListFits DEF CInv, States
    <3>2. /\ wal[s] \in Seq(Command) /\ pend[s] \in Seq(Command)
          /\ Len(wal[s]) < Span /\ Len(wal[s]) + Len(pend[s]) < Span + MaxLag
      BY DEF CInv, Queues
    <3>3. Len(wal[s]) \in Nat /\ Len(pend[s]) \in Nat /\ Span \in Nat /\ MaxLag \in Nat
      BY <3>2, ClusterAssumption
    <3>4. Len(wal[s]) <= Span /\ Len(pend[s]) <= Span + MaxLag
      <4>1. \A a, b, x, y \in Nat : a < x /\ a + b < x + y => a <= x /\ b <= x + y
        OBVIOUS
      <4> QED
        BY <3>2, <3>3, <4>1, Zenon
    <3> QED
      BY <3>1, <3>2, <3>4, Zenon
  <2> QED
    BY <2>1, <2>2 DEF CTypeOK, Control
<1> QED
  BY <1>1, InitCInv, NextCInv, PTL DEF CSpec

\* Whoever becomes leader has a heartbeat time for every registered data node,
\* and for no other: after any number of crashes, snapshots and replays.
THEOREM ClusterTimed == CSpec => []Timed
<1>1. CInv => Timed
  BY DEF CInv, States, Sound, Timed
<1> QED
  BY <1>1, InitCInv, NextCInv, PTL DEF CSpec

\* Servers that apply the same log get to the same list of data nodes, from
\* their memory as from their snapshot.
THEOREM ClusterConverges == CSpec => []Converges
<1>1. CInv => Converges
  BY DEF CInv, Agreement, Agrees, Converges
<1> QED
  BY <1>1, InitCInv, NextCInv, PTL DEF CSpec

\* No health check gives up a data node of which a heartbeat was committed
\* within the timeout, although the leader's times are those of its replay.
THEOREM ClusterSilent == CSpec => OnlySilentGivenUp
<1>1. ASSUME CInv, [CNext]_cvars
      PROVE  [\A n \in dead' \ dead : heard[n] > Timeout]_cvars
  <2>1. SUFFICES ASSUME NEW n \in dead' \ dead PROVE heard[n] > Timeout
    OBVIOUS
  <2>2. checkDataNodeHealth
    BY <1>1, <2>1 DEF CNext, ServerStep, NodeStep, ApplyNext, Crash, Restart, Elect, Learn,
         NoLeader, sendHeartbeat, LoseHeartbeat, StopNode, StartNode, RemoveDead, StepDown,
         Tick, cvars
  <2>3. leader # Nil /\ n \in Overdue(mem[leader])
    BY <2>1, <2>2 DEF checkDataNodeHealth
  <2>4. leader \in Server /\ leader \in up /\ pend[leader] = <<>>
    BY <1>1, <2>3 DEF CInv, Control, Queues
  <2>5. Agrees(mem[leader], table, heard)
    BY <1>1, <2>4, ReplayEmpty DEF CInv, Agreement
  <2>6. /\ n \in Node /\ mem[leader].beat[n] # Nil /\ mem[leader].beat[n] > Timeout
        /\ mem[leader].beat[n] <= heard[n]
    BY <2>3, <2>5 DEF Overdue, Agrees
  <2>7. mem[leader].beat[n] \in Nat /\ heard[n] \in Nat /\ Timeout \in Nat
    BY <1>1, <2>4, <2>6, ClusterAssumption DEF CInv, Control, States, State, Age
  <2> QED
    BY <2>6, <2>7
<1> QED
  BY <1>1, InitCInv, NextCInv, PTL DEF CSpec, OnlySilentGivenUp
=============================================================================
