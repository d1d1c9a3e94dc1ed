--------------------------- MODULE HandlesProofs ---------------------------
(***************************************************************************)
(* Reads, writes and truncations through file handles, for every number of  *)
(* handles, nodes, files and bytes: types, and how a read is cut into       *)
(* segments.                                                                *)
(***************************************************************************)
EXTENDS Handles, NamespaceProofs, Induction, FiniteSetTheorems

\* The files of one directory, each with a replica on every node under its
\* own FileID: nobody makes directories or overwrites.
FlatFiles ==
  \A e \in Entry :
    /\ kind[e] = "dir" <=> e = Root
    /\ size[e] \in 0..MaxBytes
    /\ kind[e] = "file" => fileID[e] = e /\ replicas[e] = Addr \X {e}

Bytes == {s \in Seq(Byte) : Len(s) <= MaxBytes}

Calls == {"none", "open", "write", "truncate"}

Points == {"closed", "create", "located", "locate", "open", "writing",
           "truncating", "sizing", "reading", "getting", "got"}

HandleSet == [pc : Points, op : Calls, path : Path,
            flags : SUBSET {"O_CREAT", "O_EXCL", "O_TRUNC"}, id : Entry \cup {Nil},
            replicas : SUBSET Replica, size : 0..MaxBytes, status : Status \cup {"none"},
            on : Entry \cup {Nil}, arg : 0..MaxBytes, ver : 0..MaxWrites,
            todo : SUBSET (Replica \cup (Int \X Int)), ok : BOOLEAN,
            buf : Seq(Int), n : Nat, floor : Bytes]

\* The positions of a buffer of length len that no call in todo is to fill.
Filled(len, todo) == {j \in 1..len : \A seg \in todo : j \notin seg[1]..seg[2]}

\* What a handle is about, in each of the calls.
Progress(x) ==
  /\ \/ x.pc \in {"open", "reading", "writing"}
     \/ x.pc \in {"truncating", "sizing"} /\ x.op # "open"
     => x.id \in Entry
  /\ x.pc = "located" => x.op = "open"
  /\ x.pc \in {"writing", "truncating", "sizing"} => x.on \in Entry
  /\ IsFiniteSet(x.replicas)
  /\ x.pc = "reading" =>
       /\ x.todo \subseteq Segments(Cardinality(x.replicas), Len(x.buf))
       /\ x.n <= Cardinality(Filled(Len(x.buf), x.todo)) /\ x.replicas # {} /\ Len(x.buf) > 0
  /\ x.pc \notin {"reading", "got"} => x.n = 0
  /\ x.n <= Len(x.buf) /\ Len(x.buf) <= MaxBytes

HTypes ==
  /\ content \in [Addr -> [Entry -> Bytes \cup {Absent}]]
  /\ acked \in [Entry -> Bytes]
  /\ writes \in 0..MaxWrites /\ fails \in 0..MaxFails
  /\ failed \subseteq Entry \X {"write", "truncate", "size"}
  /\ handle \in [Handle -> HandleSet]
  /\ \A h \in Handle : Progress(handle[h])

HBase == IInv /\ FlatFiles /\ HTypes

----------------------------------------------------------------------------
(* Bytes.                                                                   *)

LEMMA HConsts ==
  /\ MaxBytes \in Nat /\ MaxWrites \in Nat /\ MaxFails \in Nat /\ MinParallel \in Nat
  /\ Byte \subseteq Nat /\ 0 \in Byte /\ 0..MaxBytes \subseteq Nat /\ 0 \in 0..MaxBytes
  /\ <<>> \in Path /\ <<>> \in Bytes /\ Len(<<>>) = 0
<1>1. MaxBytes \in Nat /\ MaxWrites \in Nat /\ MaxFails \in Nat /\ MinParallel \in Nat
  BY HandlesAssumption
<1>2. Byte \subseteq Nat /\ 0 \in Byte
  BY <1>1 DEF Byte
<1>3. <<>> \in Path
  <2>1. <<>> \in [1..0 -> Name] /\ 0 \in 0..MaxDepth
    BY NamespaceAssumption
  <2> QED
    BY <2>1 DEF Path
<1>4. <<>> \in Bytes
  BY <1>1 DEF Bytes
<1> QED
  BY <1>1, <1>2, <1>3, <1>4

LEMMA BytesFacts ==
  ASSUME NEW s \in Bytes
  PROVE  /\ s \in Seq(Byte) /\ Len(s) \in 0..MaxBytes /\ Len(s) \in Nat /\ s # Absent
         /\ \A i \in 1..Len(s) : s[i] \in Byte /\ s[i] \in Nat
<1>1. s \in Seq(Byte) /\ Len(s) <= MaxBytes
  BY DEF Bytes
<1>2. Len(s) \in Nat /\ \A i \in 1..Len(s) : s[i] \in Byte
  BY <1>1
<1>3. Len(s) \in 0..MaxBytes
  BY <1>1, <1>2, HConsts
<1>4. s \in Seq(Nat)
  <2>0. s \in [1..Len(s) -> Byte]
    BY <1>1
  <2>1. s \in [1..Len(s) -> Nat]
    BY <2>0, HConsts
  <2> QED
    BY <1>2, <2>1, SeqDef
<1> QED
  BY <1>1, <1>2, <1>3, <1>4, HConsts, HandlesAssumption

LEMMA BytesOf ==
  ASSUME NEW k \in 0..MaxBytes, NEW f \in [1..k -> Byte]
  PROVE  f \in Bytes /\ Len(f) = k
<1>1. k \in Nat /\ k <= MaxBytes
  BY HConsts
<1>2. f \in Seq(Byte) /\ Len(f) = k
  BY <1>1
<1> QED
  BY <1>1, <1>2 DEF Bytes

\* Sequences of bytes are equal when they agree everywhere.
LEMMA BytesEqual ==
  ASSUME NEW s \in Bytes, NEW t \in Bytes, Len(s) = Len(t),
         \A i \in 1..Len(s) : s[i] = t[i]
  PROVE  s = t
  BY BytesFacts

\* What a write, a truncation and a cut leave.
LEMMA WriteFacts ==
  ASSUME NEW s \in Bytes, NEW i \in 0..MaxBytes, NEW v \in Byte
  PROVE  /\ Write(s, i, v) \in Bytes
         /\ Len(Write(s, i, v)) = IF i < Len(s) THEN Len(s) ELSE i
         /\ \A j \in 1..Len(Write(s, i, v)) :
              Write(s, i, v)[j] = IF j = i THEN v ELSE IF j <= Len(s) THEN s[j] ELSE 0
<1> DEFINE k == IF i < Len(s) THEN Len(s) ELSE i
<1>1. Len(s) \in 0..MaxBytes /\ Len(s) \in Nat /\ \A j \in 1..Len(s) : s[j] \in Byte
  BY BytesFacts
<1>2. k \in 0..MaxBytes
  BY <1>1
<1>3. Write(s, i, v) = [j \in 1..k |-> IF j = i THEN v ELSE IF j <= Len(s) THEN s[j] ELSE 0]
  BY DEF Write, Larger
<1> HIDE DEF k
<1>4. \A j \in 1..k : (IF j = i THEN v ELSE IF j <= Len(s) THEN s[j] ELSE 0) \in Byte
  BY <1>1, <1>2, HConsts
<1>5. Write(s, i, v) \in [1..k -> Byte]
  BY <1>3, <1>4
<1>6. Write(s, i, v) \in Bytes /\ Len(Write(s, i, v)) = k
  BY <1>2, <1>5, BytesOf
<1>7. \A j \in 1..k : Write(s, i, v)[j] = IF j = i THEN v ELSE IF j <= Len(s) THEN s[j] ELSE 0
  BY <1>3
<1> QED
  BY <1>6, <1>7 DEF k

LEMMA ResizeFacts ==
  ASSUME NEW s \in Bytes, NEW k \in 0..MaxBytes
  PROVE  /\ Resize(s, k) \in Bytes /\ Len(Resize(s, k)) = k
         /\ \A j \in 1..k : Resize(s, k)[j] = IF j <= Len(s) THEN s[j] ELSE 0
<1>1. Len(s) \in Nat /\ \A j \in 1..Len(s) : s[j] \in Byte
  BY BytesFacts
<1>2. \A j \in 1..k : (IF j <= Len(s) THEN s[j] ELSE 0) \in Byte
  BY <1>1, HConsts
<1>3. Resize(s, k) \in [1..k -> Byte]
  BY <1>2 DEF Resize
<1>4. \A j \in 1..k : Resize(s, k)[j] = IF j <= Len(s) THEN s[j] ELSE 0
  BY DEF Resize
<1> QED
  BY <1>3, <1>4, BytesOf

LEMMA CutFacts ==
  ASSUME NEW s \in Bytes, NEW k \in 0..MaxBytes
  PROVE  /\ Cut(s, k) \in Bytes
         /\ Len(Cut(s, k)) = IF k < Len(s) THEN k ELSE Len(s)
         /\ \A j \in 1..Len(Cut(s, k)) : Cut(s, k)[j] = s[j]
<1> DEFINE l == IF k < Len(s) THEN k ELSE Len(s)
<1>1. /\ s \in Seq(Byte) /\ Len(s) \in Nat /\ Len(s) \in 0..MaxBytes
      /\ \A j \in 1..Len(s) : s[j] \in Byte
  BY BytesFacts
<1>2. l \in 0..Len(s) /\ l \in 0..MaxBytes
  BY <1>1, HConsts
<1>3. Cut(s, k) = SubSeq(s, 1, l)
  BY DEF Cut, Smaller
<1> HIDE DEF l
<1>4. SubSeq(s, 1, l) = [j \in 1..l |-> s[j]]
  BY <1>1, <1>2
<1>5. Cut(s, k) \in [1..l -> Byte]
  <2>1. \A j \in 1..l : s[j] \in Byte
    BY <1>1, <1>2
  <2> QED
    BY <1>3, <1>4, <2>1
<1>6. Cut(s, k) \in Bytes /\ Len(Cut(s, k)) = l
  BY <1>2, <1>5, BytesOf
<1>7. \A j \in 1..l : Cut(s, k)[j] = s[j]
  BY <1>3, <1>4
<1> QED
  BY <1>6, <1>7 DEF l

----------------------------------------------------------------------------
(* The segments of a parallel read.                                         *)

LEMMA Products ==
  ASSUME NEW i \in Nat, NEW j \in Nat, NEW s \in Nat, i < j
  PROVE  /\ i * s \in Nat /\ j * s \in Nat
         /\ i * s + s <= j * s
<1>1. i * s \in Nat /\ j * s \in Nat /\ (j - i - 1) * s \in Nat /\ (j - i - 1) \in Nat
  OBVIOUS
<1>2. j * s = i * s + s + (j - i - 1) * s
  BY <1>1
<1> QED
  BY <1>1, <1>2

LEMMA Quotient ==
  ASSUME NEW len \in Nat, NEW n \in Nat \ {0}
  PROVE  len \div n \in Nat /\ n * (len \div n) \in Nat /\ n * (len \div n) <= len
  OBVIOUS

\* The segments lie in the buffer, have no position in common and leave none
\* out, whatever the length and the number of replicas.
LEMMA SegmentsFacts ==
  ASSUME NEW n \in Nat \ {0}, NEW len \in Nat \ {0}
  PROVE  /\ \A a \in Segments(n, len) : a \in Nat \X Nat /\ a[1] >= 1 /\ a[2] <= len /\ a[1] <= a[2]
         /\ \A a, b \in Segments(n, len) : a # b => a[2] < b[1] \/ b[2] < a[1]
         /\ \A j \in 1..len : \E a \in Segments(n, len) : j \in a[1]..a[2]
<1> DEFINE s == len \div n
           lo(i) == (i - 1) * s + 1
           hi(i) == IF i = n THEN len ELSE i * s
<1>1. s \in Nat /\ n * s \in Nat /\ n * s <= len
  BY Quotient
<1>2. CASE n = 1 \/ len < MinParallel \/ s = 0
  <2>1. Segments(n, len) = {<<1, len>>}
    BY <1>2 DEF Segments
  <2> QED
    BY <2>1
<1>3. CASE ~(n = 1 \/ len < MinParallel \/ s = 0)
  <2>1. Segments(n, len) = {<<lo(i), hi(i)>> : i \in 1..n}
    BY <1>3 DEF Segments
  <2> HIDE DEF s
  <2>2. \A i \in 1..n : (i - 1) * s \in Nat /\ i * s \in Nat /\ i * s = (i - 1) * s + s
    BY <1>1
  <2>3. \A i \in 1..n : i # n => i * s + s <= n * s
    <3>1. \A i \in 1..n : i \in Nat /\ n \in Nat /\ (i # n => i < n)
      OBVIOUS
    <3> QED
      BY <1>1, <3>1, Products
  <2>4. \A i \in 1..n : /\ lo(i) \in Nat /\ hi(i) \in Nat
                        /\ lo(i) >= 1 /\ hi(i) <= len /\ lo(i) <= hi(i)
    <3>1. TAKE i \in 1..n
    <3>2. (i - 1) * s \in Nat /\ i * s \in Nat /\ i * s = (i - 1) * s + s /\ s >= 1
      BY <1>1, <1>3, <2>2
    <3>3. i # n => i * s + s <= n * s
      BY <2>3
    <3> QED
      BY <1>1, <3>2, <3>3
  <2>5. \A i, k \in 1..n : i < k => hi(i) < lo(k)
    <3>1. TAKE i, k \in 1..n
    <3>2. HAVE i < k
    <3>3. i # n /\ i \in Nat /\ k \in Nat /\ k - 1 \in Nat
      BY <3>2
    <3>4. i * s <= (k - 1) * s
      <4>1. CASE i = k - 1
        BY <1>1, <2>2, <4>1
      <4>2. CASE i < k - 1
        <5>1. i * s \in Nat /\ (k - 1) * s \in Nat /\ i * s + s <= (k - 1) * s
          BY <1>1, <3>3, <4>2, Products
        <5> QED
          BY <1>1, <5>1
      <4> QED
        BY <3>2, <3>3, <4>1, <4>2
    <3>5. i * s \in Nat /\ (k - 1) * s \in Nat
      BY <2>2
    <3> QED
      BY <3>3, <3>4, <3>5
  <2>6. \A j \in 1..len : \E i \in 1..n : lo(i) <= j /\ j <= hi(i)
    <3>1. TAKE j \in 1..len
    <3> DEFINE T == {i \in 1..n : j <= hi(i)}
    <3>2. n \in T
      OBVIOUS
    <3>3. T \in SUBSET Nat /\ T # {}
      BY <3>2
    <3>4. PICK i \in T : \A k \in T : ~(k < i)
      BY <3>3, NatMin
    <3>5. CASE i = 1
      <4>1. (1 - 1) * s = 0 /\ lo(1) = 1
        BY <1>1
      <4> QED
        BY <3>4, <3>5, <4>1
    <3>6. CASE i # 1
      <4>1. i - 1 \in 1..n /\ i - 1 < i /\ i - 1 # n /\ i \in 1..n
        BY <3>4, <3>6
      <4>2. ~(j <= hi(i - 1))
        BY <3>4, <4>1
      <4>3. hi(i - 1) = (i - 1) * s /\ (i - 1) * s \in Nat
        BY <2>2, <4>1
      <4>4. (i - 1) * s < j /\ lo(i) <= j
        BY <4>2, <4>3
      <4> QED
        BY <3>4, <4>1, <4>4
    <3> QED
      BY <3>5, <3>6
  <2> HIDE DEF lo, hi
  <2>7. ASSUME NEW a \in Segments(n, len)
        PROVE  \E i \in 1..n : a = <<lo(i), hi(i)>> /\ a[1] = lo(i) /\ a[2] = hi(i)
    BY <2>1
  <2>8. \A a, b \in Segments(n, len) : a # b => a[2] < b[1] \/ b[2] < a[1]
    <3>1. TAKE a, b \in Segments(n, len)
    <3>2. HAVE a # b
    <3>3. PICK i \in 1..n : a = <<lo(i), hi(i)>> /\ a[1] = lo(i) /\ a[2] = hi(i)
      BY <2>7
    <3>4. PICK k \in 1..n : b = <<lo(k), hi(k)>> /\ b[1] = lo(k) /\ b[2] = hi(k)
      BY <2>7
    <3>5. i < k \/ k < i
      BY <3>2, <3>3, <3>4
    <3> QED
      BY <2>5, <3>3, <3>4, <3>5
  <2>9. \A j \in 1..len : \E a \in Segments(n, len) : j \in a[1]..a[2]
    <3>1. TAKE j \in 1..len
    <3>2. PICK i \in 1..n : lo(i) <= j /\ j <= hi(i)
      BY <2>6
    <3>3. lo(i) \in Nat /\ hi(i) \in Nat
      BY <2>4
    <3> DEFINE a == <<lo(i), hi(i)>>
    <3>4. a \in Segments(n, len) /\ a[1] = lo(i) /\ a[2] = hi(i)
      BY <2>1
    <3>5. j \in a[1]..a[2]
      BY <3>2, <3>3, <3>4
    <3> QED
      BY <3>4, <3>5
  <2>10. \A a \in Segments(n, len) : a \in Nat \X Nat /\ a[1] >= 1 /\ a[2] <= len /\ a[1] <= a[2]
    BY <2>4, <2>7
  <2> QED
    BY <2>8, <2>9, <2>10
<1> QED
  BY <1>2, <1>3

Upto(S, m) == {j \in S : j <= m}

\* A segment that was read adds its positions, up to m, to the ones filled.
LEMMA FilledGrows ==
  ASSUME NEW n \in Nat \ {0}, NEW len \in Nat \ {0}, NEW todo \in SUBSET Segments(n, len),
         NEW seg \in todo, NEW m \in Int
  PROVE  /\ Filled(len, todo \ {seg}) = Filled(len, todo) \cup (seg[1]..seg[2])
         /\ Cardinality(Upto(Filled(len, todo), m)) \in Nat
         /\ Cardinality(Upto(Filled(len, todo \ {seg}), m)) \in Nat
         /\ Cardinality(Upto(Filled(len, todo \ {seg}), m))
              = Cardinality(Upto(Filled(len, todo), m))
                + (IF seg[1] > Smaller(seg[2], m) THEN 0 ELSE Smaller(seg[2], m) - seg[1] + 1)
<1> DEFINE old == {j \in Filled(len, todo) : j <= m}
           new == {j \in Filled(len, todo \ {seg}) : j <= m}
           last == IF seg[2] < m THEN seg[2] ELSE m
<1>1. /\ seg[1] \in Nat /\ seg[2] \in Nat /\ seg[1] >= 1 /\ seg[2] <= len
      /\ \A a \in todo : a[1] \in Nat /\ a[2] \in Nat
      /\ \A a \in todo : a # seg => a[2] < seg[1] \/ seg[2] < a[1]
  <2>1. seg \in Segments(n, len) /\ \A a \in todo : a \in Segments(n, len)
    OBVIOUS
  <2>2. \A a \in Segments(n, len) :
          /\ a \in Nat \X Nat /\ a[1] >= 1 /\ a[2] <= len
          /\ a # seg => a[2] < seg[1] \/ seg[2] < a[1]
    BY <2>1, SegmentsFacts
  <2> QED
    BY <2>1, <2>2
<1>2. Filled(len, todo \ {seg}) = Filled(len, todo) \cup (seg[1]..seg[2])
  <2>1. \A j \in seg[1]..seg[2] : j \in 1..len /\ \A a \in todo \ {seg} : j \notin a[1]..a[2]
    BY <1>1
  <2> QED
    BY <2>1 DEF Filled
<1>3. Filled(len, todo) \cap (seg[1]..seg[2]) = {} /\ Filled(len, todo) \subseteq 1..len
  BY DEF Filled
<1>4. last \in Int /\ \A j \in Int : j \in seg[1]..last <=> j \in seg[1]..seg[2] /\ j <= m
  BY <1>1
<1>5. new = old \cup (seg[1]..last)
  <2>1. \A j : j \in new <=> j \in old \/ (j \in seg[1]..seg[2] /\ j <= m)
    BY <1>2
  <2>2. \A j : j \in seg[1]..last \/ j \in seg[1]..seg[2] => j \in Int
    BY <1>1, <1>4
  <2> HIDE DEF last, new, old
  <2> QED
    BY <1>4, <2>1, <2>2
<1>6. old \cap (seg[1]..last) = {}
  <2>1. \A j \in seg[1]..last : j \in seg[1]..seg[2]
    BY <1>1, <1>4
  <2> QED
    BY <1>3, <2>1
<1>7. IsFiniteSet(old)
  <2>1. IsFiniteSet(1..len) /\ old \in SUBSET (1..len)
    BY <1>3, FS_Interval
  <2> QED
    BY <2>1, FS_Subset
<1>8. /\ IsFiniteSet(seg[1]..last)
      /\ Cardinality(seg[1]..last) = IF seg[1] > last THEN 0 ELSE last - seg[1] + 1
  <2>1. seg[1] \in Int /\ last \in Int
    BY <1>1, <1>4
  <2> HIDE DEF last
  <2> QED
    BY <2>1, FS_Interval
<1> HIDE DEF old, new, last
<1>9. /\ IsFiniteSet(new) /\ Cardinality(new) = Cardinality(old) + Cardinality(seg[1]..last)
                                                  - Cardinality(old \cap (seg[1]..last))
  BY <1>5, <1>7, <1>8, FS_Union
<1>10. Cardinality(old \cap (seg[1]..last)) = 0
  BY <1>6, FS_EmptySet
<1>11. Cardinality(old) \in Nat /\ Cardinality(new) \in Nat /\ Cardinality(seg[1]..last) \in Nat
  BY <1>7, <1>8, <1>9, FS_CardinalityType
<1>12. Cardinality(new) = Cardinality(old) + (IF seg[1] > last THEN 0 ELSE last - seg[1] + 1)
  BY <1>8, <1>9, <1>10, <1>11
<1>13. /\ old = Upto(Filled(len, todo), m) /\ new = Upto(Filled(len, todo \ {seg}), m)
       /\ last = Smaller(seg[2], m)
  BY Zenon DEF old, new, last, Upto, Smaller
<1> QED
  BY <1>2, <1>11, <1>12, <1>13, Zenon

LEMMA FilledUnion ==
  ASSUME NEW n \in Nat \ {0}, NEW len \in Nat \ {0}, NEW todo \in SUBSET Segments(n, len),
         NEW seg \in todo
  PROVE  \A j : j \in Filled(len, todo \ {seg}) <=> j \in Filled(len, todo) \/ j \in seg[1]..seg[2]
<1>1. PICK m \in Int : m = 0
  OBVIOUS
<1> QED
  BY FilledGrows

LEMMA FilledAll ==
  ASSUME NEW n \in Nat \ {0}, NEW len \in Nat \ {0}, NEW todo \in SUBSET Segments(n, len),
         NEW seg \in todo
  PROVE  /\ Cardinality(Filled(len, todo)) \in Nat
         /\ Cardinality(Filled(len, todo \ {seg}))
              = Cardinality(Filled(len, todo)) + (seg[2] - seg[1] + 1)
<1> DEFINE F == Filled(len, todo)
           G == Filled(len, todo \ {seg})
<1>1. Upto(F, len) = F /\ Upto(G, len) = G
  BY DEF Filled, Upto
<1>2. len \in Int
  OBVIOUS
<1>3. /\ Cardinality(Upto(F, len)) \in Nat
      /\ Cardinality(Upto(G, len)) = Cardinality(Upto(F, len))
           + (IF seg[1] > Smaller(seg[2], len) THEN 0 ELSE Smaller(seg[2], len) - seg[1] + 1)
  BY <1>2, FilledGrows
<1>4. seg[1] \in Nat /\ seg[2] \in Nat /\ seg[2] <= len /\ seg[1] <= seg[2]
  <2>1. seg \in Nat \X Nat /\ seg[2] <= len /\ seg[1] <= seg[2]
    BY SegmentsFacts
  <2> QED
    BY <2>1
<1>5. Smaller(seg[2], len) = seg[2]
  BY <1>4 DEF Smaller
<1>6. (IF seg[1] > Smaller(seg[2], len) THEN 0 ELSE Smaller(seg[2], len) - seg[1] + 1)
        = seg[2] - seg[1] + 1
  BY <1>4, <1>5
<1> HIDE DEF F, G
<1> QED
  BY <1>1, <1>3, <1>6, Zenon DEF F, G

\* Before the first answer no position is filled.
LEMMA NothingFilled ==
  ASSUME NEW n \in Nat \ {0}, NEW len \in Nat \ {0}
  PROVE  Filled(len, Segments(n, len)) = {}
  BY SegmentsFacts DEF Filled

LEMMA FilledBound ==
  ASSUME NEW len \in Nat, NEW todo
  PROVE  /\ IsFiniteSet(Filled(len, todo)) /\ Cardinality(Filled(len, todo)) \in Nat
         /\ Cardinality(Filled(len, todo)) <= len
<1>1. IsFiniteSet(1..len) /\ Cardinality(1..len) = len /\ Filled(len, todo) \in SUBSET (1..len)
  BY FS_Interval DEF Filled
<1> QED
  BY <1>1, FS_Subset, FS_CardinalityType

\* The bytes of a segment that lie within a file of length l.
LEMMA InFile ==
  ASSUME NEW a \in Nat, NEW l \in Nat, NEW first \in Nat, NEW last \in Int,
         first >= 1, last <= l - a
  PROVE  \A j \in first..last : j \in Nat /\ a + j \in 1..l
  OBVIOUS

----------------------------------------------------------------------------
(* The tree.                                                                *)

\* A path of one name leads to what the root has under it, others nowhere.
FlatTree ==
  \A p \in Path :
    /\ Len(p) \in Nat /\ (Len(p) # 0 => p[1] \in Name)
    /\ Len(p) = 1 => /\ ParentFound(p) /\ Parent(p) = Root /\ Last(p) = p[1]
                     /\ lookup(p) = children[Root][p[1]]
    /\ Len(p) # 1 => ~ParentFound(p) /\ lookup(p) = Nil
    /\ lookup(p) # Nil => lookup(p) \in Entry /\ kind[lookup(p)] = "file"

LEMMA TwoNames ==
  \A k \in Nat : k # 0 /\ k # 1 =>
    1 \in 1..(k - 1) /\ 1 \in 0..(k - 1) /\ 0 \in 0..(k - 1) /\ 1 \in 1..k
  OBVIOUS

LEMMA FlatLookup == IInv /\ FlatFiles => FlatTree
<1> SUFFICES ASSUME IInv, FlatFiles, NEW p \in Path
             PROVE  /\ Len(p) \in Nat /\ (Len(p) # 0 => p[1] \in Name)
                    /\ Len(p) = 1 => /\ ParentFound(p) /\ Parent(p) = Root /\ Last(p) = p[1]
                                     /\ lookup(p) = children[Root][p[1]]
                    /\ Len(p) # 1 => ~ParentFound(p) /\ lookup(p) = Nil
                    /\ lookup(p) # Nil => lookup(p) \in Entry /\ kind[lookup(p)] = "file"
  BY DEF FlatTree
<1>0. TypeOK /\ Linked /\ kind[Root] = "dir" /\ Root \in Entry
  BY NamespaceAssumption DEF IInv, Linked
<1>1. p \in Seq(Name) /\ Len(p) \in Nat
  BY PathIsSeq
<1>2. Len(p) # 0 => p[1] \in Name
  <2>1. Len(p) # 0 => 1 \in 1..Len(p)
    BY <1>1
  <2> QED
    BY <1>1, <2>1
<1>3. ASSUME Len(p) = 1
      PROVE  /\ ParentFound(p) /\ Parent(p) = Root /\ Last(p) = p[1]
             /\ lookup(p) = children[Root][p[1]]
  <2> DEFINE w == [i \in 0..0 |-> Root]
  <2>1. Len(p) - 1 = 0 /\ Len(p) > 0 /\ 0..0 = {0} /\ 1..0 = {}
    BY <1>3
  <2>2. w \in [0..(Len(p) - 1) -> Entry] /\ w[0] = Root /\ w[Len(p) - 1] = Root
    BY <1>0, <2>1
  <2>3. \A i \in 1..(Len(p) - 1) : w[i] = children[w[i - 1]][p[i]]
    BY <2>1
  <2> HIDE DEF w
  <2>4. ParentFound(p) /\ Parent(p) = Root /\ lookup(p) = children[Root][Last(p)]
    BY <1>0, <2>1, <2>2, <2>3, LeadsDir
  <2> QED
    BY <1>3, <2>4 DEF Last
<1>4. ASSUME Len(p) # 1
      PROVE  ~ParentFound(p) /\ lookup(p) = Nil
  <2>1. SUFFICES ASSUME ParentFound(p) PROVE FALSE
    BY DEF lookup
  <2>2. Len(p) \in Nat \ {0}
    BY <1>0, <2>1, ParentFacts
  <2>3. 1 \in 1..(Len(p) - 1) /\ 1 \in 0..(Len(p) - 1) /\ 0 \in 0..(Len(p) - 1)
    BY <1>4, <2>2, TwoNames
  <2>4. /\ Walk(p)[1] = children[Walk(p)[1 - 1]][p[1]] /\ Walk(p)[1] \in Entry
        /\ Walk(p)[0] = Root /\ kind[Walk(p)[1]] = "dir"
    BY <2>1, <2>3 DEF ParentFound, IsWalk
  <2>5. Walk(p)[1] = Root /\ Root # Nil
    BY <2>4, NamespaceAssumption DEF FlatFiles
  <2>6. Root = children[Root][p[1]] /\ p[1] \in Name
    <3>1. 1 - 1 = 0 /\ Len(p) # 0
      BY <2>2
    <3>2. Walk(p)[1] = children[Walk(p)[0]][p[1]]
      BY <2>4, <3>1
    <3> QED
      BY <1>2, <2>4, <2>5, <3>1, <3>2, Zenon
  <2> QED
    BY <1>0, <2>5, <2>6 DEF Linked
<1>5. ASSUME lookup(p) # Nil PROVE lookup(p) \in Entry /\ kind[lookup(p)] = "file"
  <2>1. lookup(p) \in Entry /\ kind[lookup(p)] # "free" /\ lookup(p) # Root
    BY <1>0, <1>5, LookupFacts
  <2> QED
    BY <1>0, <2>1 DEF FlatFiles, TypeOK
<1> QED
  BY <1>1, <1>2, <1>3, <1>4, <1>5

\* The commands that handles and the replicator send.
FileMove ==
  \/ UNCHANGED tree
  \/ \E p \in Path, e \in Entry : applyCreateFile(p, e, "CreateIfNotExist", 0, Addr)
  \/ \E p \in Path : applyCompleteFile(p)
  \/ \E p \in Path, k \in 0..MaxBytes : applyUpdateSize(p, k)
  \/ \E p \in Path, st \in {"complete", "recovering"} : applyUpdateStatus(p, st)

TreeMove == FileMove \/ \E src, dst \in Path : applyRename(src, dst)

LEMMA TreeSteps ==
  ASSUME HTypes, [HNext]_hvars
  PROVE  FileMove \/ \E src, dst \in Path : Rename(src, dst)
<1>1. \A h \in Handle : handle[h].path \in Path /\ handle[h].arg \in 0..MaxBytes
  BY DEF HTypes, HandleSet
<1>2. ASSUME NEW h \in Handle, OpenStep(h) PROVE FileMove
  BY <1>1, <1>2 DEF OpenStep, OpenStat, OpenCreate, OpenTruncate, OpenLocate,
                    truncateAllReplicas, FileMove
<1>3. ASSUME NEW h \in Handle, NEW took \in BOOLEAN, NEW ok \in BOOLEAN, updateSize(h, took, ok)
      PROVE  FileMove
  BY <1>1, <1>3 DEF updateSize, FileMove
<1>4. ASSUME NEW h \in Handle, UpdateStep(h) PROVE FileMove
  <2>1. \/ UNCHANGED tree
        \/ \E took, ok \in BOOLEAN : updateSize(h, took, ok)
    BY <1>4 DEF UpdateStep, WriteAt, Truncate, truncateAllReplicas, PartialWrite, TruncateReplica,
                WriteAnswered, TruncateAnswered, WriteReturns, TruncateReturns
  <2> QED
    BY <1>3, <2>1 DEF FileMove
<1>5. ASSUME NEW h \in Handle, ReadStep(h) \/ Stop(h) PROVE FileMove
  BY <1>5 DEF ReadStep, ReadAt, RangeRead, ReadReturns, GetLocation, GetData, GetReturns, Stop,
              FileMove
<1>6. ASSUME NEW h \in Handle, Close(h) PROVE FileMove
  BY <1>1, <1>6 DEF Close, FileMove
<1>7. ASSUME NEW p \in Path, Repairs(p) PROVE FileMove
  BY <1>7 DEF Repairs, FileMove
<1>9. CASE UNCHANGED hvars
  BY <1>9 DEF hvars, FileMove
<1> QED
  BY <1>2, <1>4, <1>5, <1>6, <1>7, <1>9 DEF HNext

\* Files stay files under their FileIDs, with a replica on every node.
LEMMA TreeStays ==
  ASSUME IInv, FlatFiles, TreeMove
  PROVE  /\ IInv' /\ FlatFiles'
         /\ \A e \in Entry : kind[e] # "free" => kind'[e] = kind[e]
<1>0. TypeOK /\ Linked
  BY DEF IInv
<1>1. [Next]_vars
  <2>1. "CreateIfNotExist" \in CreateModes /\ 0 \in Size /\ Addr \in SUBSET Addr /\ Addr # {}
        /\ 0..MaxBytes \subseteq Size
    BY HandlesAssumption, HConsts
  <2> QED
    BY <2>1 DEF TreeMove, FileMove, Next, ClientNext, ReplicatorNext, tree, vars
<1>2. IInv' /\ \A e \in Entry : kind[e] # "free" => kind'[e] = kind[e]
  BY <1>1, NextIInv, TreeGrowth
<1>3. FlatFiles'
  <2>1. CASE UNCHANGED <<kind, fileID, replicas, size>>
    BY <2>1 DEF FlatFiles
  <2>2. ASSUME NEW p \in Path, NEW e \in Entry,
               applyCreateFile(p, e, "CreateIfNotExist", 0, Addr)
        PROVE  FlatFiles'
    <3>1. lookup(p) = Nil
      BY <2>2 DEF applyCreateFile, MayCreate
    <3>2. /\ kind[e] = "free" /\ kind' = [kind EXCEPT ![e] = "file"]
          /\ fileID' = [fileID EXCEPT ![e] = e]
          /\ replicas' = [replicas EXCEPT ![e] = Addr \X {e}]
          /\ size' = [size EXCEPT ![e] = 0]
      BY <2>2, <3>1 DEF applyCreateFile, Fresh
    <3>3. \A d \in Entry : /\ kind'[d] = IF d = e THEN "file" ELSE kind[d]
                           /\ fileID'[d] = IF d = e THEN e ELSE fileID[d]
                           /\ replicas'[d] = IF d = e THEN Addr \X {e} ELSE replicas[d]
                           /\ size'[d] = IF d = e THEN 0 ELSE size[d]
      BY <1>0, <3>2 DEF TypeOK
    <3>4. e # Root
      BY <3>2 DEF FlatFiles
    <3> QED
      BY <3>3, <3>4, HConsts DEF FlatFiles
  <2>3. ASSUME NEW p \in Path, NEW k \in 0..MaxBytes, applyUpdateSize(p, k)
        PROVE  FlatFiles'
    <3>1. /\ UNCHANGED <<kind, fileID, replicas>>
          /\ size' = [size EXCEPT ![lookup(p)] = k]
      BY <2>3 DEF applyUpdateSize
    <3>2. \A d \in Entry : size'[d] \in {size[d], k}
      BY <1>0, <3>1 DEF TypeOK
    <3> QED
      BY <3>1, <3>2 DEF FlatFiles
  <2> QED
    BY <2>1, <2>2, <2>3 DEF TreeMove, FileMove, tree, applyCompleteFile, applyUpdateSize, applyUpdateStatus,
                      applyRename, data
<1> QED
  BY <1>2, <1>3

----------------------------------------------------------------------------
(* Types.                                                                   *)

LEMMA FileFacts ==
  ASSUME IInv, FlatFiles, NEW p \in Path, IsFile(lookup(p))
  PROVE  /\ lookup(p) \in Entry /\ kind[lookup(p)] = "file" /\ fileID[lookup(p)] = lookup(p)
         /\ replicas[lookup(p)] = Addr \X {lookup(p)}
         /\ size[lookup(p)] \in 0..MaxBytes /\ status[lookup(p)] \in Status
<1>0. lookup(p) # Nil /\ kind[lookup(p)] = "file" /\ TypeOK /\ Linked
  BY DEF IsFile, IInv
<1>1. lookup(p) \in Entry
  BY <1>0, LookupFacts
<1> QED
  BY <1>0, <1>1 DEF FlatFiles, TypeOK

LEMMA ReplicasOf ==
  ASSUME NEW e \in Entry
  PROVE  /\ Addr \X {e} \in SUBSET Replica /\ IsFiniteSet(Addr \X {e}) /\ Addr \X {e} # {}
<1>1. IsFiniteSet({e}) /\ IsFiniteSet(Addr) /\ Addr # {}
  BY FS_Singleton, HandlesAssumption
<1>2. IsFiniteSet(Addr \X {e})
  BY <1>1, FS_Product
<1>3. Addr \X {e} \in SUBSET Replica
  BY DEF Replica
<1>4. Addr \X {e} # {}
  <2>1. PICK a : a \in Addr
    BY <1>1
  <2>2. <<a, e>> \in Addr \X {e}
    BY <2>1
  <2> QED
    BY <2>2
<1> QED
  BY <1>2, <1>3, <1>4

LEMMA ClosedFacts == ClosedHandle \in HandleSet /\ Progress(ClosedHandle)
<1>1. IsFiniteSet({}) /\ <<>> \in Seq(Int) /\ 0 \in Nat /\ 0 \in 0..MaxWrites
  BY FS_EmptySet, HConsts
<1>2. ClosedHandle \in HandleSet
  BY <1>1, HConsts DEF ClosedHandle, HandleSet, Points, Calls
<1> QED
  BY <1>1, <1>2, HConsts DEF ClosedHandle, Progress

LEMMA BackFacts ==
  ASSUME NEW x \in HandleSet, IsFiniteSet(x.replicas), x.id \in Entry
  PROVE  Back(x) \in HandleSet /\ Progress(Back(x))
<1>1. <<>> \in Seq(Int) /\ 0 \in Nat /\ 0 \in 0..MaxWrites
  BY HConsts
<1>2. Back(x) \in HandleSet
  BY <1>1, HConsts DEF Back, HandleSet, Points, Calls
<1>3. /\ Back(x).pc = "open" /\ Back(x).id = x.id /\ Back(x).replicas = x.replicas
      /\ Back(x).n = 0 /\ Back(x).buf = <<>>
  BY DEF Back, HandleSet
<1> QED
  BY <1>2, <1>3, HConsts DEF Progress

LEMMA SetTypes ==
  ASSUME HTypes, NEW h \in Handle, NEW x \in HandleSet, Progress(x), Set(h, x)
  PROVE  handle' \in [Handle -> HandleSet] /\ \A g \in Handle : Progress(handle'[g])
<1>1. handle \in [Handle -> HandleSet] /\ handle' = [handle EXCEPT ![h] = x]
  BY DEF HTypes, Set
<1>2. \A g \in Handle : handle'[g] = IF g = h THEN x ELSE handle[g]
  BY <1>1
<1> QED
  BY <1>1, <1>2 DEF HTypes

\* A step that only changes what handle h is doing.
LEMMA SetOnly ==
  ASSUME HTypes, NEW h \in Handle, NEW x \in HandleSet, Progress(x), Set(h, x),
         UNCHANGED <<content, writes, acked, failed>>,
         fails' \in 0..MaxFails
  PROVE  HTypes'
<1>1. handle' \in [Handle -> HandleSet] /\ \A g \in Handle : Progress(handle'[g])
  BY SetTypes
<1> QED
  BY <1>1 DEF HTypes

\* truncateAllReplicas.
LEMMA CutTypes ==
  ASSUME HBase, NEW h \in Handle, NEW k \in 0..MaxBytes, truncateAllReplicas(h, k),
         handle[h].pc \in {"open", "located"}
  PROVE  HTypes'
<1> DEFINE e == lookup(handle[h].path)
           x == [handle[h] EXCEPT !.pc = "truncating", !.arg = k, !.on = fileID[e],
                   !.op = IF @ = "open" THEN @ ELSE "truncate", !.todo = replicas[e]]
           cut(g) == [handle[g] EXCEPT !.floor = Cut(@, k)]
<1>0. IInv /\ FlatFiles /\ HTypes /\ handle \in [Handle -> HandleSet]
  BY DEF HBase, HTypes
<1>1. /\ IsFile(e) /\ UNCHANGED <<content, writes, fails, failed>>
      /\ handle' = [g \in Handle |-> IF g = h THEN x
                                     ELSE IF handle[g].id = fileID[e] THEN cut(g) ELSE handle[g]]
      /\ acked' = [acked EXCEPT ![fileID[e]] = Cut(@, k)]
  BY DEF truncateAllReplicas
<1>3. handle[h] \in HandleSet /\ Progress(handle[h]) /\ handle[h].path \in Path
  BY <1>0 DEF HTypes, HandleSet
<1>2. fileID[e] \in Entry /\ replicas[e] \in SUBSET Replica
  BY <1>0, <1>1, <1>3, FileFacts, ReplicasOf
<1>4. x \in HandleSet
  <2>1. PICK o \in Calls : x = [handle[h] EXCEPT !.pc = "truncating", !.arg = k, !.on = fileID[e],
                              !.op = o, !.todo = replicas[e]]
    BY <1>3 DEF HandleSet, Calls
  <2> HIDE DEF x
  <2>2. replicas[e] \in SUBSET (Replica \cup (Int \X Int)) /\ fileID[e] \in Entry \cup {Nil}
    BY <1>2
  <2>3. "truncating" \in Points
    BY DEF Points
  <2> QED
    BY <1>3, <2>1, <2>2, <2>3 DEF HandleSet
<1>5. /\ x.pc = "truncating" /\ x.on \in Entry /\ x.n = handle[h].n /\ x.buf = handle[h].buf
      /\ x.replicas = handle[h].replicas /\ x.id = handle[h].id
      /\ handle[h].op = "open" => x.op = "open"
  BY <1>2, <1>3 DEF HandleSet
<1>6. Progress(x)
  <2> HIDE DEF x
  <2>1. x.op # "open" => handle[h].pc = "open"
    BY <1>3, <1>5 DEF Progress
  <2> QED
    BY <1>3, <1>5, <2>1 DEF Progress
<1>7. ASSUME NEW g \in Handle PROVE cut(g) \in HandleSet /\ Progress(cut(g))
  <2>1. handle[g] \in HandleSet /\ Progress(handle[g])
    BY <1>0 DEF HTypes
  <2>2. Cut(handle[g].floor, k) \in Bytes
    BY <2>1, CutFacts DEF HandleSet
  <2>3. cut(g) \in HandleSet
    BY <2>1, <2>2 DEF HandleSet
  <2>4. /\ cut(g).pc = handle[g].pc /\ cut(g).op = handle[g].op /\ cut(g).id = handle[g].id
        /\ cut(g).on = handle[g].on /\ cut(g).replicas = handle[g].replicas
        /\ cut(g).todo = handle[g].todo /\ cut(g).n = handle[g].n /\ cut(g).buf = handle[g].buf
    BY <2>1 DEF HandleSet
  <2> HIDE DEF cut
  <2> QED
    BY <2>1, <2>3, <2>4 DEF Progress
<1> HIDE DEF x, cut
<1>8. handle' \in [Handle -> HandleSet] /\ \A g \in Handle : Progress(handle'[g])
  <2>1. \A g \in Handle : handle'[g] \in {x, cut(g), handle[g]}
    BY <1>1
  <2>2. \A g \in Handle : handle'[g] \in HandleSet /\ Progress(handle'[g])
    BY <1>4, <1>6, <1>7, <2>1, <1>0 DEF HTypes
  <2> QED
    BY <1>1, <2>2
<1>9. acked' \in [Entry -> Bytes]
  <2>1. acked \in [Entry -> Bytes] /\ Cut(acked[fileID[e]], k) \in Bytes
    BY <1>0, <1>2, CutFacts DEF HTypes
  <2> QED
    BY <1>1, <2>1
<1> QED
  BY <1>0, <1>1, <1>8, <1>9 DEF HTypes

LEMMA OpenTypes ==
  ASSUME HBase, NEW h \in Handle, OpenStep(h)
  PROVE  HTypes'
<1>0. IInv /\ FlatFiles /\ HTypes /\ handle[h] \in HandleSet /\ Progress(handle[h])
      /\ handle[h].path \in Path
  BY DEF HBase, HTypes, HandleSet
<1>1. fails' = fails => fails' \in 0..MaxFails
  BY <1>0 DEF HTypes
<1>2. ASSUME NEW p \in Path, NEW flags \in OpenFlags \cup {{}}, OpenStat(h, p, flags)
      PROVE  HTypes'
  <2> DEFINE e == lookup(p)
             x == [ClosedHandle EXCEPT !.path = p, !.op = "open", !.flags = flags]
  <2>1. flags \in SUBSET {"O_CREAT", "O_EXCL", "O_TRUNC"}
    BY HandlesAssumption
  <2>2. x \in HandleSet /\ x.op = "open" /\ x.n = 0 /\ x.buf = <<>> /\ x.replicas = {}
    BY <2>1, ClosedFacts, ZenonT(60) DEF HandleSet, Points, Calls, ClosedHandle
  <2> HIDE DEF x
  <2>3. ASSUME NEW c \in Points, NEW k \in 0..MaxBytes, c \in {"create", "located", "locate"}
        PROVE  /\ [x EXCEPT !.pc = c] \in HandleSet /\ Progress([x EXCEPT !.pc = c])
               /\ [x EXCEPT !.pc = c, !.size = k] \in HandleSet
               /\ Progress([x EXCEPT !.pc = c, !.size = k])
    <3>1. [x EXCEPT !.pc = c] \in HandleSet /\ [x EXCEPT !.pc = c, !.size = k] \in HandleSet
      BY <2>2, ZenonT(60) DEF HandleSet
    <3>2. IsFiniteSet({})
      BY FS_EmptySet
    <3>3. ASSUME NEW y, y \in {[x EXCEPT !.pc = c], [x EXCEPT !.pc = c, !.size = k]}
          PROVE  Progress(y)
      <4>1. /\ y.pc = c /\ y.op = "open" /\ y.n = 0 /\ y.buf = <<>> /\ y.replicas = {}
        BY <2>2, <3>3 DEF HandleSet
      <4> QED
        BY <2>3, <3>2, <4>1, HConsts DEF Progress
    <3> QED
      BY <3>1, <3>3
  <2>4. "create" \in Points /\ "located" \in Points /\ "locate" \in Points
    BY DEF Points
  <2>5. UNCHANGED <<content, writes, fails, acked, failed>>
    BY <1>2 DEF OpenStat
  <2>6. \/ Set(h, [x EXCEPT !.pc = "create"])
        \/ Set(h, [x EXCEPT !.pc = "located"])
        \/ IsFile(e) /\ Set(h, [x EXCEPT !.pc = "locate", !.size = size[e]])
    BY <1>2 DEF OpenStat, x
  <2>7. CASE Set(h, [x EXCEPT !.pc = "create"])
    BY <1>0, <1>1, <2>3, <2>4, <2>5, <2>7, HConsts, SetOnly
  <2>8. CASE Set(h, [x EXCEPT !.pc = "located"])
    BY <1>0, <1>1, <2>3, <2>4, <2>5, <2>8, HConsts, SetOnly
  <2>9. CASE IsFile(e) /\ Set(h, [x EXCEPT !.pc = "locate", !.size = size[e]])
    <3>1. size[e] \in 0..MaxBytes
      BY <1>0, <2>9, FileFacts
    <3> QED
      BY <1>0, <1>1, <2>3, <2>4, <2>5, <2>9, <3>1, SetOnly
  <2> QED
    BY <2>6, <2>7, <2>8, <2>9
<1>3. ASSUME NEW e \in Entry, OpenCreate(h, e) PROVE HTypes'
  <2> DEFINE x == [handle[h] EXCEPT !.pc = "locate", !.status = "pending",
                                    !.replicas = Addr \X {e}]
  <2>1. UNCHANGED <<content, writes, fails, acked, failed>>
    BY <1>3 DEF OpenCreate
  <2>2. x \in HandleSet
    BY <1>0, ReplicasOf, ZenonT(60) DEF HandleSet, Points, Status
  <2>3. Progress(x)
    <3>1. /\ x.pc = "locate" /\ x.replicas = Addr \X {e} /\ handle[h].pc = "create"
          /\ x.n = handle[h].n /\ x.buf = handle[h].buf
      BY <1>0, <1>3 DEF HandleSet, OpenCreate
    <3> QED
      BY <1>0, <3>1, ReplicasOf DEF Progress
  <2>4. Set(h, x) \/ Set(h, ClosedHandle)
    BY <1>0, <1>3 DEF OpenCreate, Set, HTypes
  <2> HIDE DEF x
  <2> QED
    BY <1>0, <1>1, <2>1, <2>2, <2>3, <2>4, ClosedFacts, SetOnly
<1>4. ASSUME OpenLocate(h) PROVE HTypes'
  <2> DEFINE e == lookup(handle[h].path)
             st == IF handle[h].status = "none" THEN status[e] ELSE handle[h].status
             x == [handle[h] EXCEPT !.pc = "open", !.op = "none", !.flags = {}, !.status = st,
                     !.id = fileID[e],
                     !.replicas = IF @ = {} THEN replicas[e] ELSE @]
  <2>1. UNCHANGED <<content, writes, fails, acked, failed>>
    BY <1>4 DEF OpenLocate
  <2>2. Set(h, ClosedHandle) \/ (IsFile(e) /\ Set(h, x))
    BY <1>4 DEF OpenLocate
  <2>3. ASSUME IsFile(e) PROVE x \in HandleSet /\ Progress(x)
    <3>1. fileID[e] \in Entry /\ replicas[e] \in SUBSET Replica /\ IsFiniteSet(replicas[e])
          /\ status[e] \in Status
      BY <1>0, <2>3, FileFacts, ReplicasOf
    <3>2. st \in Status \cup {"none"}
      BY <1>0, <3>1 DEF HandleSet
    <3> HIDE DEF st
    <3>3. x \in HandleSet
      <4>1. PICK list \in SUBSET Replica :
              x = [handle[h] EXCEPT !.pc = "open", !.op = "none", !.flags = {}, !.status = st,
                     !.id = fileID[e], !.replicas = list]
        BY <1>0, <3>1 DEF HandleSet
      <4> HIDE DEF x
      <4>2. /\ "open" \in Points /\ "none" \in Calls /\ fileID[e] \in Entry \cup {Nil}
            /\ {} \in SUBSET {"O_CREAT", "O_EXCL", "O_TRUNC"}
        BY <3>1 DEF Points, Calls
      <4> QED
        BY <1>0, <3>2, <4>1, <4>2 DEF HandleSet
    <3>4. /\ x.pc = "open" /\ x.id \in Entry /\ x.n = handle[h].n /\ x.buf = handle[h].buf
          /\ x.replicas \in {replicas[e], handle[h].replicas} /\ handle[h].pc = "locate"
      BY <1>0, <1>4, <3>1 DEF HandleSet, OpenLocate
    <3> HIDE DEF x
    <3> QED
      BY <1>0, <3>1, <3>3, <3>4 DEF Progress
  <2> HIDE DEF x
  <2> QED
    BY <1>0, <1>1, <2>1, <2>2, <2>3, ClosedFacts, SetOnly
<1>5. ASSUME OpenTruncate(h), ~truncateAllReplicas(h, 0) PROVE HTypes'
  BY <1>0, <1>1, <1>5, ClosedFacts, SetOnly DEF OpenTruncate
<1>6. ASSUME OpenTruncate(h), truncateAllReplicas(h, 0) PROVE HTypes'
  BY <1>0, <1>6, HConsts, CutTypes DEF OpenTruncate
<1> QED
  BY <1>2, <1>3, <1>4, <1>5, <1>6 DEF OpenStep

\* A call on one replica writes there.
LEMMA StoreTypes ==
  ASSUME HTypes, NEW r \in Replica, NEW s \in Bytes
  PROVE  /\ [content EXCEPT ![r[1]][r[2]] = s] \in [Addr -> [Entry -> Bytes \cup {Absent}]]
         /\ BytesAt(r) \in Bytes
<1>1. content \in [Addr -> [Entry -> Bytes \cup {Absent}]] /\ r[1] \in Addr /\ r[2] \in Entry
  BY DEF HTypes, Replica
<1>2. [content[r[1]] EXCEPT ![r[2]] = s] \in [Entry -> Bytes \cup {Absent}]
  BY <1>1
<1>3. BytesAt(r) \in Bytes
  BY <1>1, HConsts DEF BytesAt
<1> QED
  BY <1>1, <1>2, <1>3

LEMMA FailTypes ==
  ASSUME HTypes, NEW ok \in BOOLEAN
  PROVE  /\ Outcome(ok) /\ Counted(ok) => fails' \in 0..MaxFails
         /\ UNCHANGED fails => fails' \in 0..MaxFails
  BY HConsts DEF HTypes, Outcome, Counted

\* One replica has answered.
LEMMA AnswerTypes ==
  ASSUME HTypes, NEW h \in Handle, NEW r, NEW ok \in BOOLEAN,
         handle[h].pc \in {"writing", "truncating"}
  PROVE  LET y == [handle[h] EXCEPT !.todo = @ \ {r}, !.ok = @ /\ ok] IN
         y \in HandleSet /\ Progress(y)
<1> DEFINE y == [handle[h] EXCEPT !.todo = @ \ {r}, !.ok = @ /\ ok]
<1>1. handle[h] \in HandleSet /\ Progress(handle[h])
  BY DEF HTypes
<1>2. /\ handle[h].todo \ {r} \in SUBSET (Replica \cup (Int \X Int))
      /\ (handle[h].ok /\ ok) \in BOOLEAN
  BY <1>1 DEF HandleSet
<1>3. y = [handle[h] EXCEPT !.todo = handle[h].todo \ {r}, !.ok = handle[h].ok /\ ok]
  OBVIOUS
<1>4. y \in HandleSet
  BY <1>1, <1>2, <1>3 DEF HandleSet
<1>5. /\ y.pc = handle[h].pc /\ y.op = handle[h].op /\ y.id = handle[h].id
      /\ y.on = handle[h].on /\ y.replicas = handle[h].replicas
      /\ y.n = handle[h].n /\ y.buf = handle[h].buf
  BY <1>1 DEF HandleSet
<1> HIDE DEF y
<1>6. Progress(y)
  BY <1>1, <1>5 DEF Progress
<1> QED
  BY <1>4, <1>6 DEF y

LEMMA MarkTypes ==
  ASSUME HTypes, NEW f \in Entry, NEW op \in {"write", "truncate", "size"}
  PROVE  failed \cup {<<f, op>>} \subseteq Entry \X {"write", "truncate", "size"}
  BY DEF HTypes

LEMMA AckTypes ==
  ASSUME HTypes, NEW f \in Entry, NEW s \in Bytes
  PROVE  [acked EXCEPT ![f] = s] \in [Entry -> Bytes]
  BY DEF HTypes

\* Handle h goes on, files keep their bytes.
LEMMA SetAll ==
  ASSUME HTypes, NEW h \in Handle, NEW x \in HandleSet, Progress(x), Set(h, x),
         content' \in [Addr -> [Entry -> Bytes \cup {Absent}]], acked' \in [Entry -> Bytes],
         writes' \in 0..MaxWrites, fails' \in 0..MaxFails,
         failed' \subseteq Entry \X {"write", "truncate", "size"}
  PROVE  HTypes'
<1>1. handle' \in [Handle -> HandleSet] /\ \A g \in Handle : Progress(handle'[g])
  BY SetTypes
<1> QED
  BY <1>1 DEF HTypes

LEMMA UpdateTypes ==
  ASSUME HBase, NEW h \in Handle, UpdateStep(h)
  PROVE  HTypes'
<1> DEFINE x == handle[h]
<1>0. /\ IInv /\ FlatFiles /\ HTypes /\ x \in HandleSet /\ Progress(x)
      /\ x.arg \in 0..MaxBytes /\ x.ver \in Byte
  BY DEF HBase, HTypes, HandleSet, Byte
<1>1. /\ content \in [Addr -> [Entry -> Bytes \cup {Absent}]]
      /\ acked \in [Entry -> Bytes] /\ writes \in 0..MaxWrites /\ fails \in 0..MaxFails
      /\ failed \subseteq Entry \X {"write", "truncate", "size"}
  BY <1>0 DEF HTypes
<1> HIDE DEF x
<1>2. ASSUME NEW i \in Offsets, WriteAt(h, i) PROVE HTypes'
  <2> DEFINE y == [x EXCEPT !.pc = "writing", !.op = "write", !.on = x.id,
                      !.arg = i, !.ver = writes + 1, !.todo = x.replicas]
  <2>1. /\ x.pc = "open" /\ Set(h, y) /\ writes' = writes + 1 /\ writes < MaxWrites
        /\ UNCHANGED <<content, fails, acked, failed>>
    BY <1>2 DEF WriteAt, x
  <2>2. i \in 0..MaxBytes
    BY HandlesAssumption
  <2>3. writes + 1 \in 0..MaxWrites
    BY <1>1, <2>1, HConsts
  <2>4. x.id \in Entry /\ x.replicas \in SUBSET (Replica \cup (Int \X Int))
    BY <1>0, <2>1 DEF Progress, HandleSet
  <2>5. y \in HandleSet
    BY <1>0, <2>2, <2>3, <2>4 DEF HandleSet, Points, Calls
  <2>6. /\ y.pc = "writing" /\ y.id = x.id /\ y.on = x.id /\ y.n = x.n /\ y.buf = x.buf
        /\ y.replicas = x.replicas
    BY <1>0 DEF HandleSet
  <2> HIDE DEF y
  <2>7. Progress(y)
    BY <1>0, <2>1, <2>4, <2>6 DEF Progress
  <2> QED
    BY <1>0, <1>1, <2>1, <2>3, <2>5, <2>7, SetAll
<1>3. ASSUME NEW k \in Sizes, Truncate(h, k) PROVE HTypes'
  <2>1. k \in 0..MaxBytes
    BY HandlesAssumption
  <2> QED
    BY <1>3, <2>1, CutTypes DEF Truncate
<1>4. ASSUME NEW r \in Replica, NEW took \in BOOLEAN, NEW ok \in BOOLEAN,
             PartialWrite(h, r, took, ok)
      PROVE  HTypes'
  <2> DEFINE y == [x EXCEPT !.todo = @ \ {r}, !.ok = @ /\ ok]
  <2>1. /\ x.pc = "writing" /\ Set(h, y) /\ Outcome(ok) /\ Counted(ok)
        /\ content' = IF took THEN [content EXCEPT ![r[1]][r[2]] = Write(BytesAt(r), x.arg, x.ver)]
                      ELSE content
        /\ UNCHANGED <<writes, acked, failed>>
    BY <1>4 DEF PartialWrite, x
  <2>2. y \in HandleSet /\ Progress(y)
    BY <1>0, <2>1, AnswerTypes DEF x
  <2>3. BytesAt(r) \in Bytes
    BY <1>0, HConsts, StoreTypes
  <2>4. Write(BytesAt(r), x.arg, x.ver) \in Bytes
    BY <1>0, <2>3, WriteFacts
  <2>5. content' \in [Addr -> [Entry -> Bytes \cup {Absent}]]
    BY <1>0, <1>1, <2>1, <2>4, StoreTypes
  <2>6. fails' \in 0..MaxFails
    BY <1>0, <2>1, FailTypes
  <2> HIDE DEF y
  <2> QED
    BY <1>0, <1>1, <2>1, <2>2, <2>5, <2>6, SetAll
<1>5. ASSUME NEW r \in Replica, NEW took \in BOOLEAN, NEW ok \in BOOLEAN,
             TruncateReplica(h, r, took, ok)
      PROVE  HTypes'
  <2> DEFINE y == [x EXCEPT !.todo = @ \ {r}, !.ok = @ /\ ok]
  <2>1. /\ x.pc = "truncating" /\ Set(h, y)
        /\ UNCHANGED fails \/ (Outcome(ok) /\ Counted(ok))
        /\ content' = IF took THEN [content EXCEPT ![r[1]][r[2]] = Resize(BytesAt(r), x.arg)]
                      ELSE content
        /\ UNCHANGED <<writes, acked, failed>>
    BY <1>5 DEF TruncateReplica, x
  <2>2. y \in HandleSet /\ Progress(y)
    BY <1>0, <2>1, AnswerTypes DEF x
  <2>3. BytesAt(r) \in Bytes
    BY <1>0, HConsts, StoreTypes
  <2>4. Resize(BytesAt(r), x.arg) \in Bytes
    BY <1>0, <2>3, ResizeFacts
  <2>5. content' \in [Addr -> [Entry -> Bytes \cup {Absent}]]
    BY <1>0, <1>1, <2>1, <2>4, StoreTypes
  <2>6. fails' \in 0..MaxFails
    BY <1>0, <2>1, FailTypes
  <2> HIDE DEF y
  <2> QED
    BY <1>0, <1>1, <2>1, <2>2, <2>5, <2>6, SetAll
<1>6. ASSUME x.on \in Entry
      PROVE  /\ Write(acked[x.on], x.arg, x.ver) \in Bytes /\ Resize(acked[x.on], x.arg) \in Bytes
             /\ [acked EXCEPT ![x.on] = Write(@, x.arg, x.ver)] \in [Entry -> Bytes]
             /\ [acked EXCEPT ![x.on] = Resize(@, x.arg)] \in [Entry -> Bytes]
  <2>1. acked[x.on] \in Bytes
    BY <1>1, <1>6
  <2>2. Write(acked[x.on], x.arg, x.ver) \in Bytes /\ Resize(acked[x.on], x.arg) \in Bytes
    BY <1>0, <2>1, WriteFacts, ResizeFacts
  <2> QED
    BY <1>0, <1>6, <2>2, AckTypes
<1>7. ASSUME x.id \in Entry
      PROVE  Back(x) \in HandleSet /\ Progress(Back(x))
  BY <1>0, <1>7, BackFacts DEF Progress
<1>8. ASSUME WriteAnswered(h) PROVE HTypes'
  <2> DEFINE y == [x EXCEPT !.pc = "sizing", !.size = x.arg]
  <2>1. /\ x.pc = "writing"
        /\ \/ Set(h, y) \/ Set(h, Back(x))
        /\ \/ acked' = [acked EXCEPT ![x.on] = Write(@, x.arg, x.ver)] \/ acked' = acked
        /\ \/ failed' = failed \cup {<<x.on, "write">>} \/ failed' = failed
        /\ UNCHANGED <<content, writes, fails>>
    BY <1>8 DEF WriteAnswered, x
  <2>2. x.id \in Entry /\ x.on \in Entry
    BY <1>0, <2>1 DEF Progress
  <2>3. y \in HandleSet
    BY <1>0 DEF HandleSet, Points
  <2>4. /\ y.pc = "sizing" /\ y.id = x.id /\ y.on = x.on /\ y.n = x.n /\ y.buf = x.buf
        /\ y.replicas = x.replicas
    BY <1>0 DEF HandleSet
  <2> HIDE DEF y
  <2>5. Progress(y)
    BY <1>0, <2>1, <2>2, <2>4 DEF Progress
  <2>6. acked' \in [Entry -> Bytes]
    BY <1>1, <1>6, <2>1, <2>2
  <2>7. failed' \subseteq Entry \X {"write", "truncate", "size"}
    BY <1>0, <1>1, <2>1, <2>2, MarkTypes
  <2> QED
    BY <1>0, <1>1, <1>7, <2>1, <2>2, <2>3, <2>5, <2>6, <2>7, SetAll
<1>9. ASSUME TruncateAnswered(h) PROVE HTypes'
  <2> DEFINE y == [x EXCEPT !.pc = "sizing"]
  <2>1. /\ x.pc = "truncating" /\ UNCHANGED <<content, writes, fails, acked>>
        /\ \/ Set(h, y) \/ Set(h, ClosedHandle) \/ (x.op # "open" /\ Set(h, Back(x)))
        /\ \/ failed' = failed \cup {<<x.on, "truncate">>} \/ failed' = failed
    <3>1. x.ok \in BOOLEAN
      BY <1>0 DEF HandleSet
    <3> QED
      BY <1>9, <3>1 DEF TruncateAnswered, x
  <2>2. (x.op # "open" => x.id \in Entry) /\ x.on \in Entry
    BY <1>0, <2>1 DEF Progress
  <2>3. y \in HandleSet
    BY <1>0 DEF HandleSet, Points
  <2>4. /\ y.pc = "sizing" /\ y.id = x.id /\ y.on = x.on /\ y.n = x.n /\ y.buf = x.buf
        /\ y.replicas = x.replicas /\ y.op = x.op
    BY <1>0 DEF HandleSet
  <2> HIDE DEF y
  <2>5. Progress(y)
    BY <1>0, <2>1, <2>2, <2>4 DEF Progress
  <2>7. failed' \subseteq Entry \X {"write", "truncate", "size"}
    BY <1>0, <1>1, <2>1, <2>2, MarkTypes
  <2> QED
    BY <1>0, <1>1, <1>7, <2>1, <2>2, <2>3, <2>5, <2>7, ClosedFacts, SetAll
<1>10. ASSUME NEW took \in BOOLEAN, NEW ok \in BOOLEAN, updateSize(h, took, ok)
       PROVE  fails' \in 0..MaxFails /\ x.pc = "sizing" /\ x.on \in Entry
  <2>1. UNCHANGED fails \/ (Outcome(ok) /\ Counted(ok))
    BY <1>10 DEF updateSize
  <2>2. x.pc = "sizing"
    BY <1>10 DEF updateSize, x
  <2> QED
    BY <1>0, <2>1, <2>2, FailTypes DEF Progress
<1>11. ASSUME NEW took \in BOOLEAN, NEW ok \in BOOLEAN, WriteReturns(h, took, ok) PROVE HTypes'
  <2>1. /\ x.op = "write" /\ updateSize(h, took, ok) /\ Set(h, Back(x))
        /\ acked' = [acked EXCEPT ![x.on] = Write(@, x.arg, x.ver)]
        /\ \/ failed' = failed \cup {<<x.on, "size">>} \/ failed' = failed
        /\ UNCHANGED <<content, writes>>
    BY <1>11 DEF WriteReturns, x
  <2>2. fails' \in 0..MaxFails /\ x.pc = "sizing" /\ x.on \in Entry
    BY <1>10, <2>1
  <2>3. x.id \in Entry
    BY <1>0, <2>1, <2>2 DEF Progress
  <2>4. failed' \subseteq Entry \X {"write", "truncate", "size"}
    BY <1>0, <1>1, <2>1, <2>2, MarkTypes
  <2> QED
    BY <1>0, <1>1, <1>6, <1>7, <2>1, <2>2, <2>3, <2>4, SetAll
<1>12. ASSUME NEW took \in BOOLEAN, NEW ok \in BOOLEAN, TruncateReturns(h, took, ok) PROVE HTypes'
  <2> DEFINE y == [Back(x) EXCEPT !.pc = "locate", !.op = "open"]
             z == [Back(x) EXCEPT !.size = x.arg]
  <2>1. /\ updateSize(h, took, ok)
        /\ \/ Set(h, y) \/ (x.op # "open" /\ Set(h, z))
           \/ Set(h, ClosedHandle) \/ (x.op # "open" /\ Set(h, Back(x)))
    BY <1>12 DEF TruncateReturns, x
  <2>9. /\ \/ acked' = [acked EXCEPT ![x.on] = Resize(@, x.arg)] \/ acked' = acked
        /\ \/ failed' = failed \cup {<<x.on, "truncate">>}
           \/ failed' = {m \in failed : m[1] # x.on} \/ failed' = failed
        /\ UNCHANGED <<content, writes>>
    BY <1>12 DEF TruncateReturns, x
  <2>2. fails' \in 0..MaxFails /\ x.pc = "sizing" /\ x.on \in Entry
    BY <1>10, <2>1
  <2>3. x.op # "open" => x.id \in Entry
    BY <1>0, <2>2 DEF Progress
  <2>4. failed' \subseteq Entry \X {"write", "truncate", "size"}
    <3>1. CASE failed' = failed \cup {<<x.on, "truncate">>}
      BY <1>0, <2>2, <3>1, MarkTypes
    <3> QED
      BY <1>1, <2>9, <3>1
  <2>5. y \in HandleSet /\ Progress(y)
    <3>1. <<>> \in Seq(Int) /\ 0 \in Nat /\ 0 \in 0..MaxWrites
      BY HConsts
    <3>2. Back(x) \in HandleSet
      BY <1>0, <3>1, HConsts DEF Back, HandleSet, Points, Calls
    <3>3. /\ Back(x).replicas = x.replicas /\ Back(x).n = 0 /\ Back(x).buf = <<>>
      BY <1>0 DEF Back, HandleSet
    <3>4. y \in HandleSet /\ y.pc = "locate" /\ y.replicas = x.replicas /\ y.n = 0 /\ y.buf = <<>>
      <4>1. PICK b \in HandleSet : b = Back(x)
        BY <3>2
      <4>2. y = [b EXCEPT !.pc = "locate", !.op = "open"]
        BY <4>1
      <4>3. b.replicas = x.replicas /\ b.n = 0 /\ b.buf = <<>>
        BY <3>3, <4>1
      <4> HIDE DEF y
      <4>4. y \in HandleSet
        BY <4>2 DEF HandleSet, Points, Calls
      <4>5. y.pc = "locate" /\ y.replicas = b.replicas /\ y.n = b.n /\ y.buf = b.buf
        BY <4>2 DEF HandleSet
      <4> QED
        BY <4>3, <4>4, <4>5
    <3> HIDE DEF y
    <3> QED
      BY <1>0, <3>4, HConsts DEF Progress
  <2>6. x.op # "open" => z \in HandleSet /\ Progress(z)
    <3>1. SUFFICES ASSUME x.op # "open" PROVE z \in HandleSet /\ Progress(z)
      OBVIOUS
    <3>2. Back(x) \in HandleSet /\ Progress(Back(x))
      BY <1>7, <2>3, <3>1
    <3> DEFINE b == Back(x)
    <3>3. /\ z \in HandleSet /\ z.pc = b.pc /\ z.op = b.op /\ z.id = b.id /\ z.on = b.on
          /\ z.replicas = b.replicas /\ z.n = b.n /\ z.buf = b.buf /\ z.todo = b.todo
      BY <1>0, <3>2 DEF HandleSet
    <3> HIDE DEF z, b
    <3> QED
      BY <3>2, <3>3 DEF Progress, b
  <2>7. acked' \in [Entry -> Bytes]
    BY <1>1, <1>6, <2>2, <2>9
  <2> HIDE DEF y, z
  <2> QED
    BY <1>0, <1>1, <1>7, <2>1, <2>2, <2>3, <2>4, <2>5, <2>6, <2>7, <2>9, ClosedFacts, SetAll
<1> QED
  BY <1>2, <1>3, <1>4, <1>5, <1>8, <1>9, <1>11, <1>12 DEF UpdateStep

LEMMA ReadTypes ==
  ASSUME HBase, NEW h \in Handle, ReadStep(h)
  PROVE  HTypes'
<1> DEFINE x == handle[h]
<1>0. /\ IInv /\ FlatFiles /\ HTypes /\ x \in HandleSet /\ Progress(x) /\ x.arg \in 0..MaxBytes
      /\ x.buf \in Seq(Int) /\ x.n \in Nat
  BY DEF HBase, HTypes, HandleSet
<1>1. fails \in 0..MaxFails /\ acked \in [Entry -> Bytes]
  BY <1>0 DEF HTypes
<1> HIDE DEF x
<1>2. ASSUME NEW range \in Reads, ReadAt(h, range[1], range[2]) PROVE HTypes'
  <2> DEFINE off == range[1]
             len == range[2]
             new == [j \in 1..len |-> Unread]
             segs == Segments(Cardinality(x.replicas), len)
             y == [x EXCEPT !.pc = "reading", !.arg = off, !.todo = segs,
                     !.buf = new, !.floor = acked[x.id]]
  <2>1. /\ x.pc = "open" /\ x.replicas # {} /\ Set(h, y)
        /\ UNCHANGED <<content, writes, fails, acked, failed>>
    BY <1>2 DEF ReadAt, x
  <2>2. off \in 0..MaxBytes /\ len \in 1..MaxBytes /\ len \in Nat \ {0} /\ len <= MaxBytes
    BY HandlesAssumption, HConsts
  <2>3. x.id \in Entry /\ IsFiniteSet(x.replicas) /\ x.n <= Len(x.buf)
    BY <1>0, <2>1 DEF Progress
  <2>4. Cardinality(x.replicas) \in Nat \ {0}
    BY <2>1, <2>3, FS_EmptySet, FS_CardinalityType
  <2>5. segs \in SUBSET (Replica \cup (Int \X Int))
    <3>1. \A a \in segs : a \in Nat \X Nat
      BY <2>2, <2>4, SegmentsFacts
    <3> QED
      BY <3>1
  <2>6. new \in Seq(Int) /\ Len(new) = len
    BY <2>2 DEF Unread
  <2>7. acked[x.id] \in Bytes
    BY <1>1, <2>3
  <2> HIDE DEF new, segs
  <2>8. y \in HandleSet
    BY <1>0, <2>2, <2>5, <2>6, <2>7 DEF HandleSet, Points
  <2>9. /\ y.pc = "reading" /\ y.id = x.id /\ y.on = x.on /\ y.n = x.n /\ y.buf = new
        /\ y.replicas = x.replicas /\ y.todo = segs
    BY <1>0 DEF HandleSet
  <2>10. x.n = 0
    BY <1>0, <2>1 DEF Progress
  <2> HIDE DEF y
  <2>11. Progress(y)
    <3>1. IsFiniteSet(Filled(len, segs)) /\ Cardinality(Filled(len, segs)) \in Nat
      BY <2>2, FilledBound
    <3> QED
      BY <2>1, <2>2, <2>3, <2>6, <2>9, <2>10, <3>1 DEF Progress, segs
  <2> QED
    BY <1>0, <1>1, <2>1, <2>8, <2>11, SetOnly
<1>3. ASSUME NEW seg \in handle[h].todo, NEW r \in Replica, RangeRead(h, seg, r) PROVE HTypes'
  <2> DEFINE s == BytesAt(r)
             m == Len(s) - x.arg
             last == IF seg[2] < m THEN seg[2] ELSE m
             got == IF 0 < last - seg[1] + 1 THEN last - seg[1] + 1 ELSE 0
             new == [j \in DOMAIN x.buf |-> IF j \in seg[1]..last THEN s[x.arg + j] ELSE x.buf[j]]
             y == [x EXCEPT !.todo = @ \ {seg}, !.n = @ + got, !.buf = new]
             len == Len(x.buf)
  <2>1. /\ x.pc = "reading" /\ seg \in x.todo /\ Set(h, y)
        /\ UNCHANGED <<content, writes, fails, acked, failed>>
    BY <1>3 DEF RangeRead, x, Smaller, Larger
  <2>2. /\ x.id \in Entry /\ IsFiniteSet(x.replicas) /\ x.n <= len /\ x.replicas # {}
        /\ x.todo \subseteq Segments(Cardinality(x.replicas), len) /\ len > 0 /\ len <= MaxBytes
        /\ x.n <= Cardinality(Filled(len, x.todo))
    BY <1>0, <2>1 DEF Progress
  <2>3. Cardinality(x.replicas) \in Nat \ {0} /\ len \in Nat \ {0}
    BY <1>0, <2>2, FS_EmptySet, FS_CardinalityType
  <2>4. seg[1] \in Nat /\ seg[2] \in Nat /\ seg[1] >= 1 /\ seg[2] <= len /\ seg[1] <= seg[2]
    <3>1. seg \in Segments(Cardinality(x.replicas), len)
      BY <2>1, <2>2
    <3>2. seg \in Nat \X Nat /\ seg[1] >= 1 /\ seg[2] <= len /\ seg[1] <= seg[2]
      BY <2>3, <3>1, SegmentsFacts
    <3> QED
      BY <3>2
  <2>5. s \in Bytes
    BY <1>0, HConsts, StoreTypes
  <2>6. Len(s) \in Nat /\ \A i \in 1..Len(s) : s[i] \in Int
    BY <2>5, BytesFacts
  <2>7. last \in Int /\ last <= seg[2] /\ last <= m /\ m \in Int /\ m = Len(s) - x.arg
    BY <1>0, <2>4, <2>6, SMTT(60)
  <2> HIDE DEF s, last, m
  <2>8. got \in Nat /\ got <= seg[2] - seg[1] + 1
    BY <2>4, <2>7
  <2>9. \A j \in seg[1]..last : x.arg + j \in 1..Len(s)
    <3>1. x.arg \in Nat
      BY <1>0
    <3>2. last <= Len(s) - x.arg
      BY <2>7
    <3> QED
      BY <2>4, <2>6, <2>7, <3>1, <3>2, InFile
  <2> HIDE DEF got
  <2>10. DOMAIN x.buf = 1..len /\ \A j \in 1..len : x.buf[j] \in Int
    BY <1>0
  <2>11. new \in [1..len -> Int]
    BY <2>6, <2>9, <2>10
  <2> HIDE DEF new
  <2>12. new \in Seq(Int) /\ Len(new) = len
    BY <2>3, <2>11
  <2>13. x.todo \ {seg} \in SUBSET (Replica \cup (Int \X Int)) /\ x.n + got \in Nat
    BY <1>0, <2>8 DEF HandleSet
  <2>14. y = [x EXCEPT !.todo = x.todo \ {seg}, !.n = x.n + got, !.buf = new]
    OBVIOUS
  <2>15. y \in HandleSet
    BY <1>0, <2>12, <2>13, <2>14 DEF HandleSet
  <2>16. /\ y.pc = "reading" /\ y.id = x.id /\ y.on = x.on /\ y.n = x.n + got /\ y.buf = new
         /\ y.replicas = x.replicas /\ y.todo = x.todo \ {seg}
    BY <1>0, <2>1 DEF HandleSet
  <2> HIDE DEF y
  <2> DEFINE F == Filled(len, x.todo)
             G == Filled(len, x.todo \ {seg})
  <2>17. Cardinality(F) \in Nat /\ Cardinality(G) = Cardinality(F) + (seg[2] - seg[1] + 1)
    <3>1. x.todo \in SUBSET Segments(Cardinality(x.replicas), len)
      BY <2>2
    <3> HIDE DEF len
    <3> QED
      BY <2>1, <2>3, <3>1, FilledAll
  <2>18. Cardinality(G) \in Nat /\ Cardinality(G) <= len
    BY <2>3, FilledBound
  <2> HIDE DEF F, G
  <2>19. y.n <= Cardinality(G) /\ y.n <= len
    <3>1. /\ y.n = x.n + got /\ x.n \in Nat /\ got \in Nat /\ x.n <= Cardinality(F)
          /\ Cardinality(F) \in Nat /\ seg[1] \in Nat /\ seg[2] \in Nat
          /\ Cardinality(G) = Cardinality(F) + (seg[2] - seg[1] + 1)
          /\ got <= seg[2] - seg[1] + 1 /\ Cardinality(G) \in Nat /\ Cardinality(G) <= len
      BY <1>0, <2>2, <2>4, <2>8, <2>16, <2>17, <2>18 DEF F
    <3>2. y.n <= Cardinality(G)
      BY <3>1
    <3> QED
      BY <2>3, <3>1, <3>2
  <2>20. y.todo \subseteq Segments(Cardinality(x.replicas), len)
    BY <2>2, <2>16
  <2>21. Progress(y)
    BY <2>2, <2>12, <2>16, <2>19, <2>20 DEF Progress, G
  <2> QED
    BY <1>0, <1>1, <2>1, <2>15, <2>21, SetOnly
<1>4. ASSUME ReadReturns(h) PROVE HTypes'
  <2>1. x.pc = "reading" /\ Set(h, Back(x)) /\ UNCHANGED <<content, writes, fails, acked, failed>>
    BY <1>4 DEF ReadReturns, x
  <2>2. x.id \in Entry /\ IsFiniteSet(x.replicas)
    BY <1>0, <2>1 DEF Progress
  <2> QED
    BY <1>0, <1>1, <2>1, <2>2, BackFacts, SetOnly
<1>5. ASSUME NEW p \in Path, GetLocation(h, p) PROVE HTypes'
  <2> DEFINE e == lookup(p)
  <2>1. /\ IsFile(e) /\ UNCHANGED <<content, writes, fails, acked, failed>>
        /\ \E c \in {"got", "getting"} :
             Set(h, [ClosedHandle EXCEPT !.pc = c, !.path = p, !.id = fileID[e],
                       !.replicas = replicas[e], !.status = status[e],
                       !.floor = acked[fileID[e]]])
    BY <1>5 DEF GetLocation
  <2>2. /\ fileID[e] \in Entry /\ replicas[e] \in SUBSET Replica /\ IsFiniteSet(replicas[e])
        /\ status[e] \in Status
    BY <1>0, <2>1, FileFacts, ReplicasOf
  <2>3. acked[fileID[e]] \in Bytes
    BY <1>1, <2>2
  <2>4. PICK c \in {"got", "getting"} :
             Set(h, [ClosedHandle EXCEPT !.pc = c, !.path = p, !.id = fileID[e],
                       !.replicas = replicas[e], !.status = status[e],
                       !.floor = acked[fileID[e]]])
    BY <2>1
  <2> DEFINE y == [ClosedHandle EXCEPT !.pc = c, !.path = p, !.id = fileID[e],
                     !.replicas = replicas[e], !.status = status[e], !.floor = acked[fileID[e]]]
  <2>5. y \in HandleSet
    BY <2>2, <2>3, ClosedFacts DEF HandleSet, Points
  <2>6. y.pc = c /\ y.replicas = replicas[e] /\ y.n = 0 /\ y.buf = <<>>
    BY DEF ClosedHandle
  <2> HIDE DEF y
  <2>7. Progress(y)
    BY <2>2, <2>6, HConsts DEF Progress
  <2> QED
    BY <1>0, <1>1, <2>1, <2>4, <2>5, <2>7, SetOnly DEF y
<1>6. ASSUME NEW r \in Replica, GetData(h, r) PROVE HTypes'
  <2> DEFINE s == content[r[1]][r[2]]
             y == [x EXCEPT !.pc = "got", !.buf = s, !.n = Len(s)]
  <2>1. /\ s # Absent /\ UNCHANGED <<content, writes, fails, acked, failed>>
        /\ Set(h, ClosedHandle) \/ Set(h, y)
    BY <1>6 DEF GetData, x
  <2>2. s \in Bytes
    <3>1. r[1] \in Addr /\ r[2] \in Entry
      BY DEF Replica
    <3> QED
      BY <1>0, <2>1, <3>1 DEF HTypes
  <2>3. s \in Seq(Int) /\ Len(s) \in Nat /\ Len(s) <= MaxBytes
    <3>1. s \in [1..Len(s) -> Nat] /\ Len(s) \in Nat
      BY <2>2, BytesFacts
    <3> HIDE DEF s
    <3>2. s \in [1..Len(s) -> Int]
      BY <3>1
    <3>3. s \in Seq(Int)
      BY <3>1, <3>2, SeqDef
    <3> QED
      BY <2>2, <3>1, <3>3 DEF Bytes
  <2> HIDE DEF s
  <2>4. y \in HandleSet
    BY <1>0, <2>3 DEF HandleSet, Points
  <2>5. y.pc = "got" /\ y.replicas = x.replicas /\ y.n = Len(s) /\ y.buf = s
    BY <1>0 DEF HandleSet
  <2> HIDE DEF y
  <2>6. Progress(y)
    BY <1>0, <2>3, <2>5 DEF Progress
  <2>7. CASE Set(h, y)
    BY <1>0, <1>1, <2>1, <2>4, <2>6, <2>7, SetOnly
  <2>8. CASE Set(h, ClosedHandle)
    BY <1>0, <1>1, <2>1, <2>8, ClosedFacts, SetOnly
  <2> QED
    BY <2>1, <2>7, <2>8
<1>7. ASSUME GetReturns(h) PROVE HTypes'
  BY <1>0, <1>1, <1>7, ClosedFacts, SetOnly DEF GetReturns
<1> QED
  BY <1>2, <1>3, <1>4, <1>5, <1>6, <1>7 DEF ReadStep

LEMMA OtherTypes ==
  ASSUME HBase, \/ \E h \in Handle : Close(h) \/ Stop(h)
                \/ \E p \in Path : Repairs(p)
                \/ \E src, dst \in Path : Rename(src, dst)
                \/ UNCHANGED hvars
  PROVE  HTypes'
<1>0. HTypes /\ fails \in 0..MaxFails
  BY DEF HBase, HTypes
<1>1. ASSUME NEW h \in Handle, Close(h) PROVE HTypes'
  BY <1>0, <1>1, ClosedFacts, SetOnly DEF Close
<1>2. ASSUME NEW h \in Handle, Stop(h) PROVE HTypes'
  <2>1. /\ Set(h, ClosedHandle) /\ UNCHANGED <<content, writes, acked>>
        /\ Outcome(FALSE) /\ Counted(FALSE)
        /\ \/ failed' = failed
           \/ /\ handle[h].on # Nil
              /\ \E op \in {"write", "truncate"} : failed' = failed \cup {<<handle[h].on, op>>}
    BY <1>2 DEF Stop
  <2>2. handle[h].on # Nil => handle[h].on \in Entry
    BY <1>0 DEF HTypes, HandleSet
  <2>3. failed' \subseteq Entry \X {"write", "truncate", "size"}
    <3>1. CASE failed' = failed
      BY <1>0, <3>1 DEF HTypes
    <3> QED
      BY <1>0, <2>1, <2>2, <3>1, MarkTypes
  <2>4. fails' \in 0..MaxFails
    BY <1>0, <2>1, FailTypes
  <2>5. /\ content' \in [Addr -> [Entry -> Bytes \cup {Absent}]]
        /\ acked' \in [Entry -> Bytes] /\ writes' \in 0..MaxWrites
    BY <1>0, <2>1 DEF HTypes
  <2> QED
    BY <1>0, <2>1, <2>3, <2>4, <2>5, ClosedFacts, SetAll
<1>3. ASSUME UNCHANGED <<content, handle, writes, acked, failed>>, fails' \in 0..MaxFails
      PROVE  HTypes'
  BY <1>0, <1>3 DEF HTypes
<1>4. ASSUME NEW p \in Path, Repairs(p) PROVE HTypes'
  <2>1. UNCHANGED fails \/ (Outcome(FALSE) /\ Counted(FALSE))
    BY <1>4 DEF Repairs
  <2>2. fails' \in 0..MaxFails
    BY <1>0, <2>1, FailTypes
  <2> QED
    BY <1>3, <1>4, <2>2 DEF Repairs
<1>5. ASSUME NEW src \in Path, NEW dst \in Path, Rename(src, dst) PROVE HTypes'
  BY <1>0, <1>3, <1>5 DEF Rename
<1>6. ASSUME UNCHANGED hvars PROVE HTypes'
  BY <1>0, <1>3, <1>6 DEF hvars
<1> QED
  BY <1>1, <1>2, <1>4, <1>5, <1>6

LEMMA HInitBase == HInit => HBase
<1> SUFFICES ASSUME HInit PROVE HBase
  OBVIOUS
<1>1. IInv
  BY InitIInv DEF HInit
<1>2. FlatFiles
  BY HConsts, NamespaceAssumption DEF HInit, Init, FlatFiles
<1>3. HTypes
  BY HConsts, ClosedFacts DEF HInit, HTypes
<1> QED
  BY <1>1, <1>2, <1>3 DEF HBase

LEMMA HNextBase == HBase /\ [HNext]_hvars => HBase'
<1> SUFFICES ASSUME HBase, [HNext]_hvars PROVE HBase'
  OBVIOUS
<1>1. IInv' /\ FlatFiles'
  <2>1. IInv /\ FlatFiles /\ HTypes
    BY DEF HBase
  <2>2. TreeMove
    BY <2>1, TreeSteps DEF TreeMove, Rename
  <2> QED
    BY <2>1, <2>2, TreeStays
<1>2. HTypes'
  <2>1. ASSUME NEW h \in Handle, OpenStep(h) \/ UpdateStep(h) \/ ReadStep(h) \/ Close(h) \/ Stop(h)
        PROVE  HTypes'
    BY <2>1, OpenTypes, UpdateTypes, ReadTypes, OtherTypes
  <2>2. CASE ~\E h \in Handle :
               OpenStep(h) \/ UpdateStep(h) \/ ReadStep(h) \/ Close(h) \/ Stop(h)
    BY <2>2, OtherTypes DEF HNext
  <2> QED
    BY <2>1, <2>2
<1> QED
  BY <1>1, <1>2 DEF HBase

LEMMA HBaseHolds == HSpec => []HBase
  BY HInitBase, HNextBase, PTL DEF HSpec

\* Whatever calls fail and however they interleave, the tree keeps its types,
\* no replica and no acknowledged content is longer than the longest write or
\* truncation asked for, and ReadAt never counts more bytes than its buffer
\* has, though the answers to its segments come one by one.
THEOREM HandlesTypeCorrect == HSpec => []HTypeOK
<1>1. HBase => HTypeOK
  <2> SUFFICES ASSUME HBase PROVE HTypeOK
    OBVIOUS
  <2>0. TypeOK /\ HTypes
    BY DEF HBase, IInv
  <2>1. ASSUME NEW s \in Bytes PROVE IsBytes(s)
    BY DEF Bytes, IsBytes
  <2>2. \A n \in Addr, f \in Entry : content[n][f] = Absent \/ IsBytes(content[n][f])
    BY <2>0, <2>1 DEF HTypes
  <2>3. \A f \in Entry : IsBytes(acked[f])
    BY <2>0, <2>1 DEF HTypes
  <2>4. ASSUME NEW h \in Handle
        PROVE  LET x == handle[h] IN
               /\ x.pc \in {"closed", "create", "located", "locate", "open", "writing",
                            "truncating", "sizing", "reading", "getting", "got"}
               /\ x.op \in {"none", "open", "write", "truncate"}
               /\ x.path \in Path /\ {x.id, x.on} \subseteq Entry \cup {Nil}
               /\ x.replicas \subseteq Replica /\ x.size \in 0..MaxBytes
               /\ x.arg \in 0..MaxBytes /\ x.ver \in 0..MaxWrites
               /\ x.n \in 0..Len(x.buf) /\ Len(x.buf) <= MaxBytes
    <3>1. handle[h] \in HandleSet /\ Progress(handle[h])
      BY <2>0 DEF HTypes
    <3>2. /\ handle[h].n \in Nat /\ Len(handle[h].buf) \in Nat
          /\ handle[h].n <= Len(handle[h].buf) /\ Len(handle[h].buf) <= MaxBytes
      BY <3>1 DEF HandleSet, Progress
    <3>3. handle[h].n \in 0..Len(handle[h].buf)
      BY <3>2
    <3> QED
      BY <3>1, <3>2, <3>3 DEF HandleSet, Points, Calls
  <2> QED
    BY <2>0, <2>2, <2>3, <2>4 DEF HTypeOK, HTypes
<1> QED
  BY <1>1, HBaseHolds, PTL
=============================================================================
