------------------------- MODULE Notification_proofs -------------------------
(***************************************************************************)
(* Proofs about how a notification goes out and is remembered: the engine  *)
(* that sends it (NotificationEngine) and the channel writers its history  *)
(* rows go through (ChannelWriter).                                        *)
(***************************************************************************)
EXTENDS ChannelWriter, NotificationEngine, SequenceTheorems, FiniteSetTheorems, TLAPS

-----------------------------------------------------------------------------
(***************************************************************************)
(* Proofs about ChannelWriter, for any writers, capacity, chunk and batch  *)
(* sizes and number of rows.  The argument: table, batch in progress and   *)
(* channel of a writer, read one after the other, list rows in the order   *)
(* in which they were offered, and what was offered before a fence is in   *)
(* front of it.                                                            *)
(***************************************************************************)

Sorted(s) == \A i, j \in 1 .. Len(s) : i < j => s[i] < s[j]
Below(s, t) == \A i \in 1 .. Len(s), j \in 1 .. Len(t) : s[i] < t[j]
Within(s, n) == \A i \in 1 .. Len(s) : s[i] <= n
Beyond(s, n) == \A i \in 1 .. Len(s) : s[i] > n

\* Of what the worker has and what waits, q, with n rows offered.
Ordered(tab, ins, q, n) ==
  /\ Sorted(tab) /\ Sorted(ins) /\ Below(tab, ins) /\ Within(tab, n) /\ Within(ins, n)
  /\ \A k \in 1 .. Len(q) :
       /\ Sorted(q[k]) /\ Within(q[k], n) /\ Below(tab, q[k]) /\ Below(ins, q[k])
       /\ \A l \in 1 .. Len(q) : k < l => Below(q[k], q[l])

\* x is in one of the batches of q.
Waits(x, q) == \E k \in 1 .. Len(q) : x \in ToSet(q[k])

\* No row is lost without a warning.
Accounted(w) ==
  \A x \in 1 .. offered[w] :
    x \in ToSet(inserting[w]) \cup ToSet(table[w]) \cup refused[w] \cup failed[w] \/ Waits(x, queue[w])

\* Behind a fence are rows that were offered after it.
Fenced(w) ==
  /\ before[w] <= offered[w]
  /\ \A k \in 1 .. Len(queue[w]) : queue[w][k] = Fence =>
       /\ w \in pending /\ w \notin acked
       /\ \A l \in 1 .. Len(queue[w]) : k < l => Beyond(queue[w][l], before[w]) /\ queue[w][l] # Fence
  /\ w \in acked => /\ Beyond(inserting[w], before[w])
                    /\ \A k \in 1 .. Len(queue[w]) : Beyond(queue[w][k], before[w])

Warned(w) == refused[w] \cup failed[w] \subseteq 1 .. offered[w]

WriterOK(w) ==
  /\ Ordered(table[w], inserting[w], queue[w], offered[w])
  /\ Accounted(w) /\ Fenced(w) /\ Warned(w)

WriterInvariant == TypeOK /\ \A w \in Writers : WriterOK(w)

-----------------------------------------------------------------------------
(* Sequences of rows.                                                      *)

LEMMA EmptyRows ==
  /\ <<>> \in Seq(Row) /\ Sorted(<<>>) /\ ToSet(<<>>) = {}
  /\ \A n : Within(<<>>, n) /\ Beyond(<<>>, n)
  /\ \A s : Below(<<>>, s) /\ Below(s, <<>>)
  BY DEF Sorted, Within, Beyond, Below, ToSet

LEMMA RowsAre ==
  ASSUME NEW s \in Seq(Row)
  PROVE  /\ Len(s) \in Nat /\ DOMAIN s = 1 .. Len(s)
         /\ \A i \in 1 .. Len(s) : s[i] \in Nat /\ s[i] >= 1 /\ s[i] \in Row
  BY WriterAssumption DEF WriterAssumption, Row

\* The chunk and the rest of a batch, in order.
LEMMA ChunkAndRest ==
  ASSUME NEW s \in Seq(Row), s # <<>>
  PROVE  \E m \in 1 .. Len(s) :
           /\ Chunk(s) \in Seq(Row) /\ Len(Chunk(s)) = m
           /\ Rest(s) \in Seq(Row) /\ Len(Rest(s)) = Len(s) - m
           /\ \A i \in 1 .. m : Chunk(s)[i] = s[i]
           /\ \A i \in 1 .. Len(s) - m : Rest(s)[i] = s[m + i] /\ m + i \in 1 .. Len(s)
<1> DEFINE m == IF Len(s) < ChunkSize THEN Len(s) ELSE ChunkSize
<1>1. m \in 1 .. Len(s) /\ Len(s) \in Nat
  BY WriterAssumption DEF WriterAssumption
<1>2. Chunk(s) = SubSeq(s, 1, m)
  BY DEF Chunk
<1> HIDE DEF m
<1>3. Chunk(s) \in Seq(Row) /\ Len(Chunk(s)) = m /\ \A i \in 1 .. m : Chunk(s)[i] = s[i]
  BY <1>1, <1>2
<1>4. Rest(s) = SubSeq(s, m + 1, Len(s))
  BY <1>3 DEF Rest
<1>5. Rest(s) \in Seq(Row) /\ Len(Rest(s)) = Len(s) - m
      /\ \A i \in 1 .. Len(s) - m : Rest(s)[i] = s[m + i] /\ m + i \in 1 .. Len(s)
  BY <1>1, <1>4
<1> QED
  BY <1>1, <1>3, <1>5

\* What holds of a batch holds of its two parts, and one is before the other.
LEMMA PartsOfRows ==
  ASSUME NEW s \in Seq(Row), s # <<>>, Sorted(s)
  PROVE  /\ Chunk(s) \in Seq(Row) /\ Rest(s) \in Seq(Row)
         /\ Sorted(Chunk(s)) /\ Sorted(Rest(s)) /\ Below(Chunk(s), Rest(s))
         /\ \A n : Within(s, n) => Within(Chunk(s), n) /\ Within(Rest(s), n)
         /\ \A n : Beyond(s, n) => Beyond(Rest(s), n)
         /\ \A t : Below(s, t) => Below(Chunk(s), t) /\ Below(Rest(s), t)
         /\ \A t : Below(t, s) => Below(t, Chunk(s)) /\ Below(t, Rest(s))
         /\ ToSet(s) = ToSet(Chunk(s)) \cup ToSet(Rest(s))
<1> DEFINE c == Chunk(s)
           r == Rest(s)
<1>1. PICK m \in 1 .. Len(s) :
        /\ c \in Seq(Row) /\ Len(c) = m /\ r \in Seq(Row) /\ Len(r) = Len(s) - m
        /\ \A i \in 1 .. m : c[i] = s[i]
        /\ \A i \in 1 .. Len(s) - m : r[i] = s[m + i] /\ m + i \in 1 .. Len(s)
  BY ChunkAndRest
<1> HIDE DEF c, r
<1>2. Len(s) \in Nat /\ 1 .. m \subseteq 1 .. Len(s)
  OBVIOUS
<1>3. Sorted(c) /\ Sorted(r) /\ Below(c, r)
  <2>1. \A i, j \in 1 .. Len(s) : i < j => s[i] < s[j]
    BY DEF Sorted
  <2>2. Sorted(c)
    BY <1>1, <1>2, <2>1 DEF Sorted
  <2>3. ASSUME NEW i \in 1 .. Len(r), NEW j \in 1 .. Len(r), i < j PROVE r[i] < r[j]
    <3>1. m + i \in 1 .. Len(s) /\ m + j \in 1 .. Len(s) /\ m + i < m + j /\ r[i] = s[m + i] /\ r[j] = s[m + j]
      BY <1>1, <1>2, <2>3
    <3> QED
      BY <2>1, <3>1
  <2>4. ASSUME NEW i \in 1 .. Len(c), NEW j \in 1 .. Len(r) PROVE c[i] < r[j]
    <3>1. i \in 1 .. Len(s) /\ m + j \in 1 .. Len(s) /\ i < m + j /\ c[i] = s[i] /\ r[j] = s[m + j]
      BY <1>1, <1>2
    <3> QED
      BY <2>1, <3>1
  <2> QED
    BY <2>2, <2>3, <2>4 DEF Sorted, Below
<1>4. \A n : (Within(s, n) => Within(c, n) /\ Within(r, n)) /\ (Beyond(s, n) => Beyond(r, n))
  BY <1>1, <1>2 DEF Within, Beyond
<1>5. \A t : (Below(s, t) => Below(c, t) /\ Below(r, t)) /\ (Below(t, s) => Below(t, c) /\ Below(t, r))
  BY <1>1, <1>2 DEF Below
<1>6. ToSet(s) = ToSet(c) \cup ToSet(r)
  <2>1. DOMAIN s = 1 .. Len(s) /\ DOMAIN c = 1 .. m /\ DOMAIN r = 1 .. Len(s) - m
    BY <1>1, RowsAre
  <2>2. ToSet(c) \cup ToSet(r) \subseteq ToSet(s)
    <3>1. \A i \in DOMAIN c : i \in DOMAIN s /\ c[i] = s[i]
      BY <1>1, <1>2, <2>1
    <3>2. \A i \in DOMAIN r : m + i \in DOMAIN s /\ r[i] = s[m + i]
      BY <1>1, <1>2, <2>1
    <3> QED
      BY <3>1, <3>2 DEF ToSet
  <2>3. ASSUME NEW i \in 1 .. Len(s) PROVE s[i] \in ToSet(c) \cup ToSet(r)
    <3>1. CASE i <= m
      <4>1. i \in DOMAIN c /\ c[i] = s[i]
        BY <1>1, <1>2, <2>1, <3>1
      <4> QED
        BY <4>1 DEF ToSet
    <3>2. CASE i > m
      <4>1. i - m \in 1 .. Len(s) - m /\ m + (i - m) = i
        BY <1>2, <3>2
      <4>2. i - m \in DOMAIN r /\ r[i - m] = s[i]
        BY <1>1, <2>1, <4>1
      <4> QED
        BY <4>2 DEF ToSet
    <3> QED
      BY <1>2, <3>1, <3>2
  <2> QED
    BY <2>1, <2>2, <2>3 DEF ToSet
<1> QED
  BY <1>1, <1>3, <1>4, <1>5, <1>6 DEF c, r

\* Rows that are appended to those of the table.
LEMMA RowsAppended ==
  ASSUME NEW s \in Seq(Row), NEW t \in Seq(Row)
  PROVE  /\ s \o t \in Seq(Row)
         /\ Sorted(s) /\ Sorted(t) /\ Below(s, t) => Sorted(s \o t)
         /\ \A n : Within(s, n) /\ Within(t, n) => Within(s \o t, n)
         /\ \A u : Below(s, u) /\ Below(t, u) => Below(s \o t, u)
         /\ ToSet(s \o t) = ToSet(s) \cup ToSet(t)
<1> DEFINE a == s \o t
<1>1. a \in Seq(Row) /\ Len(a) = Len(s) + Len(t) /\ Len(s) \in Nat /\ Len(t) \in Nat
  OBVIOUS
<1>2. /\ \A i \in 1 .. Len(s) : a[i] = s[i] /\ i \in 1 .. Len(a)
      /\ \A i \in 1 .. Len(t) : a[Len(s) + i] = t[i] /\ Len(s) + i \in 1 .. Len(a)
  BY <1>1
<1>3. \A i \in 1 .. Len(a) :
        \/ i \in 1 .. Len(s) /\ a[i] = s[i]
        \/ i - Len(s) \in 1 .. Len(t) /\ a[i] = t[i - Len(s)]
  BY <1>1
<1> HIDE DEF a
<1>4. Sorted(s) /\ Sorted(t) /\ Below(s, t) => Sorted(a)
  <2> SUFFICES ASSUME Sorted(s), Sorted(t), Below(s, t), NEW i \in 1 .. Len(a), NEW j \in 1 .. Len(a), i < j
               PROVE  a[i] < a[j]
    BY DEF Sorted
  <2>1. CASE i \in 1 .. Len(s) /\ j \in 1 .. Len(s)
    BY <1>2, <2>1 DEF Sorted
  <2>2. CASE i \in 1 .. Len(s) /\ j - Len(s) \in 1 .. Len(t)
    <3>1. a[i] = s[i] /\ a[j] = t[j - Len(s)]
      BY <1>1, <1>2, <1>3, <2>2
    <3> QED
      BY <2>2, <3>1 DEF Below
  <2>3. CASE i - Len(s) \in 1 .. Len(t) /\ j - Len(s) \in 1 .. Len(t)
    <3>1. i - Len(s) < j - Len(s) /\ a[i] = t[i - Len(s)] /\ a[j] = t[j - Len(s)]
      BY <1>1, <1>3, <2>3
    <3> QED
      BY <2>3, <3>1 DEF Sorted
  <2> QED
    BY <1>1, <1>3, <2>1, <2>2, <2>3
<1>5. \A n : Within(s, n) /\ Within(t, n) => Within(a, n)
  BY <1>3 DEF Within
<1>6. \A u : Below(s, u) /\ Below(t, u) => Below(a, u)
  BY <1>3 DEF Below
<1>7. ToSet(a) = ToSet(s) \cup ToSet(t)
  <2>1. DOMAIN s = 1 .. Len(s) /\ DOMAIN t = 1 .. Len(t) /\ DOMAIN a = 1 .. Len(a)
    BY <1>1, RowsAre
  <2>2. ASSUME NEW x \in ToSet(a) PROVE x \in ToSet(s) \cup ToSet(t)
    <3>1. PICK i \in 1 .. Len(a) : x = a[i]
      BY <2>1 DEF ToSet
    <3> QED
      BY <1>3, <2>1, <3>1 DEF ToSet
  <2>3. ASSUME NEW x \in ToSet(s) PROVE x \in ToSet(a)
    <3>1. PICK i \in 1 .. Len(s) : x = s[i]
      BY <2>1 DEF ToSet
    <3>2. i \in 1 .. Len(a) /\ x = a[i]
      BY <1>2, <3>1
    <3> QED
      BY <2>1, <3>2 DEF ToSet
  <2>4. ASSUME NEW x \in ToSet(t) PROVE x \in ToSet(a)
    <3>1. PICK i \in 1 .. Len(t) : x = t[i]
      BY <2>1 DEF ToSet
    <3>2. Len(s) + i \in 1 .. Len(a) /\ x = a[Len(s) + i]
      BY <1>2, <3>1
    <3> QED
      BY <2>1, <3>2 DEF ToSet
  <2> QED
    BY <2>2, <2>3, <2>4
<1> QED
  BY <1>1, <1>4, <1>5, <1>6, <1>7 DEF a

\* A new batch comes after whatever was offered.
LEMMA NewBatch ==
  ASSUME NEW m \in Nat, NEW n \in Nat \ {0}, m + n <= MaxRows,
         NEW b, b = [i \in 1 .. n |-> m + i]
  PROVE  /\ b \in Seq(Row) /\ b # Fence /\ ToSet(b) = (m + 1) .. (m + n)
         /\ Sorted(b) /\ Within(b, m + n) /\ \A k \in 0 .. m : Beyond(b, k)
         /\ \A s \in Seq(Row) : Within(s, m) => Below(s, b)
<1>1. MaxRows \in Nat
  BY WriterAssumption DEF WriterAssumption
<1>2. \A i \in 1 .. n : b[i] = m + i /\ m + i \in Row
  BY <1>1 DEF Row
<1>3. b \in Seq(Row) /\ Len(b) = n /\ DOMAIN b = 1 .. n
  BY <1>2
<1>4. ToSet(b) = (m + 1) .. (m + n)
  <2>1. \A x \in (m + 1) .. (m + n) : x - m \in 1 .. n /\ m + (x - m) = x
    OBVIOUS
  <2>2. ASSUME NEW x \in (m + 1) .. (m + n) PROVE x \in ToSet(b)
    <3>1. x - m \in DOMAIN b /\ b[x - m] = x
      BY <1>2, <1>3, <2>1
    <3> QED
      BY <3>1 DEF ToSet
  <2>3. ToSet(b) \subseteq (m + 1) .. (m + n)
    BY <1>2, <1>3 DEF ToSet
  <2> QED
    BY <2>2, <2>3
<1>5. \A s \in Seq(Row) : Within(s, m) => Below(s, b)
  BY <1>2, <1>3, RowsAre DEF Within, Below
<1>6. Sorted(b) /\ Within(b, m + n) /\ \A k \in 0 .. m : Beyond(b, k)
  BY <1>2, <1>3 DEF Sorted, Within, Beyond
<1>7. b # Fence
  BY <1>3 DEF Fence
<1> QED
  BY <1>3, <1>4, <1>5, <1>6, <1>7

-----------------------------------------------------------------------------
(* What one writer's step leaves alone.                                    *)

LEMMA WriterInit == Init => WriterInvariant
<1> SUFFICES ASSUME Init PROVE WriterInvariant
  OBVIOUS
<1>1. MaxRows \in Nat /\ Capacity \in Nat \ {0}
  BY WriterAssumption DEF WriterAssumption
<1>2. TypeOK
  BY <1>1 DEF Init, TypeOK
<1>3. ASSUME NEW w \in Writers PROVE WriterOK(w)
  <2>1. /\ table[w] = <<>> /\ inserting[w] = <<>> /\ queue[w] = <<>> /\ Len(queue[w]) = 0
        /\ offered[w] = 0 /\ before[w] = 0 /\ refused[w] = {} /\ failed[w] = {} /\ acked = {}
    BY DEF Init
  <2> QED
    BY <2>1, EmptyRows DEF WriterOK, Ordered, Accounted, Fenced, Warned
<1> QED
  BY <1>2, <1>3 DEF WriterInvariant

LEMMA OtherWriter ==
  ASSUME NEW w \in Writers, WriterOK(w),
         offered'[w] = offered[w], queue'[w] = queue[w], inserting'[w] = inserting[w], table'[w] = table[w],
         refused'[w] = refused[w], failed'[w] = failed[w], before'[w] = before[w],
         w \in pending' <=> w \in pending, w \in acked' <=> w \in acked
  PROVE  WriterOK(w)'
  BY DEF WriterOK, Ordered, Accounted, Waits, Fenced, Warned

LEMMA QueueIs ==
  ASSUME TypeOK, NEW w \in Writers
  PROVE  /\ queue[w] \in Seq(Seq(Row)) /\ Len(queue[w]) \in Nat
         /\ \A k \in 1 .. Len(queue[w]) : queue[w][k] \in Seq(Row)
         /\ inserting[w] \in Seq(Row) /\ table[w] \in Seq(Row)
         /\ offered[w] \in Nat /\ before[w] \in Nat
<1>1. queue[w] \in Seq(Seq(Row))
  BY DEF TypeOK
<1>2. Len(queue[w]) \in Nat /\ \A k \in 1 .. Len(queue[w]) : queue[w][k] \in Seq(Row)
  BY <1>1
<1> QED
  BY <1>1, <1>2 DEF TypeOK

\* What recv() takes off the channel.
LEMMA Received ==
  ASSUME TypeOK, NEW v \in Writers, queue[v] # <<>>, queue' = [queue EXCEPT ![v] = Tail(@)]
  PROVE  /\ queue' \in [Writers -> Seq(Seq(Row))] /\ \A w \in Writers : Len(queue'[w]) <= Capacity
         /\ \A w \in Writers \ {v} : queue'[w] = queue[w]
         /\ 1 \in 1 .. Len(queue[v]) /\ Head(queue[v]) = queue[v][1] /\ Head(queue[v]) \in Seq(Row)
         /\ \A k \in 1 .. Len(queue'[v]) :
              k + 1 \in 1 .. Len(queue[v]) /\ 1 < k + 1 /\ queue'[v][k] = queue[v][k + 1]
         /\ Len(queue'[v]) = Len(queue[v]) - 1
<1> DEFINE q == queue[v]
<1>1. q \in Seq(Seq(Row)) /\ Len(q) \in Nat \ {0} /\ Len(q) <= Capacity /\ Capacity \in Nat
  BY WriterAssumption DEF WriterAssumption, TypeOK
<1>2. /\ queue'[v] = Tail(q) /\ \A w \in Writers \ {v} : queue'[w] = queue[w]
      /\ DOMAIN queue' = Writers /\ queue' = [w \in Writers |-> queue'[w]]
  BY DEF TypeOK
<1> HIDE DEF q
<1>3. /\ Tail(q) \in Seq(Seq(Row)) /\ Len(Tail(q)) = Len(q) - 1 /\ Head(q) = q[1] /\ Head(q) \in Seq(Row)
      /\ \A k \in 1 .. Len(Tail(q)) : Tail(q)[k] = q[k + 1]
  BY <1>1
<1>4. \A w \in Writers : queue'[w] \in Seq(Seq(Row)) /\ Len(queue'[w]) <= Capacity
  BY <1>1, <1>2, <1>3 DEF TypeOK
<1>5. queue' \in [Writers -> Seq(Seq(Row))]
  BY <1>2, <1>4
<1> QED
  BY <1>1, <1>2, <1>3, <1>4, <1>5 DEF q

\* What try_send puts behind the rest.
LEMMA Enqueued ==
  ASSUME TypeOK, NEW v \in Writers, NEW b \in Seq(Row), Len(queue[v]) < Capacity,
         queue' = [queue EXCEPT ![v] = Append(@, b)]
  PROVE  /\ queue' \in [Writers -> Seq(Seq(Row))] /\ \A w \in Writers : Len(queue'[w]) <= Capacity
         /\ \A w \in Writers \ {v} : queue'[w] = queue[w]
         /\ Len(queue'[v]) = Len(queue[v]) + 1 /\ queue'[v][Len(queue[v]) + 1] = b
         /\ \A k \in 1 .. Len(queue[v]) : queue'[v][k] = queue[v][k]
<1> DEFINE q == queue[v]
<1>1. q \in Seq(Seq(Row)) /\ Len(q) \in Nat /\ Len(q) < Capacity /\ Capacity \in Nat
  BY WriterAssumption DEF WriterAssumption, TypeOK
<1>2. /\ queue'[v] = Append(q, b) /\ \A w \in Writers \ {v} : queue'[w] = queue[w]
      /\ DOMAIN queue' = Writers /\ queue' = [w \in Writers |-> queue'[w]]
  BY DEF TypeOK
<1> HIDE DEF q
<1>3. /\ Append(q, b) \in Seq(Seq(Row)) /\ Len(Append(q, b)) = Len(q) + 1 /\ Append(q, b)[Len(q) + 1] = b
      /\ \A k \in 1 .. Len(q) : Append(q, b)[k] = q[k]
  BY <1>1
<1>4. \A w \in Writers : queue'[w] \in Seq(Seq(Row)) /\ Len(queue'[w]) <= Capacity
  BY <1>1, <1>2, <1>3 DEF TypeOK
<1>5. queue' \in [Writers -> Seq(Seq(Row))]
  BY <1>2, <1>4
<1> QED
  BY <1>2, <1>3, <1>4, <1>5 DEF q

-----------------------------------------------------------------------------
(* The steps.                                                              *)

LEMMA EnqueueStep ==
  ASSUME WriterInvariant, NEW v \in Writers, NEW n \in BatchSizes, EnqueueRows(v, n)
  PROVE  WriterInvariant'
<1> DEFINE m == offered[v]
           b == [i \in 1 .. n |-> m + i]
<1>1. /\ m \in Nat /\ n \in Nat \ {0} /\ m + n <= MaxRows /\ MaxRows \in Nat
      /\ offered' = [offered EXCEPT ![v] = m + n]
  BY WriterAssumption DEF WriterAssumption, WriterInvariant, TypeOK, EnqueueRows
<1>2. /\ b \in Seq(Row) /\ b # Fence /\ ToSet(b) = (m + 1) .. (m + n) /\ Sorted(b) /\ Within(b, m + n)
      /\ \A k \in 0 .. m : Beyond(b, k)
      /\ \A s \in Seq(Row) : Within(s, m) => Below(s, b)
  BY <1>1, NewBatch
<1>3. UNCHANGED <<inserting, table, failed, ended, acked, flushing>>
  BY DEF EnqueueRows
<1>4. \/ /\ Len(queue[v]) < Capacity /\ queue' = [queue EXCEPT ![v] = Append(@, b)] /\ refused' = refused
      \/ /\ refused' = [refused EXCEPT ![v] = @ \cup ToSet(b)] /\ queue' = queue
  BY DEF EnqueueRows, Accepts
<1> HIDE DEF m, b
<1>5. /\ offered' \in [Writers -> 0 .. MaxRows] /\ offered'[v] = m + n
      /\ \A w \in Writers \ {v} : offered'[w] = offered[w]
  BY <1>1 DEF WriterInvariant, TypeOK
<1>6. /\ table[v] \in Seq(Row) /\ inserting[v] \in Seq(Row) /\ Len(queue[v]) \in Nat
      /\ \A k \in 1 .. Len(queue[v]) : queue[v][k] \in Seq(Row)
      /\ before[v] \in Nat /\ offered[v] = m
  BY QueueIs DEF WriterInvariant, m
<1>7. /\ Ordered(table[v], inserting[v], queue[v], m) /\ Accounted(v) /\ Fenced(v) /\ Warned(v)
  BY DEF WriterInvariant, WriterOK, m
<1>8. \A s \in Seq(Row) : Within(s, m) => Within(s, m + n)
  BY <1>1, RowsAre DEF Within
<1>9. \A x \in 1 .. (m + n) : x \in 1 .. m \/ x \in ToSet(b)
  BY <1>1, <1>2
<1>10. CASE Len(queue[v]) < Capacity /\ queue' = [queue EXCEPT ![v] = Append(@, b)] /\ refused' = refused
  <2>1. /\ queue' \in [Writers -> Seq(Seq(Row))] /\ \A w \in Writers : Len(queue'[w]) <= Capacity
        /\ \A w \in Writers \ {v} : queue'[w] = queue[w]
        /\ Len(queue'[v]) = Len(queue[v]) + 1 /\ queue'[v][Len(queue[v]) + 1] = b
        /\ \A k \in 1 .. Len(queue[v]) : queue'[v][k] = queue[v][k]
    BY <1>2, <1>10, Enqueued DEF WriterInvariant
  <2>2. TypeOK'
    BY <1>3, <1>5, <1>10, <2>1 DEF WriterInvariant, TypeOK, flushing
  <2>3. \A w \in Writers \ {v} : WriterOK(w)'
    BY <1>3, <1>5, <1>10, <2>1, OtherWriter DEF WriterInvariant, flushing
  <2>4. \A k \in 1 .. Len(queue'[v]) :
          \/ k \in 1 .. Len(queue[v]) /\ queue'[v][k] = queue[v][k]
          \/ k = Len(queue[v]) + 1 /\ queue'[v][k] = b
    BY <1>6, <2>1
  <2>5. Ordered(table'[v], inserting'[v], queue'[v], m + n)
    <3>1. /\ Sorted(table[v]) /\ Sorted(inserting[v]) /\ Below(table[v], inserting[v])
          /\ Within(table[v], m + n) /\ Within(inserting[v], m + n)
          /\ Below(table[v], b) /\ Below(inserting[v], b)
      BY <1>2, <1>6, <1>7, <1>8 DEF Ordered
    <3>2. \A k \in 1 .. Len(queue[v]) :
            /\ Sorted(queue[v][k]) /\ Within(queue[v][k], m + n)
            /\ Below(table[v], queue[v][k]) /\ Below(inserting[v], queue[v][k]) /\ Below(queue[v][k], b)
            /\ \A l \in 1 .. Len(queue[v]) : k < l => Below(queue[v][k], queue[v][l])
      BY <1>2, <1>6, <1>7, <1>8 DEF Ordered
    <3>3. ASSUME NEW k \in 1 .. Len(queue'[v])
          PROVE  /\ Sorted(queue'[v][k]) /\ Within(queue'[v][k], m + n)
                 /\ Below(table[v], queue'[v][k]) /\ Below(inserting[v], queue'[v][k])
                 /\ \A l \in 1 .. Len(queue'[v]) : k < l => Below(queue'[v][k], queue'[v][l])
      <4>1. CASE k = Len(queue[v]) + 1 /\ queue'[v][k] = b
        <5>1. \A l \in 1 .. Len(queue'[v]) : ~(k < l)
          BY <1>6, <2>1, <4>1
        <5> QED
          BY <1>2, <3>1, <4>1, <5>1
      <4>2. CASE k \in 1 .. Len(queue[v]) /\ queue'[v][k] = queue[v][k]
        BY <2>4, <3>2, <4>2
      <4> QED
        BY <2>4, <4>1, <4>2
    <3>4. table'[v] = table[v] /\ inserting'[v] = inserting[v]
      BY <1>3
    <3> QED
      BY <3>1, <3>3, <3>4 DEF Ordered
  <2>6. Accounted(v)'
    <3>1. \A x : Waits(x, queue[v]) \/ x \in ToSet(b) => Waits(x, queue'[v])
      <4>1. Len(queue[v]) + 1 \in 1 .. Len(queue'[v]) /\ 1 .. Len(queue[v]) \subseteq 1 .. Len(queue'[v])
        BY <1>6, <2>1
      <4> QED
        BY <2>1, <4>1 DEF Waits
    <3> QED
      BY <1>3, <1>5, <1>6, <1>7, <1>9, <1>10, <3>1 DEF Accounted
  <2>7. Fenced(v)'
    <3>1. Beyond(b, before[v]) /\ before'[v] = before[v] /\ before[v] <= m + n
      BY <1>1, <1>2, <1>3, <1>6, <1>7 DEF Fenced, flushing
    <3>2. ASSUME NEW k \in 1 .. Len(queue'[v]), queue'[v][k] = Fence
          PROVE  /\ v \in pending /\ v \notin acked
                 /\ \A l \in 1 .. Len(queue'[v]) : k < l => Beyond(queue'[v][l], before[v]) /\ queue'[v][l] # Fence
      <4>1. k \in 1 .. Len(queue[v]) /\ queue[v][k] = Fence
        BY <1>2, <2>4, <3>2
      <4> QED
        BY <1>2, <1>7, <2>4, <3>1, <4>1 DEF Fenced
    <3>3. v \in acked => /\ Beyond(inserting[v], before[v])
                         /\ \A k \in 1 .. Len(queue'[v]) : Beyond(queue'[v][k], before[v])
      BY <1>7, <2>4, <3>1 DEF Fenced
    <3> QED
      BY <1>3, <1>5, <3>1, <3>2, <3>3 DEF Fenced, flushing
  <2>8. Warned(v)'
    BY <1>1, <1>3, <1>5, <1>6, <1>7, <1>10 DEF Warned
  <2> QED
    BY <1>5, <2>2, <2>3, <2>5, <2>6, <2>7, <2>8 DEF WriterInvariant, WriterOK
<1>11. CASE refused' = [refused EXCEPT ![v] = @ \cup ToSet(b)] /\ queue' = queue
  <2>1. /\ refused'[v] = refused[v] \cup ToSet(b) /\ \A w \in Writers \ {v} : refused'[w] = refused[w]
        /\ refused' \in [Writers -> SUBSET Row]
    <3>1. ToSet(b) \subseteq Row
      BY <1>1, <1>2 DEF Row
    <3> QED
      BY <1>11, <3>1 DEF WriterInvariant, TypeOK
  <2>2. TypeOK'
    BY <1>3, <1>5, <1>11, <2>1 DEF WriterInvariant, TypeOK, flushing
  <2>3. \A w \in Writers \ {v} : WriterOK(w)'
    BY <1>3, <1>5, <1>11, <2>1, OtherWriter DEF WriterInvariant, flushing
  <2>4. Ordered(table[v], inserting[v], queue[v], m + n)
    BY <1>6, <1>7, <1>8 DEF Ordered
  <2>5. Accounted(v)'
    BY <1>3, <1>5, <1>6, <1>7, <1>9, <1>11, <2>1 DEF Accounted
  <2>6. Fenced(v)'
    <3>1. before[v] <= m + n
      BY <1>1, <1>6, <1>7 DEF Fenced
    <3> QED
      BY <1>3, <1>5, <1>7, <1>11, <3>1 DEF Fenced, flushing
  <2>7. Warned(v)'
    <3>1. refused[v] \cup failed[v] \subseteq 1 .. m
      BY <1>6, <1>7 DEF Warned
    <3>2. 1 .. m \subseteq 1 .. (m + n) /\ ToSet(b) \subseteq 1 .. (m + n)
      BY <1>1, <1>2
    <3> QED
      BY <1>3, <1>5, <2>1, <3>1, <3>2 DEF Warned
  <2> QED
    BY <1>3, <1>5, <1>11, <2>2, <2>3, <2>4, <2>5, <2>6, <2>7 DEF WriterInvariant, WriterOK
<1> QED
  BY <1>4, <1>10, <1>11

LEMMA RecvRowsStep ==
  ASSUME WriterInvariant, NEW v \in Writers, RecvRows(v)
  PROVE  WriterInvariant'
<1> DEFINE b == Head(queue[v])
<1>1. /\ queue[v] # <<>> /\ inserting[v] = <<>> /\ queue' = [queue EXCEPT ![v] = Tail(@)]
      /\ inserting' = [inserting EXCEPT ![v] = b]
      /\ UNCHANGED <<offered, table, refused, failed, ended, acked, flushing>>
  BY DEF RecvRows
<1>2. /\ queue' \in [Writers -> Seq(Seq(Row))] /\ \A w \in Writers : Len(queue'[w]) <= Capacity
      /\ \A w \in Writers \ {v} : queue'[w] = queue[w]
      /\ 1 \in 1 .. Len(queue[v]) /\ b = queue[v][1] /\ b \in Seq(Row)
      /\ \A k \in 1 .. Len(queue'[v]) :
           k + 1 \in 1 .. Len(queue[v]) /\ 1 < k + 1 /\ queue'[v][k] = queue[v][k + 1]
      /\ Len(queue'[v]) = Len(queue[v]) - 1
  BY <1>1, Received DEF WriterInvariant
<1> HIDE DEF b
<1>3. /\ inserting'[v] = b /\ \A w \in Writers \ {v} : inserting'[w] = inserting[w]
      /\ inserting' \in [Writers -> Seq(Row)]
  BY <1>1, <1>2 DEF WriterInvariant, TypeOK
<1>4. TypeOK'
  BY <1>1, <1>2, <1>3 DEF WriterInvariant, TypeOK, flushing
<1>5. \A w \in Writers \ {v} : WriterOK(w)'
  BY <1>1, <1>2, <1>3, OtherWriter DEF WriterInvariant, flushing
<1>6. WriterOK(v) /\ Len(queue[v]) \in Nat
  BY QueueIs DEF WriterInvariant
<1>7. Ordered(table[v], b, queue'[v], offered[v])
  <2>1. \A k \in 1 .. Len(queue[v]) :
          /\ Sorted(queue[v][k]) /\ Within(queue[v][k], offered[v]) /\ Below(table[v], queue[v][k])
          /\ \A l \in 1 .. Len(queue[v]) : k < l => Below(queue[v][k], queue[v][l])
    BY <1>6 DEF WriterOK, Ordered
  <2>2. Sorted(b) /\ Within(b, offered[v]) /\ Below(table[v], b)
    BY <1>2, <2>1
  <2>3. ASSUME NEW k \in 1 .. Len(queue'[v])
        PROVE  /\ Sorted(queue'[v][k]) /\ Within(queue'[v][k], offered[v])
               /\ Below(table[v], queue'[v][k]) /\ Below(b, queue'[v][k])
               /\ \A l \in 1 .. Len(queue'[v]) : k < l => Below(queue'[v][k], queue'[v][l])
    <3>1. k + 1 \in 1 .. Len(queue[v]) /\ 1 < k + 1 /\ queue'[v][k] = queue[v][k + 1]
      BY <1>2
    <3>2. \A l \in 1 .. Len(queue'[v]) :
            k < l => l + 1 \in 1 .. Len(queue[v]) /\ k + 1 < l + 1 /\ queue'[v][l] = queue[v][l + 1]
      BY <1>2, <1>6
    <3> QED
      BY <1>2, <2>1, <3>1, <3>2
  <2> QED
    BY <1>6, <2>2, <2>3 DEF WriterOK, Ordered
<1>8. Accounted(v)'
  <2>1. ASSUME NEW x, Waits(x, queue[v]) PROVE x \in ToSet(b) \/ Waits(x, queue'[v])
    <3>1. PICK k \in 1 .. Len(queue[v]) : x \in ToSet(queue[v][k])
      BY <2>1 DEF Waits
    <3>2. CASE k = 1
      BY <1>2, <3>1, <3>2
    <3>3. CASE k # 1
      <4>1. k - 1 \in 1 .. Len(queue'[v]) /\ (k - 1) + 1 = k
        BY <1>2, <1>6, <3>3
      <4>2. queue'[v][k - 1] = queue[v][k]
        BY <1>2, <4>1
      <4> QED
        BY <3>1, <4>1, <4>2 DEF Waits
    <3> QED
      BY <3>2, <3>3
  <2> QED
    BY <1>1, <1>3, <1>6, <2>1, EmptyRows DEF WriterOK, Accounted
<1>9. Fenced(v)'
  <2>1. ASSUME NEW k \in 1 .. Len(queue'[v]), queue'[v][k] = Fence
        PROVE  /\ v \in pending /\ v \notin acked
               /\ \A l \in 1 .. Len(queue'[v]) : k < l => Beyond(queue'[v][l], before[v]) /\ queue'[v][l] # Fence
    <3>1. k + 1 \in 1 .. Len(queue[v]) /\ queue[v][k + 1] = Fence
      BY <1>2, <2>1
    <3>2. \A l \in 1 .. Len(queue'[v]) :
            k < l => l + 1 \in 1 .. Len(queue[v]) /\ k + 1 < l + 1 /\ queue'[v][l] = queue[v][l + 1]
      BY <1>2, <1>6
    <3> QED
      BY <1>6, <3>1, <3>2 DEF WriterOK, Fenced
  <2>2. v \in acked => /\ Beyond(b, before[v])
                       /\ \A k \in 1 .. Len(queue'[v]) : Beyond(queue'[v][k], before[v])
    BY <1>2, <1>6 DEF WriterOK, Fenced
  <2>3. before[v] <= offered[v]
    BY <1>6 DEF WriterOK, Fenced
  <2> QED
    BY <1>1, <1>3, <2>1, <2>2, <2>3 DEF Fenced, flushing
<1>10. Warned(v)'
  BY <1>1, <1>6 DEF WriterOK, Warned
<1> QED
  BY <1>1, <1>3, <1>4, <1>5, <1>7, <1>8, <1>9, <1>10 DEF WriterInvariant, WriterOK

\* When the fence is at the head, nothing that was offered before is left.
LEMMA RecvFenceStep ==
  ASSUME WriterInvariant, NEW v \in Writers, RecvFence(v)
  PROVE  WriterInvariant'
<1>1. /\ queue[v] # <<>> /\ inserting[v] = <<>> /\ queue' = [queue EXCEPT ![v] = Tail(@)]
      /\ Head(queue[v]) = Fence /\ acked' = acked \cup {v}
      /\ UNCHANGED <<offered, inserting, table, refused, failed, ended, flushing>>
  BY DEF RecvFence
<1>2. /\ queue' \in [Writers -> Seq(Seq(Row))] /\ \A w \in Writers : Len(queue'[w]) <= Capacity
      /\ \A w \in Writers \ {v} : queue'[w] = queue[w]
      /\ 1 \in 1 .. Len(queue[v]) /\ queue[v][1] = Fence
      /\ \A k \in 1 .. Len(queue'[v]) :
           k + 1 \in 1 .. Len(queue[v]) /\ 1 < k + 1 /\ queue'[v][k] = queue[v][k + 1]
      /\ Len(queue'[v]) = Len(queue[v]) - 1
  BY <1>1, Received DEF WriterInvariant
<1>3. WriterOK(v) /\ Len(queue[v]) \in Nat
  BY QueueIs DEF WriterInvariant
<1>4. /\ v \in pending
      /\ \A l \in 1 .. Len(queue[v]) : 1 < l => Beyond(queue[v][l], before[v]) /\ queue[v][l] # Fence
  BY <1>2, <1>3 DEF WriterOK, Fenced
<1>5. TypeOK'
  BY <1>1, <1>2, <1>4 DEF WriterInvariant, TypeOK, flushing
<1>6. \A w \in Writers \ {v} : WriterOK(w)'
  BY <1>1, <1>2, OtherWriter DEF WriterInvariant, flushing
<1>7. Ordered(table[v], inserting[v], queue'[v], offered[v])
  <2>1. \A k \in 1 .. Len(queue[v]) :
          /\ Sorted(queue[v][k]) /\ Within(queue[v][k], offered[v])
          /\ Below(table[v], queue[v][k]) /\ Below(inserting[v], queue[v][k])
          /\ \A l \in 1 .. Len(queue[v]) : k < l => Below(queue[v][k], queue[v][l])
    BY <1>3 DEF WriterOK, Ordered
  <2>2. ASSUME NEW k \in 1 .. Len(queue'[v])
        PROVE  /\ Sorted(queue'[v][k]) /\ Within(queue'[v][k], offered[v])
               /\ Below(table[v], queue'[v][k]) /\ Below(inserting[v], queue'[v][k])
               /\ \A l \in 1 .. Len(queue'[v]) : k < l => Below(queue'[v][k], queue'[v][l])
    <3>1. k + 1 \in 1 .. Len(queue[v]) /\ queue'[v][k] = queue[v][k + 1]
      BY <1>2
    <3>2. \A l \in 1 .. Len(queue'[v]) :
            k < l => l + 1 \in 1 .. Len(queue[v]) /\ k + 1 < l + 1 /\ queue'[v][l] = queue[v][l + 1]
      <4> SUFFICES ASSUME NEW l \in 1 .. Len(queue'[v]), k < l
                   PROVE  l + 1 \in 1 .. Len(queue[v]) /\ k + 1 < l + 1 /\ queue'[v][l] = queue[v][l + 1]
        OBVIOUS
      <4>1. l + 1 \in 1 .. Len(queue[v]) /\ queue'[v][l] = queue[v][l + 1]
        BY <1>2
      <4>2. k \in Int /\ l \in Int
        BY <1>2, <1>3
      <4> QED
        BY <4>1, <4>2
    <3> QED
      BY <2>1, <3>1, <3>2
  <2> QED
    BY <1>3, <2>2 DEF WriterOK, Ordered
<1>8. Accounted(v)'
  <2>1. ASSUME NEW x, Waits(x, queue[v]) PROVE Waits(x, queue'[v])
    <3>1. PICK k \in 1 .. Len(queue[v]) : x \in ToSet(queue[v][k])
      BY <2>1 DEF Waits
    <3>2. k # 1
      BY <1>2, <3>1, EmptyRows DEF Fence
    <3>3. k - 1 \in 1 .. Len(queue'[v]) /\ (k - 1) + 1 = k
      BY <1>2, <1>3, <3>2
    <3>4. queue'[v][k - 1] = queue[v][k]
      BY <1>2, <3>3
    <3> QED
      BY <3>1, <3>3, <3>4 DEF Waits
  <2> QED
    BY <1>1, <1>3, <2>1 DEF WriterOK, Accounted
<1>9. Fenced(v)'
  <2>1. \A k \in 1 .. Len(queue'[v]) : Beyond(queue'[v][k], before[v]) /\ queue'[v][k] # Fence
    BY <1>2, <1>4
  <2>2. Beyond(inserting[v], before[v])
    BY <1>1, EmptyRows
  <2> QED
    BY <1>1, <1>3, <2>1, <2>2 DEF WriterOK, Fenced, flushing
<1>10. Warned(v)'
  BY <1>1, <1>3 DEF WriterOK, Warned
<1> QED
  BY <1>1, <1>5, <1>6, <1>7, <1>8, <1>9, <1>10 DEF WriterInvariant, WriterOK

LEMMA ChunkInsertedStep ==
  ASSUME WriterInvariant, NEW v \in Writers, ChunkInserted(v)
  PROVE  WriterInvariant'
<1> DEFINE s == inserting[v]
           c == Chunk(s)
           r == Rest(s)
<1>1. /\ s # <<>> /\ table' = [table EXCEPT ![v] = @ \o c] /\ inserting' = [inserting EXCEPT ![v] = r]
      /\ UNCHANGED <<offered, queue, refused, failed, ended, acked, flushing>>
  BY DEF ChunkInserted
<1>2. WriterOK(v) /\ s \in Seq(Row) /\ table[v] \in Seq(Row)
  BY QueueIs DEF WriterInvariant
<1>3. /\ Sorted(s) /\ Within(s, offered[v]) /\ Below(table[v], s)
      /\ Sorted(table[v]) /\ Within(table[v], offered[v])
      /\ \A k \in 1 .. Len(queue[v]) :
           /\ Sorted(queue[v][k]) /\ Within(queue[v][k], offered[v])
           /\ Below(table[v], queue[v][k]) /\ Below(s, queue[v][k])
           /\ \A l \in 1 .. Len(queue[v]) : k < l => Below(queue[v][k], queue[v][l])
  BY <1>2 DEF WriterOK, Ordered
<1> HIDE DEF s
<1>4. /\ c \in Seq(Row) /\ r \in Seq(Row) /\ Sorted(c) /\ Sorted(r) /\ Below(c, r)
      /\ \A n : Within(s, n) => Within(c, n) /\ Within(r, n)
      /\ \A n : Beyond(s, n) => Beyond(r, n)
      /\ \A t : Below(s, t) => Below(c, t) /\ Below(r, t)
      /\ \A t : Below(t, s) => Below(t, c) /\ Below(t, r)
      /\ ToSet(s) = ToSet(c) \cup ToSet(r)
  BY <1>1, <1>2, <1>3, PartsOfRows
<1> HIDE DEF c, r
<1> DEFINE t == table[v] \o c
<1>5. /\ t \in Seq(Row) /\ Sorted(t) /\ Within(t, offered[v]) /\ ToSet(t) = ToSet(table[v]) \cup ToSet(c)
      /\ \A u : Below(table[v], u) /\ Below(c, u) => Below(t, u)
  BY <1>2, <1>3, <1>4, RowsAppended
<1> HIDE DEF t
<1>6. /\ table'[v] = t /\ inserting'[v] = r
      /\ \A w \in Writers \ {v} : table'[w] = table[w] /\ inserting'[w] = inserting[w]
      /\ table' \in [Writers -> Seq(Row)] /\ inserting' \in [Writers -> Seq(Row)]
  <2>1. table' = [table EXCEPT ![v] = t]
    BY <1>1 DEF t
  <2> QED
    BY <1>1, <1>4, <1>5, <2>1 DEF WriterInvariant, TypeOK
<1>7. TypeOK'
  BY <1>1, <1>6 DEF WriterInvariant, TypeOK, flushing
<1>8. \A w \in Writers \ {v} : WriterOK(w)'
  BY <1>1, <1>6, OtherWriter DEF WriterInvariant, flushing
<1>9. Ordered(t, r, queue[v], offered[v])
  BY <1>3, <1>4, <1>5 DEF Ordered
<1>10. Accounted(v)'
  BY <1>1, <1>2, <1>4, <1>5, <1>6 DEF WriterOK, Accounted, s
<1>11. Fenced(v)' /\ Warned(v)'
  BY <1>1, <1>2, <1>4, <1>6 DEF WriterOK, Fenced, Warned, flushing, s
<1> QED
  BY <1>1, <1>6, <1>7, <1>8, <1>9, <1>10, <1>11 DEF WriterInvariant, WriterOK

LEMMA ChunkFailsStep ==
  ASSUME WriterInvariant, NEW v \in Writers, ChunkFails(v)
  PROVE  WriterInvariant'
<1> DEFINE s == inserting[v]
           c == Chunk(s)
<1>1. /\ s # <<>> /\ table' \in {table, [table EXCEPT ![v] = @ \o c]}
      /\ failed' = [failed EXCEPT ![v] = @ \cup ToSet(s)] /\ inserting' = [inserting EXCEPT ![v] = <<>>]
      /\ UNCHANGED <<offered, queue, refused, ended, acked, flushing>>
  BY DEF ChunkFails
<1>2. WriterOK(v) /\ s \in Seq(Row) /\ table[v] \in Seq(Row) /\ offered[v] \in Nat
  BY QueueIs DEF WriterInvariant
<1>3. /\ Sorted(s) /\ Within(s, offered[v]) /\ Below(table[v], s)
      /\ Sorted(table[v]) /\ Within(table[v], offered[v])
      /\ \A k \in 1 .. Len(queue[v]) :
           /\ Sorted(queue[v][k]) /\ Within(queue[v][k], offered[v])
           /\ Below(table[v], queue[v][k]) /\ Below(s, queue[v][k])
           /\ \A l \in 1 .. Len(queue[v]) : k < l => Below(queue[v][k], queue[v][l])
  BY <1>2 DEF WriterOK, Ordered
<1> HIDE DEF s
<1>4. /\ c \in Seq(Row) /\ Sorted(c) /\ Within(c, offered[v])
      /\ \A t : Below(s, t) => Below(c, t)
      /\ \A t : Below(t, s) => Below(t, c)
  BY <1>1, <1>2, <1>3, PartsOfRows
<1> HIDE DEF c
<1> DEFINE t == table[v] \o c
<1>5. /\ t \in Seq(Row) /\ Sorted(t) /\ Within(t, offered[v]) /\ ToSet(t) = ToSet(table[v]) \cup ToSet(c)
      /\ \A u : Below(table[v], u) /\ Below(c, u) => Below(t, u)
  BY <1>2, <1>3, <1>4, RowsAppended
<1> HIDE DEF t
<1>6. /\ table'[v] \in {table[v], t} /\ \A w \in Writers \ {v} : table'[w] = table[w]
      /\ table' \in [Writers -> Seq(Row)]
  <2>1. table' = table \/ table' = [table EXCEPT ![v] = t]
    BY <1>1 DEF t
  <2> QED
    BY <1>5, <2>1 DEF WriterInvariant, TypeOK
<1>7. /\ inserting'[v] = <<>> /\ \A w \in Writers \ {v} : inserting'[w] = inserting[w]
      /\ inserting' \in [Writers -> Seq(Row)]
  BY <1>1, EmptyRows DEF WriterInvariant, TypeOK
<1>8. /\ ToSet(s) \subseteq Row /\ ToSet(s) \subseteq 1 .. offered[v]
  BY <1>2, <1>3, RowsAre DEF ToSet, Within
<1>9. /\ failed'[v] = failed[v] \cup ToSet(s) /\ \A w \in Writers \ {v} : failed'[w] = failed[w]
      /\ failed' \in [Writers -> SUBSET Row]
  BY <1>1, <1>8 DEF WriterInvariant, TypeOK
<1>10. TypeOK'
  BY <1>1, <1>6, <1>7, <1>9 DEF WriterInvariant, TypeOK, flushing
<1>11. \A w \in Writers \ {v} : WriterOK(w)'
  BY <1>1, <1>6, <1>7, <1>9, OtherWriter DEF WriterInvariant, flushing
<1>12. Ordered(table'[v], <<>>, queue[v], offered[v])
  BY <1>3, <1>4, <1>5, <1>6, EmptyRows DEF Ordered
<1>13. Accounted(v)'
  <2>1. ToSet(table[v]) \subseteq ToSet(table'[v])
    BY <1>5, <1>6
  <2> QED
    BY <1>1, <1>2, <1>7, <1>9, <2>1 DEF WriterOK, Accounted, s
<1>14. Fenced(v)' /\ Warned(v)'
  BY <1>1, <1>2, <1>7, <1>8, <1>9, EmptyRows DEF WriterOK, Fenced, Warned, flushing
<1> QED
  BY <1>1, <1>7, <1>10, <1>11, <1>12, <1>13, <1>14 DEF WriterInvariant, WriterOK

\* What a writer holds was offered to it.
LEMMA HeldIsOffered ==
  ASSUME WriterInvariant, NEW w \in Writers
  PROVE  /\ Held(w) \subseteq 1 .. offered[w]
         /\ \A x : x \in Held(w) <=> x \in ToSet(inserting[w]) \/ Waits(x, queue[w])
<1>1. \A x : x \in Held(w) <=> x \in ToSet(inserting[w]) \/ Waits(x, queue[w])
  BY DEF Held, Waits
<1>2. /\ WriterOK(w) /\ inserting[w] \in Seq(Row)
      /\ \A k \in 1 .. Len(queue[w]) : queue[w][k] \in Seq(Row)
  BY QueueIs DEF WriterInvariant
<1>3. \A s \in Seq(Row) : Within(s, offered[w]) => ToSet(s) \subseteq 1 .. offered[w]
  BY RowsAre DEF ToSet, Within
<1>4. ToSet(inserting[w]) \subseteq 1 .. offered[w]
  BY <1>2, <1>3 DEF WriterOK, Ordered
<1>5. \A x : Waits(x, queue[w]) => x \in 1 .. offered[w]
  BY <1>2, <1>3 DEF WriterOK, Ordered, Waits
<1> QED
  BY <1>1, <1>4, <1>5

\* A worker that panics leaves an empty channel behind.
LEMMA WorkerPanicsStep ==
  ASSUME WriterInvariant, NEW v \in Writers, WorkerPanics(v)
  PROVE  WriterInvariant'
<1>1. /\ failed' = [failed EXCEPT ![v] = @ \cup Held(v)] /\ ended' = ended \cup {v}
      /\ inserting' = [inserting EXCEPT ![v] = <<>>] /\ queue' = [queue EXCEPT ![v] = <<>>]
      /\ UNCHANGED <<offered, table, refused, acked, flushing>>
  BY DEF WorkerPanics
<1>2. WriterOK(v) /\ table[v] \in Seq(Row) /\ offered[v] \in 0 .. MaxRows /\ MaxRows \in Nat
  BY QueueIs, WriterAssumption DEF WriterAssumption, WriterInvariant, TypeOK
<1>3. /\ Held(v) \subseteq 1 .. offered[v] /\ Held(v) \subseteq Row
      /\ \A x : x \in Held(v) <=> x \in ToSet(inserting[v]) \/ Waits(x, queue[v])
  BY <1>2, HeldIsOffered DEF Row
<1>4. /\ failed'[v] = failed[v] \cup Held(v) /\ \A w \in Writers \ {v} : failed'[w] = failed[w]
      /\ failed' \in [Writers -> SUBSET Row]
  BY <1>1, <1>3 DEF WriterInvariant, TypeOK
<1>5. /\ inserting'[v] = <<>> /\ \A w \in Writers \ {v} : inserting'[w] = inserting[w]
      /\ inserting' \in [Writers -> Seq(Row)]
  BY <1>1, EmptyRows DEF WriterInvariant, TypeOK
<1>6. /\ queue'[v] = <<>> /\ Len(queue'[v]) = 0 /\ \A w \in Writers \ {v} : queue'[w] = queue[w]
      /\ queue' \in [Writers -> Seq(Seq(Row))] /\ \A w \in Writers : Len(queue'[w]) <= Capacity
  BY <1>1, WriterAssumption DEF WriterAssumption, WriterInvariant, TypeOK
<1>7. TypeOK'
  BY <1>1, <1>4, <1>5, <1>6 DEF WriterInvariant, TypeOK, flushing
<1>8. \A w \in Writers \ {v} : WriterOK(w)'
  BY <1>1, <1>4, <1>5, <1>6, OtherWriter DEF WriterInvariant, flushing
<1>9. Ordered(table[v], <<>>, queue'[v], offered[v])
  BY <1>2, <1>6, EmptyRows DEF WriterOK, Ordered
<1>10. Accounted(v)'
  BY <1>1, <1>2, <1>3, <1>4 DEF WriterOK, Accounted
<1>11. Fenced(v)' /\ Warned(v)'
  BY <1>1, <1>2, <1>3, <1>4, <1>5, <1>6, EmptyRows DEF WriterOK, Fenced, Warned, flushing
<1> QED
  BY <1>1, <1>5, <1>7, <1>8, <1>9, <1>10, <1>11 DEF WriterInvariant, WriterOK

LEMMA FlushSteps ==
  ASSUME WriterInvariant, StartFlush \/ FlushEnds \/ DeadlinePasses
  PROVE  WriterInvariant'
<1>1. /\ UNCHANGED <<offered, queue, inserting, table, refused, failed, ended, asked, pending, acked, before>>
      /\ flush' \in {"off", "fencing", "waiting", "done", "exited"}
  BY DEF StartFlush, FlushEnds, DeadlinePasses
<1>2. TypeOK'
  BY <1>1 DEF WriterInvariant, TypeOK
<1>3. \A w \in Writers : WriterOK(w)'
  BY <1>1, OtherWriter DEF WriterInvariant
<1> QED
  BY <1>2, <1>3 DEF WriterInvariant

LEMMA RequestFenceStep ==
  ASSUME WriterInvariant, NEW v \in Writers, RequestFence(v)
  PROVE  WriterInvariant'
<1>1. /\ v \notin asked /\ asked' = asked \cup {v} /\ before' = [before EXCEPT ![v] = offered[v]]
      /\ UNCHANGED <<offered, inserting, table, refused, failed, ended, acked>>
      /\ flush' \in {"waiting", "fencing"}
      /\ \/ /\ Len(queue[v]) < Capacity /\ queue' = [queue EXCEPT ![v] = Append(@, Fence)]
            /\ pending' = pending \cup {v}
         \/ queue' = queue /\ pending' = pending
  BY DEF RequestFence, Accepts
<1>2. v \notin pending /\ v \notin acked
  BY <1>1 DEF WriterInvariant, TypeOK
<1>3. WriterOK(v) /\ Len(queue[v]) \in Nat /\ offered[v] \in 0 .. MaxRows /\ offered[v] \in Nat
  BY QueueIs DEF WriterInvariant, TypeOK
<1>4. \A k \in 1 .. Len(queue[v]) : queue[v][k] # Fence
  BY <1>2, <1>3 DEF WriterOK, Fenced
<1>5. /\ before' \in [Writers -> 0 .. MaxRows] /\ before'[v] = offered[v]
      /\ \A w \in Writers \ {v} : before'[w] = before[w]
  BY <1>1, <1>3 DEF WriterInvariant, TypeOK
<1>6. /\ queue' \in [Writers -> Seq(Seq(Row))] /\ \A w \in Writers : Len(queue'[w]) <= Capacity
      /\ \A w \in Writers \ {v} : queue'[w] = queue[w]
      /\ 1 .. Len(queue[v]) \subseteq 1 .. Len(queue'[v])
      /\ \A k \in 1 .. Len(queue[v]) : queue'[v][k] = queue[v][k]
      /\ \A k \in 1 .. Len(queue'[v]) :
           \/ k \in 1 .. Len(queue[v]) /\ queue'[v][k] = queue[v][k]
           \/ k = Len(queue[v]) + 1 /\ k = Len(queue'[v]) /\ queue'[v][k] = Fence /\ v \in pending'
  <2>1. CASE queue' = queue
    BY <1>3, <2>1 DEF WriterInvariant, TypeOK
  <2>2. CASE /\ Len(queue[v]) < Capacity /\ queue' = [queue EXCEPT ![v] = Append(@, Fence)]
             /\ pending' = pending \cup {v}
    <3>1. Fence \in Seq(Row)
      BY EmptyRows DEF Fence
    <3>2. /\ queue' \in [Writers -> Seq(Seq(Row))] /\ \A w \in Writers : Len(queue'[w]) <= Capacity
          /\ \A w \in Writers \ {v} : queue'[w] = queue[w]
          /\ Len(queue'[v]) = Len(queue[v]) + 1 /\ queue'[v][Len(queue[v]) + 1] = Fence
          /\ \A k \in 1 .. Len(queue[v]) : queue'[v][k] = queue[v][k]
      BY <2>2, <3>1, Enqueued DEF WriterInvariant
    <3> QED
      BY <1>3, <2>2, <3>2
  <2> QED
    BY <1>1, <2>1, <2>2
<1>7. pending' \subseteq asked' /\ pending \subseteq pending' /\ \A w \in Writers \ {v} : w \in pending' <=> w \in pending
  BY <1>1 DEF WriterInvariant, TypeOK
<1>8. TypeOK'
  BY <1>1, <1>5, <1>6, <1>7 DEF WriterInvariant, TypeOK
<1>9. \A w \in Writers \ {v} : WriterOK(w)'
  BY <1>1, <1>5, <1>6, <1>7, OtherWriter DEF WriterInvariant
<1>10. Ordered(table[v], inserting[v], queue'[v], offered[v])
  <2>1. \A k \in 1 .. Len(queue[v]) :
          /\ Sorted(queue[v][k]) /\ Within(queue[v][k], offered[v])
          /\ Below(table[v], queue[v][k]) /\ Below(inserting[v], queue[v][k]) /\ Below(queue[v][k], Fence)
          /\ \A l \in 1 .. Len(queue[v]) : k < l => Below(queue[v][k], queue[v][l])
    BY <1>3, EmptyRows DEF WriterOK, Ordered, Fence
  <2>2. /\ Sorted(Fence) /\ Within(Fence, offered[v]) /\ Below(table[v], Fence) /\ Below(inserting[v], Fence)
        /\ \A s : Below(Fence, s)
    BY EmptyRows DEF Fence
  <2>3. ASSUME NEW k \in 1 .. Len(queue'[v])
        PROVE  /\ Sorted(queue'[v][k]) /\ Within(queue'[v][k], offered[v])
               /\ Below(table[v], queue'[v][k]) /\ Below(inserting[v], queue'[v][k])
               /\ \A l \in 1 .. Len(queue'[v]) : k < l => Below(queue'[v][k], queue'[v][l])
    <3>1. CASE queue'[v][k] = Fence
      BY <2>2, <3>1
    <3>2. CASE k \in 1 .. Len(queue[v]) /\ queue'[v][k] = queue[v][k]
      BY <1>6, <2>1, <3>2
    <3> QED
      BY <1>6, <3>1, <3>2
  <2> QED
    BY <1>3, <2>3 DEF WriterOK, Ordered
<1>11. Accounted(v)'
  <2>1. \A x : Waits(x, queue[v]) => Waits(x, queue'[v])
    BY <1>6 DEF Waits
  <2> QED
    BY <1>1, <1>3, <2>1 DEF WriterOK, Accounted
<1>12. Fenced(v)'
  <2>1. ASSUME NEW k \in 1 .. Len(queue'[v]), queue'[v][k] = Fence
        PROVE  v \in pending' /\ \A l \in 1 .. Len(queue'[v]) : ~(k < l)
    <3>1. ~(k \in 1 .. Len(queue[v]) /\ queue'[v][k] = queue[v][k])
      BY <1>4, <2>1
    <3>2. k = Len(queue'[v]) /\ k = Len(queue[v]) + 1 /\ v \in pending'
      BY <1>6, <3>1
    <3> QED
      BY <1>3, <3>2
  <2> QED
    BY <1>1, <1>2, <1>3, <1>5, <2>1 DEF Fenced
<1>13. Warned(v)'
  BY <1>1, <1>3 DEF WriterOK, Warned
<1> QED
  BY <1>1, <1>8, <1>9, <1>10, <1>11, <1>12, <1>13 DEF WriterInvariant, WriterOK

-----------------------------------------------------------------------------
LEMMA WriterStep == WriterInvariant /\ [Next]_vars => WriterInvariant'
<1> SUFFICES ASSUME WriterInvariant, [Next]_vars PROVE WriterInvariant'
  OBVIOUS
<1>1. ASSUME NEW w \in Writers, Worker(w) PROVE WriterInvariant'
  BY <1>1, RecvRowsStep, RecvFenceStep, ChunkInsertedStep, ChunkFailsStep DEF Worker
<1>2. CASE Flusher
  BY <1>2, FlushSteps, RequestFenceStep DEF Flusher
<1>3. CASE UNCHANGED vars
  <2>1. TypeOK'
    BY <1>3 DEF vars, WriterInvariant, TypeOK
  <2>2. \A w \in Writers : WriterOK(w)'
    BY <1>3, OtherWriter DEF vars, WriterInvariant
  <2> QED
    BY <2>1, <2>2 DEF WriterInvariant
<1> QED
  BY <1>1, <1>2, <1>3, EnqueueStep, WorkerPanicsStep, FlushSteps DEF Next

\* The invariant holds of every behaviour.
THEOREM WriterSafe == Spec => []WriterInvariant
  BY WriterInit, WriterStep, PTL DEF Spec

\* Every variable keeps its type: no channel exceeds its capacity and only
\* fences that were asked for are awaited or acked.
THEOREM WriterTypes == Spec => []TypeOK
<1>1. WriterInvariant => TypeOK
  BY DEF WriterInvariant
<1> QED
  BY <1>1, WriterSafe, PTL

\* Every row that was ever offered is held, stored, refused or given up.
THEOREM WriterNoSilentLoss == Spec => []NoSilentLoss
<1>1. WriterInvariant => NoSilentLoss
  <2> SUFFICES ASSUME WriterInvariant, NEW w \in Writers
               PROVE  1 .. offered[w] = Held(w) \cup ToSet(table[w]) \cup refused[w] \cup failed[w]
    BY DEF NoSilentLoss
  <2>1. /\ Held(w) \subseteq 1 .. offered[w]
        /\ \A x : x \in Held(w) <=> x \in ToSet(inserting[w]) \/ Waits(x, queue[w])
    BY HeldIsOffered
  <2>2. WriterOK(w) /\ table[w] \in Seq(Row)
    BY QueueIs DEF WriterInvariant
  <2>3. ToSet(table[w]) \subseteq 1 .. offered[w]
    BY <2>2, RowsAre DEF ToSet, Within, WriterOK, Ordered
  <2> QED
    BY <2>1, <2>2, <2>3 DEF WriterOK, Accounted, Warned
<1> QED
  BY <1>1, WriterSafe, PTL

\* The ack of a fence means that nothing offered before it is on its way.
THEOREM WriterAckedIsSettled == Spec => []AckedIsSettled
<1>1. WriterInvariant => AckedIsSettled
  <2> SUFFICES ASSUME WriterInvariant, NEW w \in acked, NEW x \in 1 .. before[w]
               PROVE  x \in ToSet(table[w]) \cup refused[w] \cup failed[w]
    BY DEF AckedIsSettled
  <2>1. w \in Writers /\ WriterOK(w)
    BY DEF WriterInvariant, TypeOK
  <2>2. /\ inserting[w] \in Seq(Row) /\ \A k \in 1 .. Len(queue[w]) : queue[w][k] \in Seq(Row)
        /\ offered[w] \in Nat /\ before[w] \in Nat
    BY <2>1, QueueIs DEF WriterInvariant
  <2>3. \A s \in Seq(Row) : Beyond(s, before[w]) => x \notin ToSet(s)
    BY <2>2, RowsAre DEF ToSet, Beyond
  <2>4. x \notin ToSet(inserting[w]) /\ ~Waits(x, queue[w])
    BY <2>1, <2>2, <2>3 DEF WriterOK, Fenced, Waits
  <2>5. x \in 1 .. offered[w]
    BY <2>1, <2>2 DEF WriterOK, Fenced
  <2> QED
    BY <2>1, <2>4, <2>5 DEF WriterOK, Accounted
<1> QED
  BY <1>1, WriterSafe, PTL

\* The table lists rows in the order in which they were offered, each once.
THEOREM WriterStoredOnceInOrder == Spec => []StoredOnceInOrder
<1>1. WriterInvariant => StoredOnceInOrder
  BY DEF WriterInvariant, WriterOK, Ordered, Sorted, StoredOnceInOrder
<1> QED
  BY <1>1, WriterSafe, PTL

-----------------------------------------------------------------------------
(***************************************************************************)
(* Proofs about NotificationEngine, for any keys, integrations, retries,   *)
(* capacity and number of starts.  The argument: a key stays claimed as    *)
(* long as anything knows of a push of it, that is while a call is open,   *)
(* a provider has confirmed it, its row is queued, or its row is stored    *)
(* and the process has been started from it; and notify() starts for keys  *)
(* that are not claimed only.                                              *)
(***************************************************************************)

\* What the process holds while it runs.
Claims ==
  /\ \A k \in Keys : calls[k] # {} => k \in deliveryLog
  /\ confirmed \subseteq deliveryLog
  /\ \A n \in 1 .. Len(historyQueue) : historyQueue[n] \in deliveryLog
  /\ up => history \subseteq deliveryLog

\* A call that is open is the first to push its key since the start.
Fresh ==
  \A k \in Keys : calls[k] # {} =>
    /\ k \notin history
    /\ \A n \in 1 .. Len(historyQueue) : historyQueue[n] # k
    /\ k \in confirmed => Sent(k) # {}

\* Integrations take part in a call only while it is open, and have attempts
\* left while they do.
Attempts ==
  \A k \in Keys, i \in Integrations :
    /\ result[k][i] = "idle" => attempts[k][i] = 0
    /\ result[k][i] = "sending" => attempts[k][i] < MaxRetries
    /\ result[k][i] = "sent" => k \in confirmed
    /\ result[k][i] # "idle" => i \in calls[k]

\* Rows and claims without a call are there because of a push.
Pushes ==
  /\ confirmed \subseteq pushed
  /\ history \subseteq pushed
  /\ \A n \in 1 .. Len(historyQueue) : historyQueue[n] \in pushed
  /\ NoLeakedClaim

\* Nothing of a process outlives it.
Down ==
  ~up => /\ deliveryLog = {} /\ confirmed = {} /\ historyQueue = <<>>
         /\ \A k \in Keys : calls[k] = {}
         /\ starts < MaxStarts

EngineInvariant == EngineTypeOK /\ Claims /\ Fresh /\ Attempts /\ Pushes /\ Down

-----------------------------------------------------------------------------
\* The channel with as many of n rows of k as it has room for.
Queued(q, k, n) ==
  LET rows == [j \in 1 .. n |-> k]
      room == HistoryCapacity - Len(q)
  IN q \o SubSeq(rows, 1, IF Len(rows) < room THEN Len(rows) ELSE room)

LEMMA RowsQueued ==
  ASSUME NEW k \in Keys, NEW q \in Seq(Keys), NEW n \in Nat, Len(q) <= HistoryCapacity
  PROVE  /\ Queued(q, k, n) \in Seq(Keys) /\ Len(Queued(q, k, n)) <= HistoryCapacity
         /\ \A j \in 1 .. Len(Queued(q, k, n)) :
              IF j \in 1 .. Len(q) THEN Queued(q, k, n)[j] = q[j]
              ELSE n > 0 /\ Queued(q, k, n)[j] = k
<1> DEFINE rows == [j \in 1 .. n |-> k]
           m == IF Len(rows) < HistoryCapacity - Len(q) THEN Len(rows) ELSE HistoryCapacity - Len(q)
           s == SubSeq(rows, 1, m)
<1>1. rows \in Seq(Keys) /\ Len(rows) = n
  OBVIOUS
<1>2. m \in 0 .. n /\ Len(q) + m <= HistoryCapacity
  BY <1>1, EngineAssumption DEF EngineAssumption
<1>3. s \in Seq(Keys) /\ Len(s) = m /\ \A j \in 1 .. m : s[j] = k
  BY <1>1, <1>2
<1>4. Queued(q, k, n) = q \o s
  BY DEF Queued
<1> HIDE DEF m, s, rows
<1> DEFINE qs == q \o s
<1>5. Queued(q, k, n) \in Seq(Keys) /\ Len(Queued(q, k, n)) = Len(q) + m
  <2>1. qs \in Seq(Keys) /\ Len(qs) = Len(q) + Len(s)
    BY <1>3
  <2> QED
    BY <2>1, <1>3, <1>4
<1>6. \A j \in 1 .. Len(Queued(q, k, n)) :
        IF j \in 1 .. Len(q) THEN Queued(q, k, n)[j] = q[j] ELSE n > 0 /\ Queued(q, k, n)[j] = k
  BY <1>2, <1>3, <1>4, <1>5
<1> QED
  BY <1>2, <1>5, <1>6, EngineAssumption DEF EngineAssumption

LEMMA SentFinite ==
  ASSUME EngineTypeOK, NEW k \in Keys
  PROVE  /\ Cardinality(Sent(k)) \in Nat
         /\ Cardinality(Sent(k)) > 0 => Sent(k) # {}
<1>1. IsFiniteSet(Sent(k))
  <2>1. Sent(k) \subseteq Integrations
    BY DEF EngineTypeOK, Sent
  <2> QED
    BY <2>1, EngineAssumption, FS_Subset DEF EngineAssumption
<1> QED
  BY <1>1, FS_CardinalityType, FS_EmptySet

-----------------------------------------------------------------------------
LEMMA EngineStarts == EngineInit => EngineInvariant
  BY EngineAssumption
  DEF EngineAssumption, EngineInit, Idle, NoAttempts, EngineInvariant, EngineTypeOK, Claims, Fresh, Attempts,
      Pushes, NoLeakedClaim, Down

LEMMA NotifyStep ==
  ASSUME EngineInvariant, NEW k \in Keys, Notify(k)
  PROVE  EngineInvariant'
<1> USE EngineAssumption DEF EngineAssumption, EngineInvariant, Notify
<1>1. EngineTypeOK'
  BY DEF EngineTypeOK
<1>2. Claims'
  BY DEF EngineTypeOK, Claims
<1>3. Fresh'
  BY DEF EngineTypeOK, Claims, Fresh, Sent
<1>4. Attempts'
  BY DEF EngineTypeOK, Attempts
<1>5. Pushes' /\ Down'
  BY DEF EngineTypeOK, Pushes, NoLeakedClaim, Down
<1> QED
  BY <1>1, <1>2, <1>3, <1>4, <1>5

LEMMA SendSucceedsStep ==
  ASSUME EngineInvariant, NEW k \in Keys, NEW i \in Integrations, SendSucceeds(k, i)
  PROVE  EngineInvariant'
<1> USE EngineAssumption DEF EngineAssumption, EngineInvariant, SendSucceeds
<1>0. i \in calls[k] /\ attempts[k][i] < MaxRetries
  BY DEF Attempts
<1>1. EngineTypeOK'
  BY <1>0 DEF EngineTypeOK
<1>2. Claims'
  BY <1>0 DEF EngineTypeOK, Claims
<1>3. Fresh'
  BY <1>0 DEF EngineTypeOK, Fresh, Sent
<1>4. Attempts'
  BY <1>0 DEF EngineTypeOK, Attempts
<1>5. Pushes' /\ Down'
  BY DEF EngineTypeOK, Pushes, NoLeakedClaim, Down
<1> QED
  BY <1>1, <1>2, <1>3, <1>4, <1>5

LEMMA SendFailsStep ==
  ASSUME EngineInvariant, NEW k \in Keys, NEW i \in Integrations, NEW transient \in BOOLEAN,
         SendFails(k, i, transient)
  PROVE  EngineInvariant'
<1> USE EngineAssumption DEF EngineAssumption, EngineInvariant, SendFails
<1>0. i \in calls[k] /\ attempts[k][i] < MaxRetries
  BY DEF Attempts
<1>1. EngineTypeOK'
  BY <1>0 DEF EngineTypeOK
<1>2. Claims'
  BY DEF EngineTypeOK, Claims
<1>3. Fresh'
  <2>1. \A j \in Keys : Sent(j)' = Sent(j)
    BY DEF EngineTypeOK, Sent
  <2> QED
    BY <2>1 DEF Fresh
<1>4. Attempts'
  BY <1>0 DEF EngineTypeOK, Attempts
<1>5. Pushes' /\ Down'
  BY DEF EngineTypeOK, Pushes, NoLeakedClaim, Down
<1> QED
  BY <1>1, <1>2, <1>3, <1>4, <1>5

\* A call that sent nothing gives its claim up: nothing else needs it (Fresh).
LEMMA NotifyReturnsStep ==
  ASSUME EngineInvariant, NEW k \in Keys, NotifyReturns(k)
  PROVE  EngineInvariant'
<1> USE EngineAssumption DEF EngineAssumption, EngineInvariant
<1>0. up /\ calls[k] # {}
  BY DEF NotifyReturns
<1>1. /\ historyQueue' \in Seq(Keys) /\ Len(historyQueue') <= HistoryCapacity
      /\ \A j \in 1 .. Len(historyQueue') : IF j \in 1 .. Len(historyQueue) THEN historyQueue'[j] = historyQueue[j]
                                     ELSE Sent(k) # {} /\ historyQueue'[j] = k
  <2>1. historyQueue' = Queued(historyQueue, k, Cardinality(Sent(k)))
    BY DEF NotifyReturns, Queued
  <2>2. Cardinality(Sent(k)) \in Nat /\ (Cardinality(Sent(k)) > 0 => Sent(k) # {})
    BY SentFinite
  <2>3. historyQueue \in Seq(Keys) /\ Len(historyQueue) <= HistoryCapacity
    BY DEF EngineTypeOK
  <2>4. /\ Queued(historyQueue, k, Cardinality(Sent(k))) \in Seq(Keys)
        /\ Len(Queued(historyQueue, k, Cardinality(Sent(k)))) <= HistoryCapacity
        /\ \A j \in 1 .. Len(Queued(historyQueue, k, Cardinality(Sent(k)))) :
             IF j \in 1 .. Len(historyQueue) THEN Queued(historyQueue, k, Cardinality(Sent(k)))[j] = historyQueue[j]
             ELSE Cardinality(Sent(k)) > 0 /\ Queued(historyQueue, k, Cardinality(Sent(k)))[j] = k
    BY <2>2, <2>3, RowsQueued
  <2> QED
    BY <2>1, <2>2, <2>4
<1>2. deliveryLog' = IF Sent(k) = {} THEN deliveryLog \ {k} ELSE deliveryLog
  BY DEF NotifyReturns, ClaimSettled
<1>3. Sent(k) # {} => k \in confirmed
  BY DEF EngineTypeOK, Attempts, Sent
<1>4. /\ calls' = [calls EXCEPT ![k] = {}]
      /\ result' = [result EXCEPT ![k] = [i \in Integrations |-> "idle"]]
      /\ attempts' = [attempts EXCEPT ![k] = [i \in Integrations |-> 0]]
      /\ UNCHANGED <<up, starts, enabled, history, confirmed, pushed>>
  BY DEF NotifyReturns, Idle, NoAttempts
<1>5. EngineTypeOK'
  BY <1>1, <1>2, <1>4 DEF EngineTypeOK
<1>6. Claims'
  BY <1>0, <1>1, <1>2, <1>3, <1>4 DEF EngineTypeOK, Claims, Fresh
<1>7. Fresh'
  <2>1. \A j \in Keys : j # k => Sent(j)' = Sent(j) /\ calls'[j] = calls[j]
    BY <1>4 DEF EngineTypeOK, Sent
  <2>2. calls'[k] = {}
    BY <1>4 DEF EngineTypeOK
  <2> QED
    BY <1>1, <1>4, <2>1, <2>2 DEF Fresh
<1>8. Attempts'
  BY <1>4 DEF EngineTypeOK, Attempts
<1>9. Pushes' /\ Down'
  BY <1>0, <1>1, <1>2, <1>3, <1>4 DEF EngineTypeOK, Pushes, NoLeakedClaim, Down
<1> QED
  BY <1>5, <1>6, <1>7, <1>8, <1>9

LEMMA RowStep ==
  ASSUME EngineInvariant, RowInserted \/ RowDropped
  PROVE  EngineInvariant'
<1>1. /\ up /\ historyQueue # <<>> /\ historyQueue' = Tail(historyQueue)
      /\ history' \in {history, history \cup {Head(historyQueue)}}
      /\ UNCHANGED <<up, starts, enabled, deliveryLog, calls, result, attempts, confirmed, pushed>>
  BY DEF RowInserted, RowDropped
<1>2. historyQueue \in Seq(Keys)
  BY DEF EngineInvariant, EngineTypeOK
<1>3. /\ historyQueue' \in Seq(Keys) /\ Len(historyQueue') < Len(historyQueue)
      /\ \A n \in 1 .. Len(historyQueue') : n + 1 \in 1 .. Len(historyQueue) /\ historyQueue'[n] = historyQueue[n + 1]
      /\ 1 \in 1 .. Len(historyQueue) /\ Head(historyQueue) = historyQueue[1] /\ Head(historyQueue) \in Keys
  BY <1>1, <1>2
<1>4. EngineTypeOK'
  BY <1>1, <1>3, EngineAssumption DEF EngineInvariant, EngineTypeOK, EngineAssumption
<1>5. Claims'
  BY <1>1, <1>3 DEF EngineInvariant, Claims
<1>6. Fresh'
  <2>1. \A j \in Keys : Sent(j)' = Sent(j)
    BY <1>1 DEF Sent
  <2> QED
    BY <1>1, <1>3, <2>1 DEF EngineInvariant, Fresh
<1>7. Attempts' /\ Down'
  BY <1>1 DEF EngineInvariant, Attempts, Down
<1>8. Pushes'
  BY <1>1, <1>3 DEF EngineInvariant, Pushes, NoLeakedClaim
<1> QED
  BY <1>4, <1>5, <1>6, <1>7, <1>8 DEF EngineInvariant

LEMMA ProcessStep ==
  ASSUME EngineInvariant, Crash \/ Restart
  PROVE  EngineInvariant'
<1> USE EngineAssumption DEF EngineAssumption, EngineInvariant
<1>1. CASE Crash
  <2>1. EngineTypeOK'
    <3>1. /\ calls' \in [Keys -> SUBSET Integrations]
          /\ result' \in [Keys -> [Integrations -> {"idle", "sending", "sent", "failed"}]]
          /\ attempts' \in [Keys -> [Integrations -> 0 .. MaxRetries]]
      BY <1>1 DEF Crash, Idle, NoAttempts
    <3>2. historyQueue' \in Seq(Keys) /\ Len(historyQueue') <= HistoryCapacity
      BY <1>1 DEF Crash
    <3> QED
      BY <1>1, <3>1, <3>2 DEF Crash, EngineTypeOK
  <2>2. Claims' /\ Fresh' /\ Down'
    BY <1>1 DEF Crash, EngineTypeOK, Claims, Fresh, Down
  <2>3. Attempts'
    BY <1>1 DEF Crash, Idle, NoAttempts, Attempts
  <2>4. Pushes'
    BY <1>1 DEF Crash, Pushes, NoLeakedClaim
  <2> QED
    BY <2>1, <2>2, <2>3, <2>4
<1>2. CASE Restart
  BY <1>2 DEF Restart, Seed, EngineTypeOK, Claims, Fresh, Attempts, Pushes, NoLeakedClaim, Down
<1> QED
  BY <1>1, <1>2

LEMMA EngineStep == EngineInvariant /\ [EngineNext]_engineVars => EngineInvariant'
<1> SUFFICES ASSUME EngineInvariant, [EngineNext]_engineVars PROVE EngineInvariant'
  OBVIOUS
<1>1. CASE \E k \in Keys : Notify(k) \/ NotifyReturns(k)
  BY <1>1, NotifyStep, NotifyReturnsStep
<1>2. CASE \E k \in Keys, i \in Integrations :
             SendSucceeds(k, i) \/ \E transient \in BOOLEAN : SendFails(k, i, transient)
  BY <1>2, SendSucceedsStep, SendFailsStep
<1>3. CASE RowInserted \/ RowDropped
  BY <1>3, RowStep
<1>4. CASE \E i \in Integrations : IntegrationToggled(i)
  <2>1. /\ enabled' \subseteq Integrations
        /\ UNCHANGED <<up, starts, deliveryLog, calls, result, attempts, historyQueue, history, confirmed, pushed>>
    BY <1>4 DEF IntegrationToggled, EngineInvariant, EngineTypeOK
  <2>2. \A k \in Keys : Sent(k)' = Sent(k)
    BY <2>1 DEF Sent
  <2> QED
    BY <2>1, <2>2 DEF EngineInvariant, EngineTypeOK, Claims, Fresh, Attempts, Pushes, NoLeakedClaim, Down
<1>5. CASE Crash \/ Restart
  BY <1>5, ProcessStep
<1>6. CASE UNCHANGED engineVars
  BY <1>6 DEF engineVars, EngineInvariant, EngineTypeOK, Claims, Fresh, Sent, Attempts, Pushes, NoLeakedClaim, Down
<1> QED
  BY <1>1, <1>2, <1>3, <1>4, <1>5, <1>6 DEF EngineNext

\* The invariant holds of every behaviour of the engine.
THEOREM EngineSafe == EngineSpec => []EngineInvariant
  BY EngineStarts, EngineStep, PTL DEF EngineSpec

\* Every variable keeps its type: no call makes more than MAX_RETRIES attempts
\* and the channel holds no more than its capacity.
THEOREM EngineTypes == EngineSpec => []EngineTypeOK
<1>1. EngineInvariant => EngineTypeOK
  BY DEF EngineInvariant
<1> QED
  BY <1>1, EngineSafe, PTL

\* A claim without a call in progress stands for a push: a failed notify()
\* leaves nothing behind that silences the next one.
THEOREM EngineNoLeakedClaim == EngineSpec => []NoLeakedClaim
<1>1. EngineInvariant => NoLeakedClaim
  BY DEF EngineInvariant, Pushes
<1> QED
  BY <1>1, EngineSafe, PTL

\* notify() opens a call for keys that are not claimed only.
LEMMA OpensUnclaimed ==
  ASSUME EngineInvariant, [EngineNext]_engineVars, NEW k \in Keys, calls[k] = {}, calls'[k] # {}
  PROVE  up /\ k \notin deliveryLog
<1>1. PICK j \in Keys : Notify(j) /\ calls'[k] # {} /\ calls[k] = {}
  BY DEF EngineNext, engineVars, NotifyReturns, SendSucceeds, SendFails, RowInserted, RowDropped,
         IntegrationToggled, Crash, Restart, EngineInvariant, EngineTypeOK
<1>2. j = k
  BY <1>1 DEF Notify, EngineInvariant, EngineTypeOK
<1> QED
  BY <1>1, <1>2 DEF Notify

\* Once a provider confirmed a key, the process sends it no more.
THEOREM EngineOncePerRun == EngineSpec => OncePerRun
<1>1. EngineInvariant /\ [EngineNext]_engineVars =>
        [\A k \in Keys : calls[k] = {} /\ k \in confirmed => calls'[k] = {}]_engineVars
  BY OpensUnclaimed DEF EngineInvariant, Claims
<1> QED
  BY <1>1, EngineSafe, PTL DEF EngineSpec, OncePerRun

\* Nor does any later process, once the row of the key is stored.
THEOREM EngineDurableIsFinal == EngineSpec => DurableIsFinal
<1>1. EngineInvariant /\ [EngineNext]_engineVars =>
        [\A k \in history : calls'[k] # {} => calls[k] # {}]_engineVars
  BY OpensUnclaimed DEF EngineInvariant, Claims, EngineTypeOK
<1> QED
  BY <1>1, EngineSafe, PTL DEF EngineSpec, DurableIsFinal
=============================================================================
