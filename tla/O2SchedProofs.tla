--------------------------- MODULE O2SchedProofs ---------------------------
(***************************************************************************)
(* Proofs about O2Sched, for tables, bins, clocks and messages of any      *)
(* number: no message is lost, overdue or early (InItsPlace), and they are *)
(* dispatched in the order of their timestamps (DispatchedInOrder).        *)
(***************************************************************************)
EXTENDS O2Sched, SequenceTheorems, TLAPS

---------------------------------------------------------------------------
(* Bins and slots. *)

\* A bin is a whole number of ticks; it grows with time, one second is
\* BinsPerSecond bins, and the next bin begins after all times of this one.
LEMMA BinFacts ==
    ASSUME NEW t \in Int, NEW u \in Int
    PROVE  /\ O2_SCHED_BIN(t) \in Int
           /\ t <= u => O2_SCHED_BIN(t) <= O2_SCHED_BIN(u)
           /\ O2_SCHED_BIN(t) < O2_SCHED_BIN(u) => t < u
           /\ O2_SCHED_BIN(t + Second) = O2_SCHED_BIN(t) + BinsPerSecond
           /\ Second \in Nat \ {0}
  <1>1. /\ O2_SCHED_BIN(t) \in Int
        /\ t <= u => O2_SCHED_BIN(t) <= O2_SCHED_BIN(u)
        /\ O2_SCHED_BIN(t) < O2_SCHED_BIN(u) => t < u
    BY SizeAssumption DEF O2_SCHED_BIN
  <1>2. O2_SCHED_BIN(t + Second) = O2_SCHED_BIN(t) + BinsPerSecond
    BY SizeAssumption DEF O2_SCHED_BIN, Second
  <1>3. Second \in Nat \ {0}
    BY SizeAssumption DEF Second
  <1> QED  BY <1>1, <1>2, <1>3

\* Every bin has a slot.
LEMMA SlotFacts ==
    ASSUME NEW b \in Int
    PROVE  O2_SCHED_BIN_TO_INDEX(b) \in Slots
  BY SizeAssumption DEF O2_SCHED_BIN_TO_INDEX, Slots

\* Bins that are less than a turn of the wheel apart do not share a slot: the
\* reason for the "1s at a time" of sched_dispatch.
LEMMA OneTurn ==
    ASSUME NEW a \in Int, NEW b \in Int,
           O2_SCHED_BIN_TO_INDEX(a) = O2_SCHED_BIN_TO_INDEX(b),
           a <= b, b < a + TableLen
    PROVE  a = b
  <1> DEFINE N == TableLen
             x == a \div N
             y == b \div N
  <1>1. N \in Nat \ {0}
    BY SizeAssumption
  <1>2. a = (N * x) + (a % N) /\ b = (N * y) + (b % N) /\ x \in Int /\ y \in Int
    BY <1>1
  <1>3. (a % N) = (b % N) /\ (a % N) \in Int
    BY <1>1 DEF O2_SCHED_BIN_TO_INDEX
  <1> HIDE DEF N, x, y
  <1>4. b - a = N * (y - x)
    BY <1>1, <1>2, <1>3
  <1>5. b - a < N /\ b - a >= 0
    BY <1>1 DEF N
  <1>6. y - x \in Int /\ ~(y - x >= 1) /\ ~(y - x <= -1)
    BY <1>1, <1>2, <1>4, <1>5
  <1> QED  BY <1>2, <1>4, <1>6, <1>1

---------------------------------------------------------------------------
(* Tables of sorted lists. *)

Tables == [Slots -> Seq(Msgs)]

\* The messages of a table; InTable(s) is Content(table[s]).
Content(t) == UNION {Range(t[i]) : i \in Slots}

\* Each message is in the slot of its time, once, behind the earlier ones.
Sorted(t, f) ==
    \A i \in Slots : \A j \in 1..Len(t[i]) :
        /\ O2_SCHED_INDEX(f[t[i][j]]) = i
        /\ \A k \in 1..(j - 1) : f[t[i][k]] <= f[t[i][j]] /\ t[i][k] # t[i][j]

\* A message of a table has a slot and a place there.
LEMMA ContentDef ==
    ASSUME NEW t \in Tables, NEW m
    PROVE  /\ m \in Content(t) <=>
                 \E i \in Slots : \E j \in 1..Len(t[i]) : t[i][j] = m
           /\ m \in Content(t) => m \in Msgs
  <1>1. \A i \in Slots : t[i] \in Seq(Msgs)
    BY DEF Tables
  <1>2. \A i \in Slots : DOMAIN t[i] = 1..Len(t[i])
    BY <1>1
  <1>3. \A i \in Slots : m \in Range(t[i]) <=> \E j \in 1..Len(t[i]) : t[i][j] = m
    BY <1>2 DEF Range
  <1>4. \A i \in Slots : \A j \in 1..Len(t[i]) : t[i][j] \in Msgs
    BY <1>1
  <1> QED  BY <1>3, <1>4 DEF Content

\* A new table has nothing in it.
LEMMA EmptyContent == EmptyTable \in Tables /\ Content(EmptyTable) = {}
  <1>1. EmptyTable \in Tables
    BY DEF EmptyTable, Tables
  <1>2. \A m : m \notin Content(EmptyTable)
    BY <1>1, ContentDef DEF EmptyTable
  <1> QED  BY <1>1, <1>2

\* Inserting into a list at p, as o2_schedule does.
LEMMA InsertFacts ==
    ASSUME NEW l \in Seq(Msgs), NEW m \in Msgs, NEW p \in 1..(Len(l) + 1)
    PROVE  /\ InsertAt(l, p, m) \in Seq(Msgs)
           /\ Len(InsertAt(l, p, m)) = Len(l) + 1
           /\ \A j \in 1..(p - 1) : InsertAt(l, p, m)[j] = l[j]
           /\ InsertAt(l, p, m)[p] = m
           /\ \A j \in (p + 1)..(Len(l) + 1) : InsertAt(l, p, m)[j] = l[j - 1]
  <1> DEFINE a == SubSeq(l, 1, p - 1)
             c == SubSeq(l, p, Len(l))
             b == a \o <<m>>
  <1>1. /\ Len(l) \in Nat
        /\ a \in Seq(Msgs) /\ Len(a) = p - 1
        /\ \A j \in 1..(p - 1) : a[j] = l[j]
    OBVIOUS
  <1>2. /\ c \in Seq(Msgs) /\ Len(c) = Len(l) - p + 1
        /\ \A j \in 1..(Len(l) - p + 1) : c[j] = l[p + j - 1]
    OBVIOUS
  <1> HIDE DEF a, c
  <1>3. /\ b \in Seq(Msgs) /\ Len(b) = p /\ p \in Nat
        /\ \A j \in 1..(p - 1) : b[j] = a[j]
        /\ b[p] = m
    BY <1>1
  <1> HIDE DEF b
  <1>4. /\ b \o c \in Seq(Msgs) /\ Len(b \o c) = Len(b) + Len(c)
        /\ \A j \in 1..(Len(b) + Len(c)) :
              (b \o c)[j] = IF j <= Len(b) THEN b[j] ELSE c[j - Len(b)]
    BY <1>2, <1>3, ConcatProperties
  <1>5. Len(b) + Len(c) = Len(l) + 1
    BY <1>1, <1>2, <1>3
  <1>6. \A j \in 1..p : (b \o c)[j] = b[j]
    BY <1>1, <1>3, <1>4, <1>5
  <1>7. \A j \in (p + 1)..(Len(l) + 1) : (b \o c)[j] = l[j - 1]
    <2> TAKE j \in (p + 1)..(Len(l) + 1)
    <2>1. /\ j \in 1..(Len(l) + 1) /\ ~(j <= p)
          /\ j - p \in 1..(Len(l) - p + 1) /\ p + (j - p) - 1 = j - 1
      BY <1>1
    <2>2. (b \o c)[j] = c[j - p]
      BY <2>1, <1>3, <1>4, <1>5
    <2> QED  BY <2>1, <2>2, <1>2
  <1>8. InsertAt(l, p, m) = b \o c
    BY DEF InsertAt, a, b, c
  <1> QED  BY <1>1, <1>3, <1>4, <1>5, <1>6, <1>7, <1>8

\* The insertion point p that Enqueue looks for, and the table afterwards.
InsertionPoint(t, f, m, i, p) ==
    /\ i \in Slots /\ i = O2_SCHED_INDEX(f[m])
    /\ p \in 1..(Len(t[i]) + 1)
    /\ \A j \in 1..(p - 1) : f[t[i][j]] <= f[m]
    /\ p <= Len(t[i]) => f[t[i][p]] > f[m]

Inserted(t, m, i, p) == [t EXCEPT ![i] = InsertAt(t[i], p, m)]

\* A message inserted in the list of its slot before the first later one.
LEMMA InsertSorted ==
    ASSUME NEW t \in Tables, NEW f \in [Msgs -> Int], Sorted(t, f),
           NEW m \in Msgs, m \notin Content(t), NEW i, NEW p,
           InsertionPoint(t, f, m, i, p)
    PROVE  /\ Inserted(t, m, i, p) \in Tables
           /\ Content(Inserted(t, m, i, p)) = Content(t) \cup {m}
           /\ Sorted(Inserted(t, m, i, p), f)
  <1> DEFINE l == t[i]
             n == InsertAt(l, p, m)
             u == [t EXCEPT ![i] = n]
             L == Len(l)
  <1>0. /\ i \in Slots /\ i = O2_SCHED_INDEX(f[m])
        /\ p \in 1..(Len(t[i]) + 1)
    BY DEF InsertionPoint
  <1>1. l \in Seq(Msgs) /\ L \in Nat /\ p \in 1..(L + 1) /\ p \in Nat
    BY <1>0 DEF Tables
  <1>2. /\ n \in Seq(Msgs) /\ Len(n) = L + 1
        /\ \A j \in 1..(p - 1) : n[j] = l[j]
        /\ n[p] = m
        /\ \A j \in (p + 1)..(L + 1) : n[j] = l[j - 1]
    <2> HIDE DEF l
    <2> QED  BY <1>1, InsertFacts
  <1>3. /\ u \in Tables /\ u[i] = n
        /\ \A h \in Slots \ {i} : u[h] = t[h]
    BY <1>0, <1>2 DEF Tables
  <1>4. \A j \in 1..L : l[j] # m /\ l[j] \in Msgs
    BY ContentDef, <1>0, <1>1
  <1>5. \A j \in 1..(p - 1) : f[l[j]] <= f[m]
    BY DEF InsertionPoint
  <1>6. p <= L => f[l[p]] > f[m]
    BY DEF InsertionPoint
  <1>7. \A x \in 1..L :
           /\ O2_SCHED_INDEX(f[l[x]]) = i
           /\ f[l[x]] \in Int
           /\ \A y \in 1..(x - 1) : f[l[y]] <= f[l[x]] /\ l[y] # l[x]
    BY <1>0, <1>4 DEF Sorted
  <1>c. \A k : (\E j \in 1..L : l[j] = k) => k \in Content(t)
    BY <1>0, ContentDef
  <1> HIDE DEF n, u, l, L
  <1>8. \A j \in 1..(L + 1) :
           \/ j \in 1..(p - 1) /\ j \in 1..L /\ n[j] = l[j]
           \/ j = p /\ n[j] = m
           \/ j \in (p + 1)..(L + 1) /\ j - 1 \in 1..L /\ n[j] = l[j - 1]
    <2> TAKE j \in 1..(L + 1)
    <2>1. CASE j < p
      <3>1. j \in 1..(p - 1) /\ j \in 1..L
        BY <2>1, <1>1
      <3> QED  BY <3>1, <1>2
    <2>2. CASE j = p
      BY <2>2, <1>2
    <2>3. CASE j > p
      <3>1. j \in (p + 1)..(L + 1) /\ j - 1 \in 1..L
        BY <2>3, <1>1
      <3> QED  BY <3>1, <1>2
    <2> QED  BY <2>1, <2>2, <2>3, <1>1
  <1>9. Content(u) = Content(t) \cup {m}
    <2>1. ASSUME NEW k \in Content(u)
          PROVE  k \in Content(t) \cup {m}
      <3>1. PICK h \in Slots, j \in Int : j \in 1..Len(u[h]) /\ u[h][j] = k
        BY <1>3, ContentDef
      <3>2. CASE h # i
        BY <3>1, <3>2, <1>3, ContentDef
      <3>3. CASE h = i
        <4>1. j \in 1..(L + 1) /\ n[j] = k
          BY <1>2, <1>3, <3>1, <3>3
        <4>2. k = m \/ \E jj \in 1..L : l[jj] = k
          BY <4>1, <1>8
        <4> QED  BY <4>2, <1>c
      <3> QED  BY <3>2, <3>3
    <2>2. m \in Content(u)
      <3>1. p \in 1..Len(u[i]) /\ u[i][p] = m
        BY <1>1, <1>2, <1>3
      <3> QED  BY <3>1, <1>0, <1>3, ContentDef
    <2>3. ASSUME NEW k \in Content(t)
          PROVE  k \in Content(u)
      <3>1. PICK h \in Slots, j \in Int : j \in 1..Len(t[h]) /\ t[h][j] = k
        BY ContentDef
      <3>2. CASE h # i
        BY <3>1, <3>2, <1>3, ContentDef
      <3>3. CASE h = i
        <4>1. j \in 1..L /\ l[j] = k
          BY <3>1, <3>3 DEF l, L
        <4>2. CASE j < p
          <5>1. j \in 1..(p - 1) /\ j \in 1..(L + 1)
            BY <4>1, <4>2, <1>1
          <5> QED  BY <5>1, <4>1, <1>0, <1>2, <1>3, ContentDef
        <4>3. CASE j >= p
          <5>1. j + 1 \in (p + 1)..(L + 1) /\ j + 1 \in 1..(L + 1) /\ (j + 1) - 1 = j
            BY <4>1, <4>3, <1>1
          <5>2. n[j + 1] = k
            BY <5>1, <4>1, <1>2
          <5> QED  BY <5>1, <5>2, <1>0, <1>2, <1>3, ContentDef
        <4> QED  BY <4>1, <4>2, <4>3, <1>1
      <3> QED  BY <3>2, <3>3
    <2> QED  BY <2>1, <2>2, <2>3
  <1>10. Sorted(u, f)
    <2> SUFFICES ASSUME NEW h \in Slots, NEW j \in 1..Len(u[h])
                 PROVE  /\ O2_SCHED_INDEX(f[u[h][j]]) = h
                        /\ \A k \in 1..(j - 1) :
                              f[u[h][k]] <= f[u[h][j]] /\ u[h][k] # u[h][j]
      BY DEF Sorted
    <2>1. CASE h # i
      BY <2>1, <1>3 DEF Sorted
    <2>2. CASE h = i
      <3>2. f[m] \in Int
        OBVIOUS
      <3>3. \A x \in 1..L : x >= p => f[m] < f[l[x]]
        <4> SUFFICES ASSUME NEW x \in 1..L, x >= p  PROVE f[m] < f[l[x]]
          OBVIOUS
        <4>1. p \in 1..L /\ f[l[p]] > f[m] /\ f[l[p]] \in Int
          BY <1>1, <1>6, <1>7
        <4>2. x = p \/ p \in 1..(x - 1)
          BY <1>1
        <4>3. x # p => f[l[p]] <= f[l[x]]
          BY <4>2, <1>7
        <4> QED  BY <4>1, <4>3, <1>7, <3>2
      <3>4. j \in 1..(L + 1) /\ u[h] = n
        BY <2>2, <1>2, <1>3
      <3>5. O2_SCHED_INDEX(f[n[j]]) = h
        BY <3>4, <1>0, <1>7, <1>8, <2>2
      <3>6. ASSUME NEW k \in 1..(j - 1)
            PROVE  f[n[k]] <= f[n[j]] /\ n[k] # n[j]
        <4>1. k \in 1..(L + 1) /\ k < j
          BY <3>4, <1>1
        <4>2. CASE j \in 1..(p - 1) /\ j \in 1..L /\ n[j] = l[j]
          <5>1. k \in 1..(p - 1)
            BY <4>1, <4>2, <1>1
          <5> QED  BY <5>1, <4>2, <1>2, <1>7
        <4>3. CASE j = p /\ n[j] = m
          <5>1. k \in 1..(p - 1) /\ k \in 1..L
            BY <4>1, <4>3, <1>1
          <5> QED  BY <5>1, <4>3, <1>2, <1>4, <1>5
        <4>4. CASE j \in (p + 1)..(L + 1) /\ j - 1 \in 1..L /\ n[j] = l[j - 1]
          <5>1. CASE k \in 1..(p - 1) /\ k \in 1..L /\ n[k] = l[k]
            <6>1. k \in 1..((j - 1) - 1)
              BY <4>1, <4>4, <5>1, <1>1
            <6> QED  BY <4>4, <5>1, <6>1, <1>7
          <5>2. CASE k = p /\ n[k] = m
            <6>1. j - 1 >= p
              BY <4>4, <1>1
            <6>2. f[m] < f[l[j - 1]] /\ f[l[j - 1]] \in Int
              BY <4>4, <6>1, <1>7, <3>3
            <6> QED  BY <4>4, <5>2, <6>2, <3>2, <1>4
          <5>3. CASE k \in (p + 1)..(L + 1) /\ k - 1 \in 1..L /\ n[k] = l[k - 1]
            <6>1. k - 1 \in 1..((j - 1) - 1)
              BY <4>1, <4>4, <5>3, <1>1
            <6> QED  BY <4>4, <5>3, <6>1, <1>7
          <5> QED  BY <4>1, <5>1, <5>2, <5>3, <1>8
        <4> QED  BY <3>4, <4>2, <4>3, <4>4, <1>8
      <3> QED  BY <3>4, <3>5, <3>6
    <2> QED  BY <2>1, <2>2
  <1> QED  BY <1>3, <1>9, <1>10 DEF u, n, l, Inserted

\* The order of a table does not depend on a message that is not in it.
LEMMA OtherTime ==
    ASSUME NEW t \in Tables, NEW f \in [Msgs -> Int], Sorted(t, f),
           NEW m \in Msgs, m \notin Content(t), NEW x \in Int
    PROVE  Sorted(t, [f EXCEPT ![m] = x])
  <1>1. \A i \in Slots : \A j \in 1..Len(t[i]) : t[i][j] \in Msgs \ {m}
    BY ContentDef
  <1>2. \A i \in Slots : \A j \in 1..Len(t[i]) : \A k \in 1..(j - 1) :
           k \in 1..Len(t[i])
    <2>1. \A i \in Slots : Len(t[i]) \in Nat
      BY DEF Tables
    <2> QED  BY <2>1
  <1>3. \A k \in Msgs \ {m} : [f EXCEPT ![m] = x][k] = f[k]
    OBVIOUS
  <1> QED  BY <1>1, <1>2, <1>3 DEF Sorted

Removed(t, i) == [t EXCEPT ![i] = Tail(t[i])]

\* Unlinking the first message of a slot, which is the earliest of the slot.
LEMMA RemoveSorted ==
    ASSUME NEW t \in Tables, NEW f \in [Msgs -> Int], Sorted(t, f),
           NEW i \in Slots, t[i] # << >>
    PROVE  /\ Removed(t, i) \in Tables /\ Sorted(Removed(t, i), f)
           /\ Content(Removed(t, i)) = Content(t) \ {Head(t[i])}
           /\ Head(t[i]) \in Content(t) /\ Head(t[i]) \in Msgs
           /\ O2_SCHED_INDEX(f[Head(t[i])]) = i
           /\ \A k \in Content(t) :
                 O2_SCHED_INDEX(f[k]) = i => f[Head(t[i])] <= f[k]
  <1> DEFINE l == t[i]
             n == Tail(l)
             m == Head(l)
             u == [t EXCEPT ![i] = n]
  <1>1. /\ l \in Seq(Msgs) /\ Len(l) \in Nat /\ Len(l) > 0
        /\ n \in Seq(Msgs) /\ Len(n) = Len(l) - 1
        /\ \A j \in 1..(Len(l) - 1) : n[j] = l[j + 1]
        /\ m = l[1]
    BY DEF Tables
  <1>2. /\ u \in Tables /\ u[i] = n
        /\ \A h \in Slots \ {i} : u[h] = t[h]
    BY <1>1 DEF Tables
  <1> HIDE DEF n, u, m
  <1>a. u[i] = n /\ Len(l) \in Nat /\ Len(n) = Len(l) - 1
    BY <1>1, <1>2
  <1>3. /\ 1 \in 1..Len(l) /\ m \in Content(t) /\ m \in Msgs
        /\ O2_SCHED_INDEX(f[m]) = i
    <2>1. 1 \in 1..Len(l)
      BY <1>1
    <2>2. m \in Content(t) /\ m \in Msgs
      BY <2>1, <1>1, ContentDef
    <2> QED  BY <2>1, <2>2, <1>1 DEF Sorted
  <1>4. \A j \in 2..Len(l) : l[j] # m /\ f[m] <= f[l[j]]
    <2> TAKE j \in 2..Len(l)
    <2>1. j \in 1..Len(l) /\ 1 \in 1..(j - 1)
      BY <1>1
    <2> QED  BY <2>1, <1>1 DEF Sorted
  <1>5. \A h \in Slots : \A j \in 1..Len(t[h]) : O2_SCHED_INDEX(f[t[h][j]]) = h
    BY DEF Sorted
  <1>6. ASSUME NEW k \in Content(t), O2_SCHED_INDEX(f[k]) = i
        PROVE  f[m] <= f[k]
    <2>1. PICK h \in Slots, j \in Int : j \in 1..Len(t[h]) /\ t[h][j] = k
      BY ContentDef
    <2>2. h = i
      BY <2>1, <1>5, <1>6
    <2>3. j = 1 \/ j \in 2..Len(l)
      BY <2>1, <2>2, <1>1
    <2>4. f[m] \in Int
      BY <1>3
    <2> QED  BY <2>1, <2>2, <2>3, <2>4, <1>1, <1>4
  <1>7. Content(u) = Content(t) \ {m}
    <2>1. ASSUME NEW k \in Content(u)
          PROVE  k \in Content(t) \ {m}
      <3>1. PICK h \in Slots, j \in Int : j \in 1..Len(u[h]) /\ u[h][j] = k
        BY <1>2, ContentDef
      <3>2. CASE h # i
        <4>1. j \in 1..Len(t[h]) /\ t[h][j] = k
          BY <3>1, <3>2, <1>2
        <4>2. k \in Content(t) /\ O2_SCHED_INDEX(f[k]) = h
          BY <4>1, <1>5, ContentDef
        <4> QED  BY <4>2, <3>2, <1>3
      <3>3. CASE h = i
        <4>0. j \in 1..Len(n) /\ n[j] = k
          BY <3>1, <3>3, <1>a
        <4>1. j + 1 \in 2..Len(l) /\ j + 1 \in 1..Len(l)
          BY <4>0, <1>a
        <4>2. l[j + 1] = k
          BY <4>0, <1>1, <1>a
        <4> QED  BY <4>1, <4>2, <1>4, ContentDef
      <3> QED  BY <3>2, <3>3
    <2>2. ASSUME NEW k \in Content(t), k # m
          PROVE  k \in Content(u)
      <3>1. PICK h \in Slots, j \in Int : j \in 1..Len(t[h]) /\ t[h][j] = k
        BY ContentDef
      <3>2. CASE h # i
        BY <3>1, <3>2, <1>2, ContentDef
      <3>3. CASE h = i
        <4>1. j # 1
          BY <3>1, <3>3, <2>2, <1>1
        <4>2. j - 1 \in 1..(Len(l) - 1) /\ (j - 1) + 1 = j
          BY <4>1, <3>1, <3>3, <1>1
        <4>3. j - 1 \in 1..Len(u[i]) /\ u[i][j - 1] = k
          BY <4>2, <3>1, <3>3, <1>1, <1>2
        <4> QED  BY <4>3, <1>2, ContentDef
      <3> QED  BY <3>2, <3>3
    <2> QED  BY <2>1, <2>2
  <1>8. Sorted(u, f)
    <2> SUFFICES ASSUME NEW h \in Slots, NEW j \in 1..Len(u[h])
                 PROVE  /\ O2_SCHED_INDEX(f[u[h][j]]) = h
                        /\ \A k \in 1..(j - 1) :
                              f[u[h][k]] <= f[u[h][j]] /\ u[h][k] # u[h][j]
      BY DEF Sorted
    <2>1. CASE h # i
      BY <2>1, <1>2 DEF Sorted
    <2>2. CASE h = i
      <3>0. u[h] = n /\ j \in 1..Len(n)
        BY <2>2, <1>a
      <3>1. u[h] = n /\ j \in 1..(Len(l) - 1) /\ j + 1 \in 1..Len(l)
        BY <3>0, <1>a
      <3>2. u[h][j] = l[j + 1]
        BY <3>1, <1>1
      <3>3. ASSUME NEW k \in 1..(j - 1)
            PROVE  k + 1 \in 1..((j + 1) - 1) /\ u[h][k] = l[k + 1]
        <4>1. k \in 1..(Len(l) - 1) /\ k + 1 \in 1..((j + 1) - 1)
          BY <3>1, <1>1
        <4> QED  BY <3>1, <4>1, <1>1
      <3>4. /\ O2_SCHED_INDEX(f[l[j + 1]]) = i
            /\ \A k \in 1..((j + 1) - 1) :
                  f[l[k]] <= f[l[j + 1]] /\ l[k] # l[j + 1]
        BY <3>1, <1>1 DEF Sorted
      <3> QED  BY <2>2, <3>2, <3>3, <3>4
    <2> QED  BY <2>1, <2>2
  <1> QED  BY <1>2, <1>3, <1>6, <1>7, <1>8 DEF u, n, m, Removed

---------------------------------------------------------------------------
(* The inductive invariant. *)

Sched == run.sched

\* Only a started scheduler has messages, and each of them once, in the slot
\* of its time, behind all the earlier ones of that slot.
Placed ==
    /\ ~started => InTable("gt") = {}
    /\ \A s \in Scheds : Sorted(table[s], ts)

\* What is in a table is not behind the time that its scheduler has reached, nor, as
\* long as that is so of what it was given, the time at which it was started.
Pending ==
    \A s \in Scheds : InOrder(s) => \A m \in InTable(s) :
        ts[m] >= last_time[s] /\ (s = "gt" => ts[m] >= since)

\* The scan has not come to the bin in which global time began: last_bin is ahead of
\* last_time until it has, if a handler started the scheduler.
Unbegun(s) == s = "gt" /\ last_bin[s] <= O2_SCHED_BIN(since)

\* last_bin is the bin of last_time, unless global time has not begun for the scan or a
\* scan is moving it ahead; the scan stops at the bin after that of run.until, at most
\* a second away, and leaves nothing in the bins behind it that is due.
Reached ==
    /\ \A s \in Scheds :
          /\ O2_SCHED_BIN(last_time[s]) <= last_bin[s]
          /\ InOrder(s) =>
                \/ last_bin[s] <= O2_SCHED_BIN(last_time[s])
                \/ Unbegun(s)
                \/ run.at = "scan" /\ Sched = s
    /\ run.at # "idle" =>
          /\ O2_SCHED_BIN(run.until) <= last_bin[Sched] + BinsPerSecond
          /\ InOrder(Sched) =>
                /\ \/ last_bin[Sched] <= O2_SCHED_BIN(run.until) + 1
                   \/ Unbegun(Sched)
                /\ \A m \in InTable(Sched) :
                      \/ O2_SCHED_BIN(ts[m]) >= last_bin[Sched]
                      \/ ts[m] > run.until

\* The pass to a time before the one at which the global scheduler was started: to -1.0
\* if a handler of the same poll did that, or to the time of a clock that it is ahead of.
Rewound ==
    /\ Sched = "gt" /\ run.at = "scan" /\ last_time[Sched] = since
    /\ run.until = run.target

\* A scheduler has not gone beyond time t, unless it was started there.
Reaches(s, t) == last_time[s] <= t \/ (s = "gt" /\ last_time[s] = since)

\* The times of a dispatch, and the global time that o2_poll fetched for the
\* dispatch that follows (-1.0 if there was none), are between what was reached and the
\* clock.
InTime ==
    /\ \A s \in Scheds : Reaches(s, now[s])
    /\ run.at # "idle" =>
          /\ -Second <= run.until /\ run.until <= run.target
          /\ run.target <= now[Sched]
          /\ last_time[Sched] <= run.until \/ Rewound
          /\ Sched = "gt" => started
          /\ Sched = "lt" =>
                /\ -Second <= run.gnow
                /\ started => Reaches("gt", run.gnow) /\ run.gnow <= now["gt"]
                /\ ~started => run.gnow = -Second

IInv == TypeOK /\ Accounted /\ Placed /\ Pending /\ Reached /\ InTime

---------------------------------------------------------------------------
(* IInv is inductive. *)

\* The types that the steps below use.
LEMMA TypeFacts ==
    ASSUME TypeOK
    PROVE  /\ \A s \in Scheds :
                 /\ table[s] \in Tables /\ InTable(s) = Content(table[s])
                 /\ last_bin[s] \in Int /\ last_time[s] \in Int /\ now[s] \in Time
           /\ ts \in [Msgs -> Int] /\ Time \subseteq Int
           /\ \A m \in Msgs : ts[m] \in Time /\ ts[m] \in Int
           /\ Sched \in Scheds /\ run.until \in Int /\ run.target \in Int
           /\ run.gnow \in Int
           /\ run.at \in {"idle", "scan", "handler"}
           /\ \A s \in Scheds : InTable(s) \subseteq Msgs
           /\ since \in Time /\ since \in Int /\ O2_SCHED_BIN(since) \in Int
           /\ Second \in Nat
  <1>1. Second \in Nat /\ Time \subseteq Int
    BY BinFacts, SizeAssumption DEF Time
  <1>2. \A s \in Scheds : table[s] \in Tables
    BY DEF TypeOK, Tables
  <1>3. \A s \in Scheds : InTable(s) = Content(table[s])
    BY DEF InTable, Content
  <1>4. \A s \in Scheds :
           last_bin[s] \in Int /\ last_time[s] \in Int /\ now[s] \in Time
    BY <1>1 DEF TypeOK
  <1>5. ts \in [Msgs -> Int] /\ \A m \in Msgs : ts[m] \in Time /\ ts[m] \in Int
    BY <1>1 DEF TypeOK
  <1>6. /\ Sched \in Scheds /\ run.until \in Int /\ run.target \in Int
        /\ run.gnow \in Int /\ run.at \in {"idle", "scan", "handler"}
    BY DEF TypeOK, Sched
  <1>7. \A s \in Scheds : InTable(s) \subseteq Msgs
    BY <1>2, <1>3, ContentDef
  <1>8. since \in Time /\ since \in Int /\ O2_SCHED_BIN(since) \in Int
    BY <1>1, BinFacts DEF TypeOK
  <1> QED  BY <1>1, <1>2, <1>3, <1>4, <1>5, <1>6, <1>7, <1>8

\* As long as a scheduler is not scanning, nothing it has, or is given now, belongs to
\* a bin that the scan has passed.
LEMMA NotPassed ==
    ASSUME TypeOK, Reached, NEW s \in Scheds, InOrder(s), ~(run.at = "scan" /\ Sched = s),
           NEW t \in Int, t >= last_time[s], s = "gt" => t >= since
    PROVE  O2_SCHED_BIN(t) >= last_bin[s] /\ O2_SCHED_BIN(t) \in Int
  <1>1. /\ last_bin[s] \in Int /\ last_time[s] \in Int
        /\ since \in Int /\ O2_SCHED_BIN(since) \in Int
    BY TypeFacts
  <1>2. last_bin[s] <= O2_SCHED_BIN(last_time[s]) \/ Unbegun(s)
    BY DEF Reached
  <1>3. /\ O2_SCHED_BIN(last_time[s]) \in Int /\ O2_SCHED_BIN(t) \in Int
        /\ O2_SCHED_BIN(last_time[s]) <= O2_SCHED_BIN(t)
        /\ s = "gt" => O2_SCHED_BIN(since) <= O2_SCHED_BIN(t)
    BY <1>1, BinFacts
  <1> QED  BY <1>1, <1>2, <1>3 DEF Unbegun

\* The schedulers start with empty tables.
LEMMA InitIInv == Init => IInv
  <1> SUFFICES ASSUME Init  PROVE IInv
    OBVIOUS
  <1>1. TypeOK
    <2>1. 0 \in (-Second)..MaxTime /\ 0 \in Time
      BY BinFacts, SizeAssumption DEF Time
    <2>2. EmptyTable \in [Slots -> Seq(Msgs)]
      BY DEF EmptyTable
    <2>3. /\ table \in [Scheds -> [Slots -> Seq(Msgs)]]
          /\ last_bin \in [Scheds -> Int] /\ last_time \in [Scheds -> (-Second)..MaxTime]
          /\ now \in [Scheds -> Time] /\ ts \in [Msgs -> Time]
      BY <2>1, <2>2 DEF Init
    <2>4. Idle \in [at : {"idle", "scan", "handler"}, sched : Scheds,
                    until : Int, target : Int, gnow : Int]
      BY DEF Idle, Scheds
    <2> QED  BY <2>1, <2>3, <2>4 DEF Init, TypeOK
  <1>2. \A s \in Scheds : InTable(s) = {}
    <2>1. \A s \in Scheds : table[s] = EmptyTable
      BY DEF Init
    <2> QED  BY <2>1, <1>1, TypeFacts, EmptyContent
  <1>3. Accounted
    BY <1>2 DEF Init, Accounted, Scheds
  <1>4. Placed
    <2>1. \A s \in Scheds, i \in Slots : Len(table[s][i]) = 0
      BY DEF Init, EmptyTable
    <2>2. \A s \in Scheds : Sorted(table[s], ts)
      BY <2>1 DEF Sorted
    <2> QED  BY <1>2, <2>2 DEF Placed, Scheds
  <1>5. Pending /\ InTime
    BY <1>2 DEF Pending, InTime, Init, Idle, Reaches
  <1>6. Reached
    <2>1. O2_SCHED_BIN(0) = 0
      BY SizeAssumption DEF O2_SCHED_BIN
    <2> QED  BY <1>1, <2>1, TypeFacts DEF Reached, Init, Idle
  <1> QED  BY <1>1, <1>3, <1>4, <1>5, <1>6 DEF IInv

\* o2_schedule: a message that is not late is inserted in its slot.
LEMMA ScheduleIInv ==
    ASSUME IInv, NEW s \in Scheds, NEW m \in Msgs, NEW t \in Time,
           Schedule(s, m, t)
    PROVE  IInv'
  <1> DEFINE i == O2_SCHED_INDEX(t)
  <1>1. TypeOK
    BY DEF IInv
  <1>f. /\ \A x \in Scheds :
              /\ table[x] \in Tables /\ InTable(x) = Content(table[x])
              /\ last_bin[x] \in Int /\ last_time[x] \in Int
        /\ ts \in [Msgs -> Int]
        /\ \A x \in Scheds : InTable(x) \subseteq Msgs
        /\ t \in Int /\ i \in Slots
    BY <1>1, TypeFacts, BinFacts, SlotFacts DEF O2_SCHED_INDEX
  <1>2. \A x \in Scheds : m \notin InTable(x)
    BY DEF Schedule, IInv, Accounted, Scheds
  <1>3. /\ ts' = [ts EXCEPT ![m] = t] /\ ts'[m] = t
        /\ ts' \in [Msgs -> Int] /\ ts' \in [Msgs -> Time]
        /\ \A k \in Msgs \ {m} : ts'[k] = ts[k]
    BY <1>1, <1>f DEF Schedule, TypeOK
  <1>4. \A x \in Scheds : Sorted(table[x], ts')
    BY <1>2, <1>3, <1>f, OtherTime DEF IInv, Placed
  <1>u. UNCHANGED <<last_bin, last_time, started, now, run, since>>
    BY DEF Schedule
  <1>5. CASE UNCHANGED <<table, late>>
    <2>1. \A x \in Scheds : InTable(x)' = InTable(x)
      BY <1>5 DEF InTable
    <2>2. where' = [where EXCEPT ![m] = where'[m]] /\ where'[m] \in {"delivered", "dropped"}
      <3>1. ~ Enqueue(s, m, t)
        <4>1. SUFFICES ASSUME Enqueue(s, m, t)  PROVE FALSE
          OBVIOUS
        <4>2. PICK p \in 1..(Len(table[s][i]) + 1) :
                 /\ \A j \in 1..(p - 1) : ts[table[s][i][j]] <= t
                 /\ p <= Len(table[s][i]) => ts[table[s][i][p]] > t
                 /\ table' = [table EXCEPT ![s][i] = InsertAt(table[s][i], p, m)]
          BY <4>1 DEF Enqueue
        <4>3. table[s][i] \in Seq(Msgs) /\ Len(table[s][i]) \in Nat
          BY <1>f DEF Tables
        <4>4. Len(InsertAt(table[s][i], p, m)) = Len(table[s][i]) + 1
          BY <4>3, InsertFacts
        <4>5. table[s][i] = InsertAt(table[s][i], p, m)
          BY <4>2, <1>5, <1>f, <1>1 DEF TypeOK
        <4> QED  BY <4>3, <4>4, <4>5
      <3> QED  BY <3>1, <1>1 DEF Schedule, TypeOK
    <2>3. TypeOK'
      BY <1>1, <1>3, <1>5, <1>u, <2>2 DEF TypeOK
    <2>4. Accounted'
      BY <1>1, <1>2, <2>1, <2>2 DEF IInv, Accounted, Scheds, TypeOK
    <2>5. Placed'
      BY <1>4, <1>5, <1>u, <2>1 DEF IInv, Placed, Scheds
    <2>6. Pending'
      BY <1>2, <1>3, <1>5, <1>u, <1>f, <2>1 DEF IInv, Pending, InOrder
    <2>7. Sched' = Sched /\ Sched \in Scheds
      BY <1>1, <1>u, TypeFacts DEF Sched
    <2>8. Reached'
      BY <1>2, <1>3, <1>5, <1>u, <1>f, <2>1, <2>7 DEF IInv, Reached, InOrder, Unbegun
    <2>9. InTime'
      BY <1>u, <2>7 DEF IInv, InTime, Rewound, Reaches
    <2> QED  BY <2>3, <2>4, <2>5, <2>6, <2>8, <2>9 DEF IInv
  <1>6. CASE Enqueue(s, m, t) /\ t >= last_time[s] /\ (s = "lt" \/ started)
             /\ where' = [where EXCEPT ![m] = s]
             /\ late' = (late \/ (s = "gt" /\ t < since))
    <2>1. PICK p \in 1..(Len(table[s][i]) + 1) :
             /\ \A j \in 1..(p - 1) : ts[table[s][i][j]] <= t
             /\ p <= Len(table[s][i]) => ts[table[s][i][p]] > t
             /\ table' = [table EXCEPT ![s][i] = InsertAt(table[s][i], p, m)]
      BY <1>6 DEF Enqueue
    <2> DEFINE u == [table[s] EXCEPT ![i] = InsertAt(table[s][i], p, m)]
    <2>2. /\ table' = [table EXCEPT ![s] = u] /\ table'[s] = u
          /\ \A x \in Scheds \ {s} : table'[x] = table[x]
      BY <2>1, <1>1 DEF TypeOK
    <2>3. table[s][i] \in Seq(Msgs) /\ Len(table[s][i]) \in Nat
      BY <1>f DEF Tables
    <2>4. \A j \in 1..Len(table[s][i]) : table[s][i][j] \in Msgs \ {m}
      BY <1>2, <1>f, ContentDef
    <2>5. /\ \A j \in 1..(p - 1) : ts'[table[s][i][j]] <= ts'[m]
          /\ p <= Len(table[s][i]) => ts'[table[s][i][p]] > ts'[m]
      <3>1. \A j \in 1..(p - 1) : j \in 1..Len(table[s][i])
        BY <2>3
      <3>2. p <= Len(table[s][i]) => p \in 1..Len(table[s][i])
        BY <2>3
      <3> QED  BY <2>1, <2>4, <3>1, <3>2, <1>3
    <2>6. u \in Tables /\ Content(u) = Content(table[s]) \cup {m} /\ Sorted(u, ts')
      <3>1. table[s] \in Tables /\ m \notin Content(table[s]) /\ Sorted(table[s], ts')
        BY <1>2, <1>4, <1>f
      <3>2. i = O2_SCHED_INDEX(ts'[m]) /\ i \in Slots
        BY <1>3, <1>f
      <3>3. InsertionPoint(table[s], ts', m, i, p)
        BY <3>2, <2>5 DEF InsertionPoint
      <3> HIDE DEF i
      <3>4. u = Inserted(table[s], m, i, p)
        BY DEF Inserted
      <3> HIDE DEF u
      <3>5. ts' \in [Msgs -> Int] /\ m \in Msgs
        BY <1>3
      <3>6. /\ Inserted(table[s], m, i, p) \in Tables
            /\ Content(Inserted(table[s], m, i, p)) = Content(table[s]) \cup {m}
            /\ Sorted(Inserted(table[s], m, i, p), ts')
        BY ONLY <3>1, <3>3, <3>5, InsertSorted
      <3> QED  BY <3>4, <3>6
    <2> HIDE DEF u
    <2>7. TypeOK'
      <3>1. table' \in [Scheds -> [Slots -> Seq(Msgs)]]
        BY <2>2, <2>6, <1>1 DEF TypeOK, Tables
      <3>2. where' \in [Msgs -> {"unused", "lt", "gt", "delivered", "dropped",
                                 "flushed", "leaked"}]
        BY <1>6, <1>1 DEF TypeOK, Scheds
      <3> QED  BY <3>1, <3>2, <1>1, <1>3, <1>6, <1>u DEF TypeOK
    <2>8. /\ InTable(s)' = InTable(s) \cup {m}
          /\ \A x \in Scheds \ {s} : InTable(x)' = InTable(x)
      <3>1. \A x \in Scheds : InTable(x)' = Content(table'[x])
        BY DEF InTable, Content
      <3> QED  BY <3>1, <2>2, <2>6, <1>f
    <2>9. Accounted'
      <3>1. \A k \in Msgs \ {m} : where'[k] = where[k]
        BY <1>1, <1>6 DEF TypeOK
      <3>2. where'[m] = s
        BY <1>1, <1>6 DEF TypeOK
      <3> QED  BY <3>1, <3>2, <2>8, <1>2 DEF IInv, Accounted
    <2>10. Placed'
      <3>1. \A x \in Scheds : Sorted(table'[x], ts')
        BY <1>4, <2>2, <2>6
      <3>2. ~started => InTable("gt")' = {}
        BY <1>6, <2>8 DEF IInv, Placed, Scheds
      <3> QED  BY <3>1, <3>2, <1>u DEF Placed
    <2>o. /\ \A x \in Scheds : InOrder(x)' => InOrder(x)
          /\ InOrder(s)' => (s = "gt" => t >= since)
      <3>1. since \in Int /\ t \in Int
        BY <1>1, <1>f, TypeFacts
      <3>2. ~late' => ~late /\ ~(s = "gt" /\ t < since)
        BY <1>6, Zenon
      <3>3. ~(t < since) => t >= since
        BY <3>1
      <3> QED  BY <3>2, <3>3, Zenon DEF InOrder, Scheds
    <2>11. Pending'
      <3> SUFFICES ASSUME NEW x \in Scheds, InOrder(x)', NEW k \in InTable(x)'
                   PROVE  ts'[k] >= last_time'[x] /\ (x = "gt" => ts'[k] >= since')
        BY DEF Pending
      <3>1. CASE k = m
        <4>1. x = s
          BY <3>1, <2>8, <1>2
        <4> QED  BY <3>1, <4>1, <1>3, <1>6, <1>u, <2>o
      <3>2. CASE k # m
        BY <3>2, <2>8, <2>o, <1>3, <1>f, <1>u DEF IInv, Pending
      <3> QED  BY <3>1, <3>2
    <2>12. Sched' = Sched /\ Sched \in Scheds
      BY <1>1, <1>u, TypeFacts DEF Sched
    <2>13. Reached'
      <3>1. ASSUME run.at # "idle", InOrder(Sched)', NEW k \in InTable(Sched)'
            PROVE  O2_SCHED_BIN(ts'[k]) >= last_bin[Sched] \/ ts'[k] > run.until
        <4>1. CASE k = m
          <5>1. Sched = s
            BY <4>1, <2>8, <2>12, <3>1, <1>2
          <5>2. run.at # "scan"
            BY DEF Schedule, UserCode
          <5>3. InOrder(s)'
            BY <3>1, <2>12, <5>1 DEF InOrder
          <5>4. O2_SCHED_BIN(t) >= last_bin[s]
            BY <1>1, <1>6, <1>f, <2>o, <5>2, <5>3, NotPassed DEF IInv
          <5> QED  BY <4>1, <5>1, <5>4, <1>3
        <4>2. CASE k # m
          BY <4>2, <3>1, <2>8, <2>o, <2>12, <1>3, <1>f DEF IInv, Reached
        <4> QED  BY <4>1, <4>2
      <3> QED  BY <3>1, <1>u, <2>o, <2>12 DEF IInv, Reached, Unbegun
    <2>14. InTime'
      BY <1>u, <2>12 DEF IInv, InTime, Rewound, Reaches
    <2> QED  BY <2>7, <2>9, <2>10, <2>11, <2>13, <2>14 DEF IInv
  <1> QED  BY <1>5, <1>6 DEF Schedule

\* o2_sched_start, between polls or in a handler: the table of the global scheduler is
\* empty.
LEMMA StartIInv ==
    ASSUME IInv, NEW t \in StartTimes, NEW g \in StartTimes, StartGlobal(t, g)
    PROVE  IInv'
  <1>1. TypeOK /\ ~started /\ run.at # "scan" /\ Sched \in Scheds
    BY TypeFacts DEF IInv, StartGlobal, UserCode
  <1>2. t \in Time /\ t \in Int /\ O2_SCHED_BIN(t) \in Int /\ t \in (-Second)..MaxTime
        /\ g \in Time /\ g \in Int /\ 0 <= g /\ Second \in Nat
    BY SizeAssumption, BinFacts DEF Time
  <1>3. EmptyTable \in Tables /\ Content(EmptyTable) = {}
    BY EmptyContent
  <1>4. TypeOK'
    BY <1>1, <1>2, <1>3 DEF StartGlobal, TypeOK, Tables, Scheds
  <1>5. /\ table'["gt"] = EmptyTable /\ table'["lt"] = table["lt"]
        /\ last_bin'["gt"] = O2_SCHED_BIN(t) /\ last_bin'["lt"] = last_bin["lt"]
        /\ last_time'["gt"] = t /\ last_time'["lt"] = last_time["lt"]
        /\ now'["gt"] = g /\ now'["lt"] = now["lt"]
        /\ started' /\ since' = t /\ UNCHANGED <<run, ts, where, late>>
    BY <1>1 DEF StartGlobal, TypeOK, Scheds
  <1>6. /\ InTable("gt")' = {} /\ InTable("lt")' = InTable("lt")
        /\ InTable("gt") = {}
    <2>1. InTable("gt")' = Content(table'["gt"]) /\ InTable("lt")' = InTable("lt")
      BY <1>5 DEF InTable, Content
    <2> QED  BY <2>1, <1>1, <1>3, <1>5 DEF IInv, Placed
  <1>7. Accounted'
    BY <1>5, <1>6 DEF IInv, Accounted, Scheds
  <1>8. Placed'
    <2>1. \A i \in Slots : Len(EmptyTable[i]) = 0
      BY DEF EmptyTable
    <2>2. Sorted(EmptyTable, ts)
      BY <2>1 DEF Sorted
    <2> QED  BY <2>2, <1>5 DEF IInv, Placed, Scheds
  <1>9. Pending'
    BY <1>5, <1>6 DEF IInv, Pending, Scheds, InOrder
  <1>s. run.at # "idle" => Sched = "lt"
    BY <1>1 DEF IInv, InTime, Scheds
  <1>10. Reached'
    <2>1. Sched' = Sched
      BY <1>5 DEF Sched
    <2>2. "lt" \in Scheds /\ Scheds = {"lt", "gt"} /\ InOrder("lt")
      BY DEF Scheds, InOrder
    <2>3. /\ O2_SCHED_BIN(last_time["lt"]) <= last_bin["lt"]
          /\ last_bin["lt"] <= O2_SCHED_BIN(last_time["lt"])
      BY <1>1, <2>2 DEF IInv, Reached, Unbegun
    <2>4. run.at # "idle" =>
             /\ O2_SCHED_BIN(run.until) <= last_bin["lt"] + BinsPerSecond
             /\ last_bin["lt"] <= O2_SCHED_BIN(run.until) + 1
             /\ \A m \in InTable("lt") :
                   \/ O2_SCHED_BIN(ts[m]) >= last_bin["lt"]
                   \/ ts[m] > run.until
      BY <1>s, <2>2 DEF IInv, Reached, Unbegun
    <2> QED  BY <1>2, <1>5, <1>6, <1>s, <2>1, <2>2, <2>3, <2>4 DEF Reached
  <1>11. InTime'
    <2>1. Sched' = Sched
      BY <1>5 DEF Sched
    <2>2. \A s \in Scheds : Reaches(s, now[s])'
      BY <1>5 DEF IInv, InTime, Reaches, Scheds
    <2>3. run.at # "idle" => run.gnow = -Second
      BY <1>1, <1>s DEF IInv, InTime
    <2>4. \A x : Reaches("gt", x)'
      BY <1>5 DEF Reaches
    <2> QED  BY <1>1, <1>2, <1>5, <1>s, <2>1, <2>2, <2>3, <2>4
             DEF IInv, InTime, Scheds, Rewound
  <1> QED  BY <1>4, <1>7, <1>8, <1>9, <1>10, <1>11 DEF IInv

\* o2_sched_flush empties the global scheduler.
LEMMA FlushIInv ==
    ASSUME IInv, Flush
    PROVE  IInv'
  <1>1. TypeOK /\ UNCHANGED <<last_bin, last_time, started, now, run, ts, since, late>>
    BY DEF IInv, Flush
  <1>2. EmptyTable \in Tables /\ Content(EmptyTable) = {}
    BY EmptyContent
  <1>3. table'["gt"] = EmptyTable /\ table'["lt"] = table["lt"]
    BY <1>1 DEF Flush, TypeOK, Scheds
  <1>4. /\ where' \in [Msgs -> {"unused", "lt", "gt", "delivered", "dropped",
                                "flushed", "leaked"}]
        /\ \A m \in Msgs : where'[m] = IF m \in InTable("gt") THEN "flushed"
                                       ELSE where[m]
    BY <1>1 DEF Flush, TypeOK
  <1>5. TypeOK'
    BY <1>1, <1>2, <1>4 DEF Flush, TypeOK, Tables, Scheds
  <1>6. InTable("gt")' = {} /\ InTable("lt")' = InTable("lt")
    <2>1. InTable("gt")' = Content(table'["gt"]) /\ InTable("lt")' = InTable("lt")
      BY <1>3 DEF InTable, Content
    <2> QED  BY <2>1, <1>2, <1>3
  <1>7. Accounted'
    BY <1>4, <1>6 DEF IInv, Accounted, Scheds
  <1>8. Placed'
    <2>1. \A i \in Slots : Len(EmptyTable[i]) = 0
      BY DEF EmptyTable
    <2>2. Sorted(EmptyTable, ts)
      BY <2>1 DEF Sorted
    <2> QED  BY <2>2, <1>1, <1>3, <1>6 DEF IInv, Placed, Scheds
  <1>9. Pending'
    BY <1>1, <1>6 DEF IInv, Pending, Scheds, InOrder
  <1>10. \A s \in Scheds : InTable(s)' \subseteq InTable(s)
    BY <1>6 DEF Scheds
  <1>11. Reached'
    <2>1. Sched' = Sched /\ Sched \in Scheds
      BY <1>1, TypeFacts DEF Sched
    <2> QED  BY <1>1, <1>10, <2>1 DEF IInv, Reached, InOrder, Unbegun
  <1>12. InTime'
    BY <1>1 DEF IInv, InTime, Sched, Rewound, Reaches
  <1> QED  BY <1>5, <1>7, <1>8, <1>9, <1>11, <1>12 DEF IInv

\* Time passes.
LEMMA TickIInv ==
    ASSUME IInv, NEW x \in Scheds, NEW t \in Time, Tick(x, t)
    PROVE  IInv'
  <1>1. /\ TypeOK /\ t \in Int
        /\ UNCHANGED <<table, last_bin, last_time, started, run, ts, where, since, late>>
    BY SizeAssumption DEF IInv, Tick, Time
  <1>2. /\ \A s \in Scheds : now[s] \in Int /\ now'[s] \in Int /\ now[s] <= now'[s]
        /\ now' \in [Scheds -> Time]
    BY <1>1, SizeAssumption DEF Tick, TypeOK, Time
  <1>3. TypeOK'
    BY <1>1, <1>2 DEF TypeOK
  <1>4. Sched' = Sched /\ Sched \in Scheds /\ \A s \in Scheds : InTable(s)' = InTable(s)
    BY <1>1, TypeFacts DEF Sched, InTable
  <1>5. Accounted' /\ Placed' /\ Pending' /\ Reached'
    <2>1. Accounted'
      BY <1>1, <1>4 DEF IInv, Accounted
    <2>2. Placed'
      BY <1>1, <1>4 DEF IInv, Placed, Scheds
    <2>3. Pending'
      BY <1>1, <1>4 DEF IInv, Pending, InOrder
    <2>4. Reached'
      BY <1>1, <1>4 DEF IInv, Reached, InOrder, Unbegun
    <2> QED  BY <2>1, <2>2, <2>3, <2>4
  <1>6. InTime'
    <2>1. \A s \in Scheds : Reaches(s, now[s])'
      <3>1. \A s \in Scheds : last_time[s] \in Int
        BY <1>1, TypeFacts
      <3> QED  BY <1>1, <1>2, <3>1 DEF IInv, InTime, Reaches
    <2>2. "gt" \in Scheds /\ run.target \in Int /\ run.gnow \in Int
      BY <1>1, TypeFacts DEF Scheds
    <2>3. run.at # "idle" => run.target <= now'[Sched]
      BY <1>2, <1>4, <2>2 DEF IInv, InTime
    <2>4. run.at # "idle" /\ Sched = "lt" /\ started => run.gnow <= now'["gt"]
      BY <1>2, <2>2 DEF IInv, InTime
    <2>5. Rewound' = Rewound /\ Reaches("gt", run.gnow)' = Reaches("gt", run.gnow)
      BY <1>1, <1>4 DEF Rewound, Reaches
    <2> QED  BY <1>1, <1>4, <2>1, <2>3, <2>4, <2>5 DEF IInv, InTime
  <1> QED  BY <1>3, <1>5, <1>6 DEF IInv

\* A call of sched_dispatch runs for a second at most, and not beyond its target.
LEMMA UntilFacts ==
    ASSUME NEW t \in Int, NEW target \in Int
    PROVE  /\ Until(t, target) \in Int /\ Until(t, target) <= target
           /\ t <= target => t <= Until(t, target)
           /\ t > target => Until(t, target) = target
           /\ O2_SCHED_BIN(Until(t, target)) <= O2_SCHED_BIN(t) + BinsPerSecond
           /\ O2_SCHED_BIN(t) \in Int /\ O2_SCHED_BIN(Until(t, target)) \in Int
           /\ t <= target => O2_SCHED_BIN(t) <= O2_SCHED_BIN(Until(t, target))
  <1>1. Second \in Nat \ {0} /\ t + Second \in Int
    BY BinFacts
  <1>2. /\ Until(t, target) \in Int /\ Until(t, target) <= target
        /\ t <= target => t <= Until(t, target)
        /\ t > target => Until(t, target) = target
        /\ Until(t, target) <= t + Second
    BY <1>1 DEF Until
  <1>3. O2_SCHED_BIN(t + Second) = O2_SCHED_BIN(t) + BinsPerSecond
    BY BinFacts
  <1> QED  BY <1>1, <1>2, <1>3, BinFacts

\* sched_dispatch is entered, up to a time that its clock has reached.
Entered ==
    /\ TypeOK /\ Accounted /\ Placed /\ Pending
    /\ \A s \in Scheds :
          /\ O2_SCHED_BIN(last_time[s]) <= last_bin[s]
          /\ InOrder(s) => last_bin[s] <= O2_SCHED_BIN(last_time[s]) \/ Unbegun(s)
          /\ Reaches(s, now[s])
    /\ Reaches(Sched, run.target)
    /\ -Second <= run.target /\ run.target <= now[Sched]
    /\ Sched = "gt" => started
    /\ Sched = "lt" =>
          /\ -Second <= run.gnow
          /\ started => Reaches("gt", run.gnow) /\ run.gnow <= now["gt"]
          /\ ~started => run.gnow = -Second
    /\ run.at = "scan" /\ run.until = Until(last_time[Sched], run.target)

\* A scheduler that starts satisfies the invariant.
LEMMA EnterIInv == Entered => IInv
  <1> SUFFICES ASSUME Entered  PROVE IInv
    OBVIOUS
  <1>1. /\ TypeOK /\ Sched \in Scheds
        /\ last_time[Sched] \in Int /\ last_bin[Sched] \in Int
        /\ run.target \in Int /\ run.until \in Int
        /\ since \in Int /\ 0 <= since /\ O2_SCHED_BIN(since) \in Int
        /\ Second \in Nat /\ -Second <= last_time[Sched]
    <2>1. TypeOK /\ Sched \in Scheds /\ since \in Time
      BY TypeFacts DEF Entered
    <2> QED  BY <2>1, TypeFacts, SizeAssumption DEF TypeOK, Time
  <1>2. /\ run.until = Until(last_time[Sched], run.target)
        /\ run.until <= run.target
        /\ last_time[Sched] <= run.target => last_time[Sched] <= run.until
        /\ last_time[Sched] > run.target => run.until = run.target
        /\ O2_SCHED_BIN(run.until) <= O2_SCHED_BIN(last_time[Sched]) + BinsPerSecond
        /\ last_time[Sched] <= run.target =>
              O2_SCHED_BIN(last_time[Sched]) <= O2_SCHED_BIN(run.until)
        /\ O2_SCHED_BIN(run.until) \in Int /\ O2_SCHED_BIN(last_time[Sched]) \in Int
    <2>1. run.until = Until(last_time[Sched], run.target)
      BY DEF Entered
    <2>2. ASSUME NEW t \in Int, NEW u \in Int
          PROVE  /\ Until(t, u) <= u
                 /\ t <= u => t <= Until(t, u)
                 /\ t > u => Until(t, u) = u
                 /\ O2_SCHED_BIN(Until(t, u)) <= O2_SCHED_BIN(t) + BinsPerSecond
                 /\ t <= u => O2_SCHED_BIN(t) <= O2_SCHED_BIN(Until(t, u))
                 /\ O2_SCHED_BIN(Until(t, u)) \in Int /\ O2_SCHED_BIN(t) \in Int
      BY UntilFacts
    <2>3. last_time[Sched] \in Int /\ run.target \in Int
      BY <1>1
    <2> QED  BY <2>1, <2>2, <2>3
  <1>3. InTime
    <2>1. last_time[Sched] <= run.until \/ Rewound
      BY <1>1, <1>2 DEF Entered, Rewound, Reaches
    <2>2. -Second <= run.until
      BY <1>1, <1>2 DEF Entered
    <2> QED  BY <1>2, <2>1, <2>2 DEF Entered, InTime
  <1>4. Reached
    <2>1. /\ O2_SCHED_BIN(last_time[Sched]) <= last_bin[Sched]
          /\ InOrder(Sched) =>
                last_bin[Sched] <= O2_SCHED_BIN(last_time[Sched]) \/ Unbegun(Sched)
      BY <1>1 DEF Entered
    <2>2. ASSUME InOrder(Sched)
          PROVE  last_bin[Sched] <= O2_SCHED_BIN(run.until) + 1 \/ Unbegun(Sched)
      <3>1. CASE last_time[Sched] <= run.target
        BY <3>1, <1>1, <1>2, <2>1, <2>2
      <3>2. CASE Sched = "gt" /\ last_time[Sched] = since
        BY <3>2, <2>1, <2>2 DEF Unbegun
      <3> QED  BY <3>1, <3>2 DEF Entered, Reaches
    <2>3. ASSUME InOrder(Sched), NEW m \in InTable(Sched)
          PROVE  O2_SCHED_BIN(ts[m]) >= last_bin[Sched]
      <3>1. /\ ts[m] \in Int /\ ts[m] >= last_time[Sched]
            /\ Sched = "gt" => ts[m] >= since
        BY <1>1, <2>3, TypeFacts DEF Entered, Pending
      <3>2. /\ O2_SCHED_BIN(ts[m]) \in Int
            /\ O2_SCHED_BIN(last_time[Sched]) <= O2_SCHED_BIN(ts[m])
            /\ Sched = "gt" => O2_SCHED_BIN(since) <= O2_SCHED_BIN(ts[m])
        BY <3>1, <1>1, BinFacts
      <3> QED  BY <3>2, <1>1, <1>2, <2>1, <2>3 DEF Unbegun
    <2>4. O2_SCHED_BIN(run.until) <= last_bin[Sched] + BinsPerSecond
      BY <1>1, <1>2, <2>1, SizeAssumption
    <2> QED  BY <2>2, <2>3, <2>4 DEF Entered, Reached
  <1> QED  BY <1>3, <1>4 DEF Entered, IInv

\* A step that starts the scheduler again leads to the invariant.
LEMMA EnterStep == Entered' => IInv'
  BY EnterIInv, PTL

\* The first message of the slot that is scanned, if it is due, belongs to
\* this turn of the wheel, or an earlier one if the scheduler was given messages out of
\* order; otherwise it is the earliest of the table.
LEMMA DueFacts ==
    ASSUME IInv, Scanning, Due
    PROVE  /\ Head(Slot) \in InTable(Sched) /\ Head(Slot) \in Msgs
           /\ O2_SCHED_BIN(ts[Head(Slot)]) <= last_bin[Sched]
           /\ ts[Head(Slot)] <= run.until
           /\ InOrder(Sched) =>
                 /\ O2_SCHED_BIN(ts[Head(Slot)]) = last_bin[Sched]
                 /\ ts[Head(Slot)] >= last_time[Sched]
                 /\ \A k \in InTable(Sched) : ts[Head(Slot)] <= ts[k]
  <1> DEFINE s == Sched
             i == O2_SCHED_BIN_TO_INDEX(last_bin[s])
             m == Head(Slot)
  <1>1. /\ TypeOK /\ s \in Scheds /\ table[s] \in Tables
        /\ InTable(s) = Content(table[s]) /\ InTable(s) \subseteq Msgs
        /\ last_bin[s] \in Int /\ last_time[s] \in Int
        /\ ts \in [Msgs -> Int] /\ run.until \in Int /\ i \in Slots
        /\ run.at = "scan" /\ Sorted(table[s], ts)
    BY TypeFacts, SlotFacts DEF IInv, Scanning, Placed
  <1>2. Slot = table[s][i] /\ Slot # << >>
    BY DEF Slot, Sched, Due
  <1>3. /\ m \in InTable(s) /\ m \in Msgs /\ O2_SCHED_INDEX(ts[m]) = i
        /\ \A k \in InTable(s) : O2_SCHED_INDEX(ts[k]) = i => ts[m] <= ts[k]
    <2>1. /\ table[s] \in Tables /\ ts \in [Msgs -> Int] /\ Sorted(table[s], ts)
          /\ i \in Slots /\ table[s][i] # << >>
      BY <1>1, <1>2
    <2> HIDE DEF s, i
    <2>2. /\ Head(table[s][i]) \in Content(table[s]) /\ Head(table[s][i]) \in Msgs
          /\ O2_SCHED_INDEX(ts[Head(table[s][i])]) = i
          /\ \A k \in Content(table[s]) :
                O2_SCHED_INDEX(ts[k]) = i => ts[Head(table[s][i])] <= ts[k]
      BY ONLY <2>1, RemoveSorted
    <2> QED  BY <2>2, <1>1, <1>2
  <1>4. ts[m] <= run.until /\ ts[m] \in Int
    BY <1>1, <1>3 DEF Due
  <1>5. InOrder(s) => ts[m] >= last_time[s]
    BY <1>1, <1>3 DEF IInv, Pending
  <1> HIDE DEF m
  <1>6. /\ O2_SCHED_BIN(ts[m]) \in Int
        /\ O2_SCHED_BIN(ts[m]) <= O2_SCHED_BIN(run.until)
        /\ O2_SCHED_BIN(run.until) \in Int
    BY <1>1, <1>4, BinFacts
  <1>7. InOrder(s) => O2_SCHED_BIN(ts[m]) >= last_bin[s]
    BY <1>1, <1>3, <1>4 DEF IInv, Reached
  <1>8. O2_SCHED_BIN(ts[m]) < last_bin[s] + TableLen
    BY <1>1, <1>6, SizeAssumption DEF IInv, Reached
  <1>9. O2_SCHED_BIN(ts[m]) >= last_bin[s] => O2_SCHED_BIN(ts[m]) = last_bin[s]
    BY <1>1, <1>3, <1>6, <1>8, OneTurn DEF O2_SCHED_INDEX
  <1>10. ASSUME InOrder(s), NEW k \in InTable(s)
         PROVE  ts[m] <= ts[k]
    <2>1. ts[k] \in Int /\ O2_SCHED_BIN(ts[k]) \in Int
      BY <1>1, BinFacts
    <2>2. CASE ts[k] > run.until
      BY <2>1, <2>2, <1>1, <1>4
    <2>3. CASE O2_SCHED_BIN(ts[k]) > last_bin[s]
      <3>1. O2_SCHED_BIN(ts[m]) < O2_SCHED_BIN(ts[k])
        BY <2>1, <2>3, <1>7, <1>9, <1>10
      <3> QED  BY <3>1, <2>1, <1>4, BinFacts
    <2>4. CASE O2_SCHED_BIN(ts[k]) = last_bin[s]
      BY <2>4, <1>3 DEF O2_SCHED_INDEX
    <2>5. O2_SCHED_BIN(ts[k]) >= last_bin[s] \/ ts[k] > run.until
      BY <1>1, <1>10 DEF IInv, Reached
    <2> QED  BY <2>1, <2>2, <2>3, <2>4, <2>5, <1>1
  <1>11. O2_SCHED_BIN(ts[m]) <= last_bin[s]
    BY <1>1, <1>6, <1>9
  <1> QED  BY <1>3, <1>4, <1>5, <1>7, <1>9, <1>10, <1>11 DEF m

\* A slot in which nothing more is due is done with.
LEMMA SlotDone ==
    ASSUME IInv, Scanning, ~Due, InOrder(Sched)
    PROVE  \A k \in InTable(Sched) :
              O2_SCHED_BIN(ts[k]) >= last_bin[Sched] + 1 \/ ts[k] > run.until
  <1> DEFINE s == Sched
             i == O2_SCHED_BIN_TO_INDEX(last_bin[s])
  <1> SUFFICES ASSUME NEW k \in InTable(s), ts[k] <= run.until
               PROVE  O2_SCHED_BIN(ts[k]) >= last_bin[s] + 1
    <2>1. \A k \in InTable(s) : ts[k] \in Int /\ run.until \in Int
      BY TypeFacts DEF IInv
    <2> QED  BY <2>1
  <1>1. /\ TypeOK /\ s \in Scheds /\ table[s] \in Tables
        /\ InTable(s) = Content(table[s]) /\ InTable(s) \subseteq Msgs
        /\ last_bin[s] \in Int /\ ts[k] \in Int
        /\ ts \in [Msgs -> Int] /\ run.until \in Int /\ i \in Slots
        /\ run.at = "scan" /\ Sorted(table[s], ts)
    BY TypeFacts, SlotFacts DEF IInv, Scanning, Placed
  <1>2. O2_SCHED_BIN(ts[k]) >= last_bin[s] /\ O2_SCHED_BIN(ts[k]) \in Int
    BY <1>1, BinFacts DEF IInv, Reached
  <1>3. SUFFICES ASSUME O2_SCHED_BIN(ts[k]) = last_bin[s]  PROVE FALSE
    BY <1>1, <1>2
  <1>4. O2_SCHED_INDEX(ts[k]) = i
    BY <1>3 DEF O2_SCHED_INDEX
  <1>5. Slot = table[s][i]
    BY DEF Slot, Sched
  <1>6. table[s][i] # << >>
    <2>1. PICK h \in Slots, j \in Int : j \in 1..Len(table[s][h]) /\ table[s][h][j] = k
      BY <1>1, ContentDef
    <2>2. h = i
      BY <2>1, <1>1, <1>4 DEF Sorted
    <2>3. Len(table[s][i]) # 0
      BY <2>1, <2>2
    <2> QED  BY <2>3
  <1>7. ts[Head(table[s][i])] <= ts[k] /\ Head(table[s][i]) \in Msgs
    <2>1. /\ table[s] \in Tables /\ ts \in [Msgs -> Int] /\ Sorted(table[s], ts)
          /\ i \in Slots /\ table[s][i] # << >> /\ k \in Content(table[s])
      BY <1>1, <1>6
    <2> HIDE DEF s, i
    <2> QED  BY ONLY <2>1, <1>4, RemoveSorted
  <1>8. ts[Head(table[s][i])] > run.until
    BY <1>1, <1>5, <1>6, <1>7 DEF Due
  <1> QED  BY <1>1, <1>7, <1>8

\* When the scan is over, last_bin is one bin too far, or further if global time has
\* not begun for it, and nothing due is left.
LEMMA ScanDone ==
    ASSUME IInv, run.at = "scan", ~Scanning
    PROVE  /\ last_bin[Sched] - 1 >= O2_SCHED_BIN(run.until)
           /\ InOrder(Sched) =>
                 /\ \/ last_bin[Sched] - 1 = O2_SCHED_BIN(run.until)
                    \/ Unbegun(Sched)
                 /\ \A k \in InTable(Sched) : ts[k] > run.until
  <1>1. /\ TypeOK /\ Sched \in Scheds /\ InTable(Sched) \subseteq Msgs
        /\ last_bin[Sched] \in Int /\ run.until \in Int
        /\ \A m \in Msgs : ts[m] \in Int
        /\ O2_SCHED_BIN(run.until) \in Int
    BY TypeFacts, BinFacts DEF IInv
  <1>2. last_bin[Sched] > O2_SCHED_BIN(run.until)
    BY <1>1 DEF Scanning, Sched
  <1>3. InOrder(Sched) =>
           last_bin[Sched] - 1 = O2_SCHED_BIN(run.until) \/ Unbegun(Sched)
    BY <1>1, <1>2 DEF IInv, Reached
  <1>4. ASSUME InOrder(Sched), NEW k \in InTable(Sched)
        PROVE  ts[k] > run.until
    <2>1. O2_SCHED_BIN(ts[k]) >= last_bin[Sched] \/ ts[k] > run.until
      BY <1>1, <1>4 DEF IInv, Reached
    <2>2. ts[k] \in Int /\ O2_SCHED_BIN(ts[k]) \in Int
      BY <1>1, BinFacts
    <2>3. O2_SCHED_BIN(ts[k]) > O2_SCHED_BIN(run.until) => ts[k] > run.until
      BY <1>1, <2>2, BinFacts
    <2> QED  BY <2>1, <2>2, <2>3, <1>1, <1>2
  <1> QED  BY <1>1, <1>2, <1>3, <1>4

\* o2_sched_poll dispatches the local scheduler first.
LEMMA PollIInv ==
    ASSUME IInv, Poll
    PROVE  IInv'
  <1>1. /\ TypeOK /\ run.at = "idle"
        /\ UNCHANGED <<table, last_bin, last_time, started, now, ts, where, since, late>>
    BY DEF IInv, Poll
  <1> DEFINE g == IF started THEN now["gt"] ELSE -Second
  <1>2. /\ "lt" \in Scheds /\ "gt" \in Scheds /\ Second \in Nat
        /\ \A s \in Scheds : now[s] \in Int /\ last_time[s] \in Int
        /\ g \in Int
    <2>1. Second \in Nat
      BY BinFacts
    <2>2. \A s \in Scheds : now[s] \in Int /\ last_time[s] \in Int
      BY <1>1, TypeFacts
    <2> QED  BY <2>1, <2>2 DEF Scheds
  <1>3. /\ run'.at = "scan" /\ run'.sched = "lt" /\ run'.target = now["lt"]
        /\ run'.until = Until(last_time["lt"], now["lt"]) /\ run'.gnow = g
        /\ run' = [at |-> "scan", sched |-> "lt", until |-> run'.until,
                   target |-> now["lt"], gnow |-> g]
    BY DEF Poll, Enter
  <1>4. \A s \in Scheds :
           /\ O2_SCHED_BIN(last_time[s]) <= last_bin[s]
           /\ InOrder(s) => last_bin[s] <= O2_SCHED_BIN(last_time[s]) \/ Unbegun(s)
           /\ Reaches(s, now[s])
           /\ -Second <= now[s]
    <2>1. \A s \in Scheds : -Second <= now[s]
      BY <1>1, <1>2, SizeAssumption DEF TypeOK, Time
    <2> QED  BY <1>1, <1>2, <2>1 DEF IInv, Reached, InTime
  <1> HIDE DEF g
  <1>5. run'.until \in Int
    BY <1>2, <1>3, <1>4, UntilFacts
  <1>6. TypeOK'
    BY <1>1, <1>2, <1>3, <1>5 DEF TypeOK
  <1>7. \A s \in Scheds : InTable(s)' = InTable(s)
    BY <1>1 DEF InTable
  <1>8. Accounted' /\ Placed' /\ Pending'
    <2>1. Accounted'
      BY <1>1, <1>7 DEF IInv, Accounted
    <2>2. Placed'
      BY <1>1, <1>2, <1>7 DEF IInv, Placed
    <2>3. Pending'
      BY <1>1, <1>7 DEF IInv, Pending, InOrder
    <2> QED  BY <2>1, <2>2, <2>3
  <1>9. IF started THEN g = now["gt"] ELSE g = -Second
    BY DEF g
  <1>10. Sched' = "lt"
    BY <1>3 DEF Sched
  <1>11. \A s \in Scheds : /\ Unbegun(s)' = Unbegun(s) /\ InOrder(s)' = InOrder(s)
                           /\ Reaches(s, now[s])' = Reaches(s, now[s])
    BY <1>1 DEF Unbegun, InOrder, Reaches
  <1>r. Reaches("lt", run.target)' /\ (started => Reaches("gt", run.gnow)')
    BY <1>1, <1>2, <1>3, <1>4, <1>9 DEF Reaches
  <1>12. Entered'
    BY <1>1, <1>2, <1>3, <1>4, <1>6, <1>8, <1>9, <1>10, <1>11, <1>r DEF Entered
  <1> QED  BY <1>12, EnterStep

\* A message is unlinked and handed to its handler.
LEMMA DispatchIInv ==
    ASSUME IInv, Dispatch
    PROVE  IInv'
  <1>0. PICK s \in Scheds : s = Sched
    BY TypeFacts DEF IInv
  <1> DEFINE i == O2_SCHED_BIN_TO_INDEX(last_bin[s])
             m == Head(Slot)
  <1>1. /\ TypeOK /\ s \in Scheds /\ table[s] \in Tables
        /\ last_bin[s] \in Int /\ i \in Slots /\ ts \in [Msgs -> Int]
        /\ \A x \in Scheds : InTable(x) = Content(table[x])
        /\ Sorted(table[s], ts) /\ Slot = table[s][i] /\ Slot # << >>
        /\ UNCHANGED <<last_bin, started, now, ts, since, late>>
        /\ Scanning /\ Due /\ run.at = "scan"
    BY <1>0, TypeFacts, SlotFacts DEF IInv, Placed, Dispatch, Due, Slot, Sched, Scanning
  <1>2. /\ m \in InTable(s) /\ m \in Msgs
        /\ O2_SCHED_BIN(ts[m]) <= last_bin[s] /\ ts[m] <= run.until
        /\ InOrder(s) => /\ O2_SCHED_BIN(ts[m]) = last_bin[s]
                         /\ ts[m] >= last_time[s]
                         /\ \A k \in InTable(s) : ts[m] <= ts[k]
    BY <1>0, <1>1, DueFacts
  <1>3. /\ table' = [table EXCEPT ![s] = Removed(table[s], i)]
        /\ last_time' = [last_time EXCEPT ![s] = ts[m]]
        /\ where' = [where EXCEPT ![m] = "delivered"]
        /\ run' = [run EXCEPT !.at = "handler"]
    BY <1>0, <1>1 DEF Dispatch, Removed, Sched
  <1>4. /\ Removed(table[s], i) \in Tables /\ Sorted(Removed(table[s], i), ts)
        /\ Content(Removed(table[s], i)) = Content(table[s]) \ {m}
    <2>1. /\ table[s] \in Tables /\ ts \in [Msgs -> Int] /\ Sorted(table[s], ts)
          /\ i \in Slots /\ table[s][i] # << >> /\ m = Head(table[s][i])
      BY <1>1
    <2> HIDE DEF i, m
    <2> QED  BY ONLY <2>1, RemoveSorted
  <1>5. /\ table'[s] = Removed(table[s], i)
        /\ \A x \in Scheds \ {s} : table'[x] = table[x]
    BY <1>1, <1>3 DEF TypeOK
  <1>t. /\ last_time'[s] = ts[m]
        /\ \A x \in Scheds \ {s} : last_time'[x] = last_time[x]
        /\ where'[m] = "delivered"
        /\ \A k \in Msgs \ {m} : where'[k] = where[k]
    BY <1>1, <1>2, <1>3 DEF TypeOK
  <1>r. /\ run'.at = "handler" /\ run'.sched = run.sched /\ run'.until = run.until
        /\ run'.target = run.target /\ run'.gnow = run.gnow /\ Sched' = Sched
    BY <1>1, <1>3 DEF TypeOK, Sched
  <1>6. TypeOK'
    <2>1. table' \in [Scheds -> [Slots -> Seq(Msgs)]]
      BY <1>1, <1>3, <1>4 DEF TypeOK, Tables
    <2>2. ts[m] \in (-Second)..MaxTime
      <3>1. ts[m] \in Time /\ Second \in Nat
        BY <1>1, <1>2, BinFacts DEF TypeOK
      <3> QED  BY <3>1, SizeAssumption DEF Time
    <2>3. last_time' \in [Scheds -> (-Second)..MaxTime]
      BY <1>1, <1>3, <2>2 DEF TypeOK
    <2>4. where' \in [Msgs -> {"unused", "lt", "gt", "delivered", "dropped",
                               "flushed", "leaked"}]
      BY <1>1, <1>3 DEF TypeOK
    <2>5. run' \in [at : {"idle", "scan", "handler"}, sched : Scheds,
                    until : Int, target : Int, gnow : Int]
      BY <1>1, <1>3 DEF TypeOK
    <2> QED  BY <1>1, <2>1, <2>3, <2>4, <2>5 DEF TypeOK
  <1>7. /\ InTable(s)' = InTable(s) \ {m}
        /\ \A x \in Scheds \ {s} : InTable(x)' = InTable(x)
    <2>1. \A x \in Scheds : InTable(x)' = Content(table'[x])
      BY DEF InTable, Content
    <2> QED  BY <2>1, <1>1, <1>4, <1>5
  <1> HIDE DEF m, i
  <1>8. Accounted'
    <2>1. \A x \in Scheds \ {s} : m \notin InTable(x)
      BY <1>1, <1>2 DEF IInv, Accounted
    <2>2. \A x \in Scheds : m \notin InTable(x)'
      BY <1>7, <2>1
    <2>3. \A x \in Scheds : \A k \in Msgs \ {m} : k \in InTable(x)' <=> k \in InTable(x)
      BY <1>7
    <2> QED  BY <1>t, <2>2, <2>3 DEF IInv, Accounted, Scheds
  <1>9. Placed'
    <2>1. \A x \in Scheds : Sorted(table'[x], ts)
      BY <1>1, <1>4, <1>5 DEF IInv, Placed
    <2>2. ~started => InTable("gt")' = {}
      BY <1>1, <1>7 DEF IInv, Placed, Scheds
    <2> QED  BY <1>1, <2>1, <2>2 DEF Placed
  <1>o. \A x \in Scheds : Unbegun(x)' = Unbegun(x) /\ InOrder(x)' = InOrder(x)
    BY <1>1 DEF Unbegun, InOrder
  <1>10. Pending'
    BY <1>1, <1>2, <1>7, <1>o, <1>t DEF IInv, Pending
  <1>11. Reached'
    <2>1. \A x \in Scheds : /\ O2_SCHED_BIN(last_time'[x]) <= last_bin[x]
                            /\ InOrder(x) =>
                                  \/ last_bin[x] <= O2_SCHED_BIN(last_time'[x])
                                  \/ Unbegun(x)
      <3>1. ASSUME NEW x \in Scheds \ {s}
            PROVE  /\ O2_SCHED_BIN(last_time'[x]) <= last_bin[x]
                   /\ InOrder(x) =>
                         last_bin[x] <= O2_SCHED_BIN(last_time'[x]) \/ Unbegun(x)
        BY <1>0, <1>1, <1>t DEF IInv, Reached
      <3> QED  BY <3>1, <1>1, <1>2, <1>t
    <2>2. Sched = s
      BY <1>0
    <2>3. /\ O2_SCHED_BIN(run.until) <= last_bin[s] + BinsPerSecond
          /\ InOrder(s) =>
                /\ last_bin[s] <= O2_SCHED_BIN(run.until) + 1 \/ Unbegun(s)
                /\ \A k \in InTable(s) :
                      O2_SCHED_BIN(ts[k]) >= last_bin[s] \/ ts[k] > run.until
      BY <1>1, <2>2 DEF IInv, Reached
    <2> QED  BY <1>1, <1>7, <1>o, <1>r, <2>1, <2>2, <2>3 DEF Reached
  <1>12. InTime'
    <2>1. Sched = s /\ ts[m] \in Int /\ run.until \in Int /\ run.target \in Int
      BY <1>0, <1>1, <1>2, TypeFacts
    <2>2. /\ \A x \in Scheds : Reaches(x, now[x])
          /\ -Second <= run.until /\ run.until <= run.target /\ run.target <= now[s]
          /\ s = "gt" => started
          /\ s = "lt" =>
                /\ -Second <= run.gnow
                /\ started => Reaches("gt", run.gnow) /\ run.gnow <= now["gt"]
                /\ ~started => run.gnow = -Second
      BY <1>1, <2>1 DEF IInv, InTime
    <2>3. now[s] \in Int
      BY <1>1, SizeAssumption DEF TypeOK, Time
    <2>4. last_time'[s] <= now[s]
      BY <1>2, <1>t, <2>1, <2>2, <2>3
    <2>5. s = "lt" => Reaches("gt", run.gnow)' = Reaches("gt", run.gnow)
      BY <1>1, <1>r, <1>t DEF Scheds, Reaches
    <2>6. \A x \in Scheds : Reaches(x, now[x])'
      BY <1>1, <2>2, <2>4, <1>t DEF Reaches
    <2>7. last_time'[s] <= run.until
      BY <1>2, <1>t
    <2> QED  BY <1>1, <1>r, <2>1, <2>2, <2>5, <2>6, <2>7 DEF InTime
  <1> QED  BY <1>6, <1>8, <1>9, <1>10, <1>11, <1>12 DEF IInv

\* The handler returns, and the scan looks at the same slot again.
LEMMA ReturnIInv ==
    ASSUME IInv, HandlerReturns
    PROVE  IInv'
  <1>1. /\ TypeOK /\ run.at = "handler" /\ run' = [run EXCEPT !.at = "scan"]
        /\ UNCHANGED <<table, last_bin, last_time, started, now, ts, where, since, late>>
    BY DEF IInv, HandlerReturns
  <1>2. /\ run'.at = "scan" /\ run'.sched = run.sched /\ run'.until = run.until
        /\ run'.target = run.target /\ run'.gnow = run.gnow
        /\ Sched' = Sched /\ Sched \in Scheds
    BY <1>1, TypeFacts DEF TypeOK, Sched
  <1>3. \A s \in Scheds : InTable(s)' = InTable(s)
    BY <1>1 DEF InTable
  <1>4. TypeOK'
    BY <1>1 DEF TypeOK
  <1>5. Accounted'
    BY <1>1, <1>3 DEF IInv, Accounted
  <1>6. Placed'
    BY <1>1, <1>3 DEF IInv, Placed, Scheds
  <1>7. Pending'
    BY <1>1, <1>3 DEF IInv, Pending, InOrder
  <1>8. Reached'
    BY <1>1, <1>2, <1>3 DEF IInv, Reached, InOrder, Unbegun
  <1>9. InTime'
    BY <1>1, <1>2 DEF IInv, InTime, Rewound, Reaches
  <1> QED  BY <1>4, <1>5, <1>6, <1>7, <1>8, <1>9 DEF IInv

\* The scan goes on to the next bin.
LEMMA NextBinIInv ==
    ASSUME IInv, NextBin
    PROVE  IInv'
  <1>0. PICK s \in Scheds : s = Sched
    BY TypeFacts DEF IInv
  <1>1. /\ TypeOK /\ run.at = "scan" /\ Scanning /\ ~Due
        /\ last_bin' = [last_bin EXCEPT ![s] = @ + 1]
        /\ UNCHANGED <<table, last_time, started, now, run, ts, where, since, late>>
    BY <1>0 DEF IInv, NextBin, Scanning, Sched
  <1>2. /\ last_bin'[s] = last_bin[s] + 1 /\ last_bin[s] \in Int
        /\ \A x \in Scheds \ {s} : last_bin'[x] = last_bin[x]
        /\ last_bin' \in [Scheds -> Int]
    BY <1>1 DEF TypeOK
  <1>3. Sched' = s /\ \A x \in Scheds : InTable(x)' = InTable(x)
    BY <1>0, <1>1 DEF Sched, InTable
  <1>4. TypeOK'
    BY <1>1, <1>2 DEF TypeOK
  <1>5. Accounted'
    BY <1>1, <1>3 DEF IInv, Accounted
  <1>6. Placed'
    BY <1>1, <1>3 DEF IInv, Placed, Scheds
  <1>7. Pending'
    BY <1>1, <1>3 DEF IInv, Pending, InOrder
  <1>o. /\ \A x \in Scheds : InOrder(x)' = InOrder(x)
        /\ \A x \in Scheds \ {s} : Unbegun(x)' = Unbegun(x)
    BY <1>1, <1>2 DEF Unbegun, InOrder
  <1>8. Reached'
    <2>1. /\ O2_SCHED_BIN(run.until) \in Int
          /\ O2_SCHED_BIN(last_time[s]) \in Int
      BY <1>1, TypeFacts, BinFacts
    <2>2. last_bin[s] <= O2_SCHED_BIN(run.until)
      BY <1>0, <1>1 DEF Scanning, Sched
    <2>3. /\ O2_SCHED_BIN(last_time[s]) <= last_bin[s]
          /\ O2_SCHED_BIN(run.until) <= last_bin[s] + BinsPerSecond
      BY <1>0, <1>1 DEF IInv, Reached
    <2>4. /\ O2_SCHED_BIN(last_time[s]) <= last_bin'[s]
          /\ last_bin'[s] <= O2_SCHED_BIN(run.until) + 1
          /\ O2_SCHED_BIN(run.until) <= last_bin'[s] + BinsPerSecond
      BY <1>2, <2>1, <2>2, <2>3, SizeAssumption
    <2>5. InOrder(s) => \A k \in InTable(s) :
             O2_SCHED_BIN(ts[k]) >= last_bin'[s] \/ ts[k] > run.until
      BY <1>0, <1>1, <1>2, SlotDone
    <2>6. \A x \in Scheds \ {s} :
             /\ O2_SCHED_BIN(last_time[x]) <= last_bin'[x]
             /\ InOrder(x) => last_bin'[x] <= O2_SCHED_BIN(last_time[x]) \/ Unbegun(x)
      BY <1>0, <1>2 DEF IInv, Reached
    <2> QED  BY <1>1, <1>3, <1>o, <2>4, <2>5, <2>6 DEF Reached
  <1>9. InTime'
    BY <1>0, <1>1, <1>3 DEF IInv, InTime, Rewound, Reaches
  <1> QED  BY <1>4, <1>5, <1>6, <1>7, <1>8, <1>9 DEF IInv

\* The scan ends: another second, the global scheduler, or the end of the poll.
LEMMA EndScanIInv ==
    ASSUME IInv, EndScan
    PROVE  IInv'
  <1>0. PICK s \in Scheds : s = Sched
    BY TypeFacts DEF IInv
  <1>1. /\ TypeOK /\ run.at = "scan" /\ ~Scanning
        /\ last_bin' = [last_bin EXCEPT ![s] = @ - 1]
        /\ last_time' = [last_time EXCEPT ![s] = run.until]
        /\ UNCHANGED <<table, started, now, ts, where, since, late>>
    BY <1>0 DEF IInv, EndScan, Sched
  <1>2. /\ last_bin[s] - 1 >= O2_SCHED_BIN(run.until)
        /\ InOrder(s) =>
              /\ last_bin[s] - 1 = O2_SCHED_BIN(run.until) \/ Unbegun(s)
              /\ \A k \in InTable(s) : ts[k] > run.until
    BY <1>0, <1>1, ScanDone
  <1>3. /\ last_bin'[s] = last_bin[s] - 1 /\ last_time'[s] = run.until
        /\ \A x \in Scheds \ {s} :
              last_bin'[x] = last_bin[x] /\ last_time'[x] = last_time[x]
        /\ last_bin' \in [Scheds -> Int]
    BY <1>1 DEF TypeOK
  <1>t. /\ run.until \in Int /\ run.target \in Int /\ run.gnow \in Int
        /\ \A x \in Scheds : /\ now[x] \in Int /\ 0 <= now[x] /\ now[x] <= MaxTime
                              /\ last_time[x] \in Int /\ last_bin[x] \in Int
        /\ \A x \in Scheds : InTable(x) \subseteq Msgs
        /\ \A k \in Msgs : ts[k] \in Int
        /\ since \in Int /\ 0 <= since /\ O2_SCHED_BIN(since) \in Int
        /\ Second \in Nat \ {0} /\ MaxTime \in Nat
        /\ O2_SCHED_BIN(run.until) \in Int
    <2>1. /\ TypeOK /\ since \in Time /\ Second \in Nat \ {0}
          /\ O2_SCHED_BIN(run.until) \in Int
      BY <1>1, TypeFacts, BinFacts
    <2> QED  BY <2>1, TypeFacts, SizeAssumption DEF Time
  <1>4. /\ \A x \in Scheds : Reaches(x, now[x])
        /\ -Second <= run.until /\ run.until <= run.target /\ run.target <= now[s]
        /\ s = "gt" => started
        /\ s = "lt" =>
              /\ -Second <= run.gnow
              /\ started => Reaches("gt", run.gnow) /\ run.gnow <= now["gt"]
              /\ ~started => run.gnow = -Second
    BY <1>0, <1>1 DEF IInv, InTime
  <1>5. \A x \in Scheds :
           /\ O2_SCHED_BIN(last_time'[x]) <= last_bin'[x]
           /\ InOrder(x)' =>
                 last_bin'[x] <= O2_SCHED_BIN(last_time'[x]) \/ Unbegun(x)'
           /\ Reaches(x, now[x])'
    <2>1. ASSUME NEW x \in Scheds \ {s}
          PROVE  /\ O2_SCHED_BIN(last_time'[x]) <= last_bin'[x]
                 /\ InOrder(x)' =>
                       last_bin'[x] <= O2_SCHED_BIN(last_time'[x]) \/ Unbegun(x)'
                 /\ Reaches(x, now[x])'
      BY <1>0, <1>1, <1>3, <1>4 DEF IInv, Reached, InOrder, Unbegun, Reaches
    <2>2. Reaches(s, now[s])'
      BY <1>1, <1>3, <1>4, <1>t DEF Reaches
    <2>3. O2_SCHED_BIN(last_time'[s]) <= last_bin'[s]
      BY <1>2, <1>3, <1>t
    <2>4. InOrder(s)' => last_bin'[s] <= O2_SCHED_BIN(last_time'[s]) \/ Unbegun(s)'
      <3>1. InOrder(s)' = InOrder(s)
        BY <1>1 DEF InOrder
      <3>2. Unbegun(s) => Unbegun(s)'
        BY <1>1, <1>3, <1>t DEF Unbegun
      <3>3. last_bin[s] - 1 = O2_SCHED_BIN(run.until)
               => last_bin'[s] <= O2_SCHED_BIN(last_time'[s])
        BY <1>3, <1>t
      <3> QED  BY <1>2, <3>1, <3>2, <3>3
    <2> QED  BY <2>1, <2>2, <2>3, <2>4
  <1>6. last_time' \in [Scheds -> (-Second)..MaxTime]
    <2>1. run.until \in (-Second)..MaxTime
      <3>1. now[s] \in Int /\ now[s] <= MaxTime
        BY <1>t
      <3> QED  BY <3>1, <1>4, <1>t
    <2> QED  BY <2>1, <1>1 DEF TypeOK
  <1>7. \A x \in Scheds : InTable(x)' = InTable(x)
    BY <1>1 DEF InTable
  <1>8. Accounted'
    BY <1>1, <1>7 DEF IInv, Accounted
  <1>9. Placed'
    BY <1>1, <1>7 DEF IInv, Placed, Scheds
  <1>10. Pending'
    <2>1. InOrder(s) => \A k \in InTable(s) : ts[k] >= last_time'[s]
      BY <1>2, <1>3, <1>t
    <2>2. \A x \in Scheds : InOrder(x)' = InOrder(x)
      BY <1>1 DEF InOrder
    <2> QED  BY <1>1, <1>3, <1>7, <2>1, <2>2 DEF IInv, Pending
  <1>11. TypeOK' <=> run' \in [at : {"idle", "scan", "handler"}, sched : Scheds,
                               until : Int, target : Int, gnow : Int]
    BY <1>1, <1>3, <1>6 DEF TypeOK
  <1>12. CASE run.until # run.target
    <2>1. run' = Enter(s, run.target, run.until, run.gnow)
      BY <1>0, <1>12 DEF EndScan, Sched
    <2> DEFINE u == Until(run.until, run.target)
    <2>2. /\ u \in Int
          /\ run' = [at |-> "scan", sched |-> s, until |-> u,
                     target |-> run.target, gnow |-> run.gnow]
      BY <2>1, <1>t, <1>4, UntilFacts DEF Enter
    <2> HIDE DEF u
    <2>3. TypeOK'
      BY <2>2, <1>11, <1>t
    <2>4. Sched' = s
      BY <2>2 DEF Sched
    <2>5. s = "lt" => Reaches("gt", run.gnow)' = Reaches("gt", run.gnow)
      BY <1>1, <1>3, <2>2 DEF Scheds, Reaches
    <2>6. Reaches(s, run.target)'
      BY <1>3, <1>4, <2>2 DEF Reaches
    <2>7. -Second <= run.target
      BY <1>4, <1>t
    <2>8. Entered'
      BY <1>1, <1>3, <1>4, <1>5, <1>8, <1>9, <1>10, <2>2, <2>3, <2>4, <2>5, <2>6, <2>7
         DEF Entered, u
    <2> QED  BY <2>8, EnterStep
  <1>13. CASE run.until = run.target /\ s = "lt" /\ started
    <2>1. run' = Enter("gt", run.gnow, last_time["gt"], run.gnow)
      BY <1>0, <1>13 DEF EndScan, Sched
    <2> DEFINE u == Until(last_time["gt"], run.gnow)
    <2>2. "gt" \in Scheds
      BY DEF Scheds
    <2>3. /\ u \in Int
          /\ run' = [at |-> "scan", sched |-> "gt", until |-> u,
                     target |-> run.gnow, gnow |-> run.gnow]
      BY <2>1, <2>2, <1>13, <1>t, <1>4, UntilFacts DEF Enter
    <2> HIDE DEF u
    <2>4. TypeOK'
      BY <2>2, <2>3, <1>11, <1>t
    <2>5. Sched' = "gt"
      BY <2>3 DEF Sched
    <2>6. last_time'["gt"] = last_time["gt"]
      BY <1>3, <1>13, <2>2
    <2>7. run.gnow <= now["gt"] /\ -Second <= run.gnow
      BY <1>4, <1>13, <2>2
    <2>8. Reaches("gt", run.target)'
      BY <1>1, <1>4, <1>13, <2>3, <2>6 DEF Reaches
    <2>9. Entered'
      BY <1>1, <1>5, <1>8, <1>9, <1>10, <1>13, <2>3, <2>4, <2>5, <2>6, <2>7, <2>8
         DEF Entered, u
    <2> QED  BY <2>9, EnterStep
  <1>14. CASE run.until = run.target /\ ~(s = "lt" /\ started)
    <2>1. run' = Idle
      BY <1>0, <1>14 DEF EndScan, Sched
    <2>2. TypeOK'
      BY <2>1, <1>11 DEF Idle, Scheds
    <2>3. run'.at = "idle"
      BY <2>1 DEF Idle
    <2>4. Reached' /\ InTime'
      BY <2>3, <1>1, <1>5 DEF Reached, InTime
    <2> QED  BY <2>2, <2>4, <1>8, <1>9, <1>10 DEF IInv
  <1> QED  BY <1>12, <1>13, <1>14

\* Every step keeps the invariant.
LEMMA NextIInv ==
    ASSUME IInv, [Next]_vars
    PROVE  IInv'
  <1>1. CASE UNCHANGED vars
    <2>1. UNCHANGED <<table, last_bin, last_time, started, now, run, ts, where, since, late>>
      BY <1>1 DEF vars
    <2>2. Sched' = Sched /\ \A s \in Scheds : InTable(s)' = InTable(s)
      BY <2>1 DEF Sched, InTable
    <2>3. TypeOK' /\ Accounted'
      BY <2>1, <2>2 DEF IInv, TypeOK, Accounted
    <2>4. Placed'
      BY <2>1, <2>2 DEF IInv, Placed, Scheds
    <2>5. Sched \in Scheds
      BY TypeFacts DEF IInv
    <2>6. Pending' /\ Reached'
      BY <2>1, <2>2, <2>5 DEF IInv, Pending, Reached, InOrder, Unbegun
    <2>7. InTime'
      BY <2>1, <2>2 DEF IInv, InTime, Rewound, Reaches
    <2> QED  BY <2>3, <2>4, <2>6, <2>7 DEF IInv
  <1>2. CASE Dispatching
    BY <1>2, DispatchIInv, ReturnIInv, NextBinIInv, EndScanIInv DEF Dispatching
  <1>3. CASE Ticks
    BY <1>3, TickIInv DEF Ticks
  <1> QED  BY <1>1, <1>2, <1>3, PollIInv, FlushIInv, ScheduleIInv, StartIInv DEF Next

---------------------------------------------------------------------------
(* The theorems. *)

\* IInv holds always: the argument for both theorems.
LEMMA AlwaysIInv == Spec => []IInv
  <1>1. Init => IInv
    BY InitIInv
  <1>2. IInv /\ [Next]_vars => IInv'
    BY NextIInv
  <1> QED  BY <1>1, <1>2, PTL DEF Spec

\* Whatever handlers schedule while o2_sched_poll scans the table, however late the
\* polls are, and wherever the clock was synchronized, each message that waits is in
\* one slot, the one of its time, and none is dispatched before its time; nor is one
\* left behind, by the global scheduler as long as it is InOrder.
THEOREM MessagesInPlace == Spec => []InItsPlace
  <1>1. IInv => InItsPlace
    <2> SUFFICES ASSUME IInv  PROVE InItsPlace
      OBVIOUS
    <2>1. /\ TypeOK
          /\ \A s \in Scheds : /\ table[s] \in Tables /\ InTable(s) \subseteq Msgs
                               /\ last_bin[s] \in Int /\ last_time[s] \in Int
          /\ \A m \in Msgs : ts[m] \in Int
          /\ run.until \in Int
      BY TypeFacts DEF IInv
    <2>2. SlotsSorted
      <3> SUFFICES ASSUME NEW s \in Scheds, NEW i \in Slots,
                          NEW j \in 1..Len(table[s][i])
                   PROVE  /\ O2_SCHED_INDEX(ts[table[s][i][j]]) = i
                          /\ j > 1 => ts[table[s][i][j - 1]] <= ts[table[s][i][j]]
        BY DEF SlotsSorted
      <3>1. j > 1 => j - 1 \in 1..(j - 1)
        OBVIOUS
      <3> QED  BY <3>1 DEF IInv, Placed, Sorted
    <2>3. NoneOverdue
      <3> SUFFICES ASSUME NEW s \in Scheds, NEW m \in InTable(s), InOrder(s)
                   PROVE  ts[m] >= last_time[s] /\ O2_SCHED_BIN(ts[m]) >= NextVisit(s)
        BY DEF NoneOverdue
      <3>1. ts[m] >= last_time[s] /\ (s = "gt" => ts[m] >= since)
        BY DEF IInv, Pending
      <3>2. /\ ts[m] \in Int /\ O2_SCHED_BIN(ts[m]) \in Int /\ last_bin[s] \in Int
            /\ O2_SCHED_BIN(run.until) \in Int /\ O2_SCHED_BIN(since) \in Int
            /\ ts[m] > run.until => O2_SCHED_BIN(run.until) <= O2_SCHED_BIN(ts[m])
            /\ s = "gt" => O2_SCHED_BIN(since) <= O2_SCHED_BIN(ts[m])
        BY <2>1, <3>1, TypeFacts, BinFacts
      <3>3. CASE ~(run.at = "scan" /\ Sched = s)
        <4>1. NextVisit(s) = last_bin[s]
          BY <3>3 DEF NextVisit, Sched
        <4>2. O2_SCHED_BIN(ts[m]) >= last_bin[s]
          BY <2>1, <3>1, <3>2, <3>3, NotPassed DEF IInv
        <4> QED  BY <3>1, <4>1, <4>2
      <3>4. CASE run.at = "scan" /\ Sched = s
        <4>1. O2_SCHED_BIN(ts[m]) >= last_bin[s] \/ ts[m] > run.until
          BY <3>4 DEF IInv, Reached
        <4>2. \/ last_bin[s] <= O2_SCHED_BIN(run.until) + 1
              \/ s = "gt" /\ last_bin[s] <= O2_SCHED_BIN(since)
          BY <3>4 DEF IInv, Reached, Unbegun
        <4>3. \/ NextVisit(s) = last_bin[s] - 1
              \/ NextVisit(s) = last_bin[s] /\ last_bin[s] <= O2_SCHED_BIN(run.until)
          BY <3>4 DEF NextVisit, Scanning, Sched
        <4> QED  BY <3>1, <3>2, <4>1, <4>2, <4>3
      <3> QED  BY <3>3, <3>4
    <2>4. NotEarly
      BY DEF IInv, InTime, NotEarly, Reaches
    <2> QED  BY <2>1, <2>2, <2>3, <2>4 DEF IInv, InItsPlace
  <1> QED  BY <1>1, AlwaysIInv, PTL

\* sched_dispatch calls the handlers in the order of the timestamps, also when
\* the clock advanced by more than the span of the table and when handlers
\* schedule more or synchronize the clock; and it returns when everything due at the
\* time of the poll has been dispatched (by the global scheduler, as long as it was not
\* given a message for a time before the one at which it was started: InOrder).
THEOREM HandledInOrder == Spec => DispatchedInOrder
  <1>1. IInv /\ [Next]_vars => [EarliestFirst /\ ReturnsWhenDone]_vars
    <2> SUFFICES ASSUME IInv, Next  PROVE EarliestFirst /\ ReturnsWhenDone
      OBVIOUS
    <2>t. TypeOK
      BY DEF IInv
    <2>1. CASE Dispatch
      <3>1. /\ where' = [where EXCEPT ![Head(Slot)] = "delivered"]
            /\ run' = [run EXCEPT !.at = "handler"] /\ Scanning /\ Due
        BY <2>1 DEF Dispatch
      <3>2. /\ Head(Slot) \in InTable(Sched) /\ Head(Slot) \in Msgs
            /\ InOrder(Sched) => \A k \in InTable(Sched) : ts[Head(Slot)] <= ts[k]
        BY <3>1, DueFacts
      <3>3. Sched \in Scheds
        BY <2>t, TypeFacts
      <3>4. where[Head(Slot)] = Sched
        BY <3>2, <3>3 DEF IInv, Accounted
      <3>5. EarliestFirst
        BY <3>1, <3>2, <3>4, <2>t DEF EarliestFirst, TypeOK, Scheds
      <3>6. ReturnsWhenDone
        BY <3>1, <2>t DEF ReturnsWhenDone, TypeOK
      <3> QED  BY <3>5, <3>6
    <2>2. CASE EndScan
      <3>1. run.at = "scan" /\ ~Scanning /\ where' = where
        BY <2>2 DEF EndScan
      <3>2. InOrder(Sched) => \A k \in InTable(Sched) : ts[k] > run.until
        BY <3>1, ScanDone
      <3>3. run.until # run.target => run'.at = "scan" /\ run'.sched = run.sched
        BY <2>2 DEF EndScan, Enter
      <3>4. ReturnsWhenDone
        BY <3>2, <3>3 DEF ReturnsWhenDone, Sched
      <3>5. EarliestFirst
        BY <3>1 DEF EarliestFirst, Scheds
      <3> QED  BY <3>4, <3>5
    <2>3. CASE HandlerReturns \/ NextBin \/ Poll \/ Ticks
      <3>1. where' = where
        BY <2>3 DEF HandlerReturns, NextBin, Poll, Ticks, Tick
      <3>2. run.at = "scan" => run' = run
        BY <2>3 DEF HandlerReturns, NextBin, Poll, Ticks, Tick
      <3> QED  BY <3>1, <3>2 DEF EarliestFirst, ReturnsWhenDone, Scheds
    <2>4. CASE Flush \/ \E t, g \in StartTimes : StartGlobal(t, g)
      <3>1. /\ \A m \in Msgs : where'[m] = where[m] \/ where'[m] = "flushed"
            /\ run' = run
        BY <2>4, <2>t DEF Flush, StartGlobal, TypeOK
      <3> QED  BY <3>1 DEF EarliestFirst, ReturnsWhenDone, Scheds
    <2>5. CASE \E s \in Scheds, m \in Msgs, t \in Time : Schedule(s, m, t)
      <3>1. PICK s \in Scheds, m \in Msgs, t \in Time : Schedule(s, m, t)
        BY <2>5
      <3>2. run' = run /\ where[m] = "unused"
        BY <3>1 DEF Schedule
      <3>3. \A k \in Msgs \ {m} : where'[k] = where[k]
        BY <3>1, <2>t DEF Schedule, TypeOK
      <3> QED  BY <3>2, <3>3 DEF EarliestFirst, ReturnsWhenDone, Scheds
    <2> QED  BY <2>1, <2>2, <2>3, <2>4, <2>5 DEF Next, Dispatching
  <1> QED  BY <1>1, AlwaysIInv, PTL DEF Spec, DispatchedInOrder
=============================================================================
