--------------------------- MODULE O2QueueProofs ---------------------------
(***************************************************************************)
(* Proofs about O2Queue: IInv is inductive, so the queue is a linked list  *)
(* of distinct, singly owned elements in every reachable state, for any    *)
(* number of threads and elements; and every step of O2Queue is a step of  *)
(* the abstract Stack.                                                     *)
(***************************************************************************)
EXTENDS O2Queue, TLAPS

\* Dropping the first element of a list of nodes.
LEMMA TailFacts ==
    ASSUME NEW s \in Seq(Nodes), s # << >>
    PROVE  /\ Tail(s) \in Seq(Nodes)
           /\ Len(s) \in Nat /\ Len(s) > 0
           /\ Len(Tail(s)) = Len(s) - 1
           /\ \A i \in 1..Len(Tail(s)) : Tail(s)[i] = s[i + 1]
           /\ Head(s) = s[1] /\ s[1] \in Nodes
           /\ s[1] \in Elems(s)
           /\ Elems(Tail(s)) \subseteq Elems(s)
           /\ Distinct(s) => Distinct(Tail(s)) /\ s[1] \notin Elems(Tail(s))
  <1>1. /\ Tail(s) \in Seq(Nodes)
        /\ Len(s) \in Nat /\ Len(s) > 0
        /\ Len(Tail(s)) = Len(s) - 1
        /\ \A i \in 1..Len(Tail(s)) : Tail(s)[i] = s[i + 1]
        /\ Head(s) = s[1] /\ s[1] \in Nodes
    OBVIOUS
  <1>2. s[1] \in Elems(s) /\ Elems(Tail(s)) \subseteq Elems(s)
    BY <1>1 DEF Elems
  <1>3. Distinct(s) => Distinct(Tail(s)) /\ s[1] \notin Elems(Tail(s))
    BY <1>1 DEF Distinct, Elems
  <1> QED  BY <1>1, <1>2, <1>3

\* Putting a new element in front of a list of nodes.
LEMMA ConsFacts ==
    ASSUME NEW s \in Seq(Nodes), NEW e \in Nodes
    PROVE  /\ <<e>> \o s \in Seq(Nodes)
           /\ Len(<<e>> \o s) = Len(s) + 1
           /\ <<e>> \o s # << >>
           /\ (<<e>> \o s)[1] = e
           /\ \A i \in 1..Len(s) : (<<e>> \o s)[i + 1] = s[i]
           /\ Elems(<<e>> \o s) = Elems(s) \cup {e}
           /\ Distinct(s) /\ e \notin Elems(s) => Distinct(<<e>> \o s)
  <1> DEFINE c == <<e>> \o s
  <1>1. /\ c \in Seq(Nodes) /\ Len(s) \in Nat
        /\ Len(c) = Len(s) + 1
        /\ c # << >>
        /\ c[1] = e
        /\ \A i \in 1..Len(s) : c[i + 1] = s[i]
    OBVIOUS
  <1>2. \A i \in 2..Len(c) : i - 1 \in 1..Len(s) /\ c[i] = s[i - 1]
    BY <1>1
  <1>3. Elems(c) = Elems(s) \cup {e}
    <2>1. Elems(c) \subseteq Elems(s) \cup {e}
      BY <1>1, <1>2 DEF Elems
    <2>2. e \in Elems(c)
      BY <1>1 DEF Elems
    <2>3. ASSUME NEW i \in 1..Len(s)
          PROVE  s[i] \in Elems(c)
      <3>1. i + 1 \in 1..Len(c) /\ c[i + 1] = s[i]
        BY <1>1
      <3> HIDE DEF c
      <3> QED  BY <3>1 DEF Elems
    <2>4. Elems(s) \subseteq Elems(c)
      BY <2>3 DEF Elems
    <2> QED  BY <2>1, <2>2, <2>4
  <1>4. ASSUME Distinct(s), e \notin Elems(s)
        PROVE  Distinct(c)
    BY <1>1, <1>2, <1>4 DEF Distinct, Elems
  <1> QED  BY <1>1, <1>3, <1>4

\* A non-NULL pointer to a list points to its first element.
LEMMA LinkedFirst ==
    ASSUME NEW nx, NEW p \in Ptr, NEW s \in Seq(Nodes), Linked(nx, p, s)
    PROVE  /\ p # NULL => s # << >> /\ p = s[1] /\ p \in Elems(s)
           /\ p = NULL => s = << >>
  <1>1. s # << >> => s[1] \in Nodes /\ 1 \in 1..Len(s)
    OBVIOUS
  <1> QED  BY <1>1, NullAssumption DEF Linked, Elems

\* Dropping the first element: the list starts at its successor.
LEMMA LinkedTail ==
    ASSUME NEW nx, NEW p, NEW s \in Seq(Nodes), s # << >>, Linked(nx, p, s)
    PROVE  Linked(nx, nx[p], Tail(s))
  <1> DEFINE tl == Tail(s)
  <1>1. /\ tl \in Seq(Nodes)
        /\ Len(s) \in Nat /\ Len(s) > 0
        /\ Len(tl) = Len(s) - 1
        /\ \A i \in 1..Len(tl) : tl[i] = s[i + 1]
    BY TailFacts
  <1>e. tl = << >> <=> Len(tl) = 0
    <2> HIDE DEF tl
    <2> QED  BY <1>1
  <1> HIDE DEF tl
  <1>2. p = s[1] /\ nx[p] = IF 1 = Len(s) THEN NULL ELSE s[2]
    <2>1. 1 \in 1..Len(s) /\ 1 + 1 = 2
      BY <1>1
    <2>2. nx[s[1]] = IF 1 = Len(s) THEN NULL ELSE s[1 + 1]
      BY <2>1 DEF Linked
    <2> QED  BY <2>1, <2>2 DEF Linked
  <1>3. nx[p] = IF tl = << >> THEN NULL ELSE tl[1]
    BY <1>1, <1>2, <1>e
  <1>4. ASSUME NEW i \in 1..Len(tl)
        PROVE  nx[tl[i]] = IF i = Len(tl) THEN NULL
                                  ELSE tl[i + 1]
    <2>1. i \in Nat /\ i + 1 \in 1..Len(s) /\ tl[i] = s[i + 1]
      BY <1>1
    <2>2. nx[s[i + 1]] = IF i + 1 = Len(s) THEN NULL ELSE s[(i + 1) + 1]
      BY <2>1 DEF Linked
    <2>3. i # Len(tl) => tl[i + 1] = s[(i + 1) + 1]
      <3>1. i # Len(tl) => i + 1 \in 1..Len(tl)
        BY <1>1, <2>1
      <3> QED  BY <3>1, <1>1
    <2> QED  BY <1>1, <2>1, <2>2, <2>3
  <1>5. Linked(nx, nx[p], tl)
    BY <1>3, <1>4 DEF Linked
  <1> QED  BY <1>5 DEF tl

\* Writing the link word of an element that is not on a list leaves the list
\* as it was.
LEMMA LinkedFrame ==
    ASSUME NEW nx \in [Nodes -> Ptr], NEW p, NEW s \in Seq(Nodes),
           NEW e \in Nodes, NEW q \in Ptr,
           Linked(nx, p, s), e \notin Elems(s)
    PROVE  Linked([nx EXCEPT ![e] = q], p, s)
  <1>1. \A i \in 1..Len(s) : s[i] \in Nodes /\ s[i] # e
    BY DEF Elems
  <1> QED  BY <1>1 DEF Linked

\* An element passes from the front of the queue to thread t, or from t to
\* the front of the queue, or the queue as a whole to t's private list, or
\* the front of that list to t: it still has one owner.
LEMMA OwnerPop ==
    ASSUME NEW s \in Seq(Nodes), s # << >>,
           NEW h \in [Threads -> SUBSET Nodes],
           NEW r \in [Threads -> Seq(Nodes)],
           SingleOwner(s, h, r), NEW t \in Threads
    PROVE  SingleOwner(Tail(s), [h EXCEPT ![t] = @ \cup {s[1]}], r)
  <1> DEFINE s2 == Tail(s)
             h2 == [h EXCEPT ![t] = @ \cup {s[1]}]
  <1>1. Elems(s2) \subseteq Elems(s) /\ s[1] \in Elems(s)
        /\ Distinct(s2) /\ s[1] \notin Elems(s2)
    BY TailFacts DEF SingleOwner, Disjoint
  <1>2. \A u \in Threads : h2[u] = IF u = t THEN h[u] \cup {s[1]} ELSE h[u]
    OBVIOUS
  <1> HIDE DEF s2, h2
  <1>3. SingleOwner(s2, h2, r)
    <2>1. ASSUME NEW v \in Threads
          PROVE  /\ Distinct(r[v])
                 /\ Disjoint(Elems(s2), h2[v])
                 /\ Disjoint(Elems(s2), Elems(r[v]))
      BY <1>1, <1>2 DEF SingleOwner, Disjoint
    <2>2. ASSUME NEW v \in Threads, NEW u \in Threads
          PROVE  Disjoint(h2[v], Elems(r[u]))
      BY <1>1, <1>2 DEF SingleOwner, Disjoint
    <2>3. ASSUME NEW v \in Threads, NEW u \in Threads, u # v
          PROVE  /\ Disjoint(h2[v], h2[u])
                 /\ Disjoint(Elems(r[v]), Elems(r[u]))
      BY <1>1, <1>2, <2>3 DEF SingleOwner, Disjoint
    <2> QED  BY <1>1, <1>2, <2>1, <2>2, <2>3 DEF SingleOwner, Disjoint
  <1> QED  BY <1>3 DEF s2, h2

\* Moving the element that t holds to the front of the queue: one owner still.
LEMMA OwnerPush ==
    ASSUME NEW s \in Seq(Nodes),
           NEW h \in [Threads -> SUBSET Nodes],
           NEW r \in [Threads -> Seq(Nodes)],
           SingleOwner(s, h, r), NEW t \in Threads, NEW e \in h[t]
    PROVE  SingleOwner(<<e>> \o s, [h EXCEPT ![t] = @ \ {e}], r)
  <1> DEFINE s2 == <<e>> \o s
             h2 == [h EXCEPT ![t] = @ \ {e}]
  <1>1. e \in Nodes /\ e \notin Elems(s)
    BY DEF SingleOwner, Disjoint
  <1>2. Elems(s2) = Elems(s) \cup {e} /\ Distinct(s2)
    BY <1>1, ConsFacts DEF SingleOwner, Disjoint
  <1>3. \A u \in Threads : h2[u] = IF u = t THEN h[u] \ {e} ELSE h[u]
    OBVIOUS
  <1> HIDE DEF s2, h2
  <1>4. SingleOwner(s2, h2, r)
    <2>1. ASSUME NEW v \in Threads
          PROVE  /\ Distinct(r[v])
                 /\ Disjoint(Elems(s2), h2[v])
                 /\ Disjoint(Elems(s2), Elems(r[v]))
      BY <1>1, <1>2, <1>3 DEF SingleOwner, Disjoint
    <2>2. ASSUME NEW v \in Threads, NEW u \in Threads
          PROVE  Disjoint(h2[v], Elems(r[u]))
      BY <1>1, <1>2, <1>3 DEF SingleOwner, Disjoint
    <2>3. ASSUME NEW v \in Threads, NEW u \in Threads, u # v
          PROVE  /\ Disjoint(h2[v], h2[u])
                 /\ Disjoint(Elems(r[v]), Elems(r[u]))
      BY <1>1, <1>2, <1>3, <2>3 DEF SingleOwner, Disjoint
    <2> QED  BY <1>1, <1>2, <1>3, <2>1, <2>2, <2>3 DEF SingleOwner, Disjoint
  <1> QED  BY <1>4 DEF s2, h2

\* Moving the whole queue to thread t, which holds nothing: one owner still.
LEMMA OwnerGrab ==
    ASSUME NEW s \in Seq(Nodes),
           NEW h \in [Threads -> SUBSET Nodes],
           NEW r \in [Threads -> Seq(Nodes)],
           SingleOwner(s, h, r), NEW t \in Threads, r[t] = << >>
    PROVE  SingleOwner(<< >>, h, [r EXCEPT ![t] = s])
  <1> DEFINE s2 == << >>
             r2 == [r EXCEPT ![t] = s]
  <1>1. Elems(s2) = {} /\ Distinct(s2)
    BY DEF Elems, Distinct
  <1>2. \A u \in Threads : r2[u] = IF u = t THEN s ELSE r[u]
    OBVIOUS
  <1> HIDE DEF s2, r2
  <1>3. SingleOwner(s2, h, r2)
    BY <1>1, <1>2 DEF SingleOwner, Disjoint
  <1> QED  BY <1>3 DEF s2, r2

\* Moving the front of the list that t grabbed into t's hands: one owner still.
LEMMA OwnerVisit ==
    ASSUME NEW s \in Seq(Nodes),
           NEW h \in [Threads -> SUBSET Nodes],
           NEW r \in [Threads -> Seq(Nodes)],
           SingleOwner(s, h, r), NEW t \in Threads, r[t] # << >>
    PROVE  SingleOwner(s, [h EXCEPT ![t] = @ \cup {r[t][1]}],
                       [r EXCEPT ![t] = Tail(@)])
  <1> DEFINE e == r[t][1]
             tl == Tail(r[t])
             h2 == [h EXCEPT ![t] = @ \cup {e}]
             r2 == [r EXCEPT ![t] = tl]
  <1>1. Elems(tl) \subseteq Elems(r[t]) /\ e \in Elems(r[t])
        /\ Distinct(tl) /\ e \notin Elems(tl)
    BY TailFacts DEF SingleOwner, Disjoint
  <1>2. \A u \in Threads : h2[u] = IF u = t THEN h[u] \cup {e} ELSE h[u]
    OBVIOUS
  <1>3. \A u \in Threads : r2[u] = IF u = t THEN tl ELSE r[u]
    OBVIOUS
  <1> HIDE DEF e, tl, h2, r2
  <1>5. \A u \in Threads : Elems(r2[u]) \subseteq Elems(r[u])
    BY <1>1, <1>3
  <1>6. \A u \in Threads : e \notin Elems(r2[u]) /\ e \notin h[u]
    <2> TAKE u \in Threads
    <2>1. e \notin h[u]
      BY <1>1 DEF SingleOwner, Disjoint
    <2>2. CASE u = t
      BY <1>1, <1>3, <2>1, <2>2
    <2>3. CASE u # t
      <3>1. Disjoint(Elems(r[t]), Elems(r[u]))
        BY <2>3 DEF SingleOwner
      <3> QED  BY <1>1, <1>5, <2>1, <3>1 DEF Disjoint
    <2> QED  BY <2>2, <2>3
  <1>4. SingleOwner(s, h2, r2)
    <2>1. ASSUME NEW v \in Threads
          PROVE  /\ Distinct(r2[v])
                 /\ Disjoint(Elems(s), h2[v])
                 /\ Disjoint(Elems(s), Elems(r2[v]))
      <3>1. /\ Distinct(r[v]) /\ Disjoint(Elems(s), h[v])
            /\ Disjoint(Elems(s), Elems(r[v])) /\ Disjoint(Elems(s), Elems(r[t]))
        BY DEF SingleOwner
      <3> QED  BY <3>1, <1>1, <1>2, <1>3 DEF Disjoint
    <2>2. ASSUME NEW v \in Threads, NEW u \in Threads
          PROVE  Disjoint(h2[v], Elems(r2[u]))
      <3>1. Disjoint(h[v], Elems(r[u]))
        BY DEF SingleOwner
      <3> QED  BY <1>2, <1>5, <1>6, <3>1 DEF Disjoint
    <2>3. ASSUME NEW v \in Threads, NEW u \in Threads, u # v
          PROVE  /\ Disjoint(h2[v], h2[u])
                 /\ Disjoint(Elems(r2[v]), Elems(r2[u]))
      <3>1. Disjoint(h[v], h[u]) /\ Disjoint(Elems(r[v]), Elems(r[u]))
        BY <2>3 DEF SingleOwner
      <3> QED  BY <1>2, <1>5, <1>6, <2>3, <3>1 DEF Disjoint
    <2> QED  BY <1>1, <1>2, <1>3, <2>1, <2>2, <2>3 DEF SingleOwner, Disjoint
  <1> QED  BY <1>4 DEF e, tl, h2, r2

---------------------------------------------------------------------------
\* The initial states satisfy the inductive invariant.
LEMMA InitIInv == Init => IInv
  <1> SUFFICES ASSUME Init PROVE IInv
    OBVIOUS
  <1>1. TypeOK
    BY DEF Init, TypeOK, Head0, HeadWord, Ptr, Labels
  <1>2. QueueLinked /\ GrabLinked
    BY DEF Init, QueueLinked, GrabLinked, Linked, Head0
  <1>3. OneOwner
    <2>1. Elems(<< >>) = {} /\ Distinct(<< >>)
      BY DEF Elems, Distinct
    <2> QED  BY <2>1 DEF Init, OneOwner, SingleOwner, Disjoint
  <1>4. Snapshot
    BY DEF Init, Snapshot
  <1> QED  BY <1>1, <1>2, <1>3, <1>4 DEF IInv

\* A step that only moves a thread to its next label, or copies the head,
\* touches neither the lists nor the owners.
LEMMA ListsFrame ==
    ASSUME IInv, UNCHANGED <<head, next, cur, held, stk, rest>>
    PROVE  QueueLinked' /\ GrabLinked' /\ OneOwner'
  BY DEF IInv, QueueLinked, GrabLinked, OneOwner

\* The steps that change no list and no owner.
LEMMA LocalSteps ==
    ASSUME IInv, NEW t \in Threads,
           \/ PopLoad(t) \/ GrabLoad(t) \/ \E e \in Nodes : PushLoad(t, e)
           \/ PopEmpty(t) \/ GrabEmpty(t) \/ WalkEnd(t)
           \/ PopRead(t) \/ GrabTest(t)
           \/ PopRetry(t) \/ PushRetry(t) \/ GrabRetry(t)
    PROVE  IInv'
  <1> USE DEF IInv
  <1> DEFINE Lists == UNCHANGED <<head, next, cur, held, stk, rest>>
  <1>1. CASE PopLoad(t)
    <2>1. TypeOK'    BY <1>1 DEF TypeOK, PopLoad, Load, Labels
    <2>2. Snapshot'  BY <1>1 DEF TypeOK, Snapshot, PopLoad, Load, HeadWord
    <2>3. Lists      BY <1>1 DEF PopLoad
    <2> QED  BY <2>1, <2>2, <2>3, ListsFrame
  <1>2. CASE GrabLoad(t)
    <2>1. TypeOK'    BY <1>2 DEF TypeOK, GrabLoad, Load, Labels
    <2>2. Snapshot'  BY <1>2 DEF TypeOK, Snapshot, GrabLoad, Load, HeadWord
    <2>3. Lists      BY <1>2 DEF GrabLoad
    <2> QED  BY <2>1, <2>2, <2>3, ListsFrame
  <1>3. ASSUME NEW e \in Nodes, PushLoad(t, e)
        PROVE  IInv'
    <2>1. TypeOK'    BY <1>3 DEF TypeOK, PushLoad, Load, Labels, Ptr
    <2>2. Snapshot'  BY <1>3 DEF TypeOK, Snapshot, PushLoad, Load, HeadWord
    <2>3. Lists      BY <1>3 DEF PushLoad
    <2> QED  BY <2>1, <2>2, <2>3, ListsFrame
  <1>4. CASE PopEmpty(t)
    <2>1. TypeOK'    BY <1>4 DEF TypeOK, PopEmpty, Labels
    <2>2. Snapshot'  BY <1>4 DEF TypeOK, Snapshot, PopEmpty
    <2>3. Lists      BY <1>4 DEF PopEmpty
    <2> QED  BY <2>1, <2>2, <2>3, ListsFrame
  <1>5. CASE GrabEmpty(t)
    <2>1. TypeOK'    BY <1>5 DEF TypeOK, GrabEmpty, Labels
    <2>2. Snapshot'  BY <1>5 DEF TypeOK, Snapshot, GrabEmpty
    <2>3. Lists      BY <1>5 DEF GrabEmpty
    <2> QED  BY <2>1, <2>2, <2>3, ListsFrame
  <1>6. CASE WalkEnd(t)
    <2>1. TypeOK'    BY <1>6 DEF TypeOK, WalkEnd, Labels
    <2>2. rest[t] = << >>
      <3>1. Linked(next, cur[t], rest[t]) /\ cur[t] = NULL /\ cur[t] \in Ptr
            /\ rest[t] \in Seq(Nodes)
        BY <1>6 DEF GrabLinked, WalkEnd, TypeOK
      <3> QED  BY <3>1, LinkedFirst
    <2>3. Snapshot'  BY <1>6, <2>2 DEF TypeOK, Snapshot, WalkEnd
    <2>4. Lists      BY <1>6 DEF WalkEnd
    <2> QED  BY <2>1, <2>3, <2>4, ListsFrame
  <1>7. CASE PopRead(t)
    <2>1. orig[t] \in HeadWord /\ orig[t].aba + 1 \in Nat
          /\ orig[t].first \in Nodes /\ next[orig[t].first] \in Ptr
      BY <1>7 DEF TypeOK, PopRead, HeadWord, Ptr
    <2>2. TypeOK'    BY <1>7, <2>1 DEF TypeOK, PopRead, Labels, HeadWord
    <2>3. Snapshot'  BY <1>7, <2>1 DEF TypeOK, Snapshot, PopRead
    <2>4. Lists      BY <1>7 DEF PopRead
    <2> QED  BY <2>2, <2>3, <2>4, ListsFrame
  <1>8. CASE GrabTest(t)
    <2>1. orig[t] \in HeadWord /\ orig[t].aba + 1 \in Nat
          /\ orig[t].first \in Nodes
      BY <1>8 DEF TypeOK, GrabTest, HeadWord, Ptr
    <2>2. TypeOK'    BY <1>8, <2>1 DEF TypeOK, GrabTest, Labels, HeadWord, Ptr
    <2>3. Snapshot'  BY <1>8, <2>1 DEF TypeOK, Snapshot, GrabTest
    <2>4. Lists      BY <1>8 DEF GrabTest
    <2> QED  BY <2>2, <2>3, <2>4, ListsFrame
  <1>9. CASE PopRetry(t)
    <2>1. TypeOK'    BY <1>9 DEF TypeOK, PopRetry, CasFail, Labels
    <2>2. Snapshot'  BY <1>9 DEF TypeOK, Snapshot, PopRetry, CasFail, HeadWord
    <2>3. Lists      BY <1>9 DEF PopRetry, CasFail
    <2> QED  BY <2>1, <2>2, <2>3, ListsFrame
  <1>10. CASE PushRetry(t)
    <2>1. TypeOK'    BY <1>10 DEF TypeOK, PushRetry, CasFail, Labels
    <2>2. Snapshot'  BY <1>10 DEF TypeOK, Snapshot, PushRetry, CasFail, HeadWord
    <2>3. Lists      BY <1>10 DEF PushRetry, CasFail
    <2> QED  BY <2>1, <2>2, <2>3, ListsFrame
  <1>11. CASE GrabRetry(t)
    <2>1. TypeOK'    BY <1>11 DEF TypeOK, GrabRetry, CasFail, Labels
    <2>2. Snapshot'  BY <1>11 DEF TypeOK, Snapshot, GrabRetry, CasFail, HeadWord
    <2>3. Lists      BY <1>11 DEF GrabRetry, CasFail
    <2> QED  BY <2>1, <2>2, <2>3, ListsFrame
  <1> QED  BY <1>1, <1>2, <1>3, <1>4, <1>5, <1>6, <1>7, <1>8, <1>9, <1>10, <1>11

\* Writing the link word of an element the thread owns, with a pointer taken
\* from anywhere.
LEMMA OwnerWrites ==
    ASSUME IInv, NEW t \in Threads, NEW e \in held[t], NEW q \in Ptr,
           next' = [next EXCEPT ![e] = q],
           UNCHANGED <<head, cur, held, stk, rest>>
    PROVE  QueueLinked' /\ GrabLinked' /\ OneOwner'
  <1>0. /\ e \in Nodes /\ stk \in Seq(Nodes) /\ e \notin Elems(stk)
        /\ next \in [Nodes -> Ptr]
        /\ \A u \in Threads : rest[u] \in Seq(Nodes) /\ e \notin Elems(rest[u])
    BY DEF IInv, TypeOK, OneOwner, SingleOwner, Disjoint
  <1>1. QueueLinked'
    BY <1>0, LinkedFrame DEF IInv, QueueLinked
  <1>2. GrabLinked'
    BY <1>0, LinkedFrame DEF IInv, GrabLinked
  <1>3. OneOwner'
    BY DEF IInv, OneOwner
  <1> QED  BY <1>1, <1>2, <1>3

\* push writes the next field of an element it owns: no list is disturbed.
LEMMA PushLinkStep ==
    ASSUME IInv, NEW t \in Threads, PushLink(t)
    PROVE  IInv'
  <1>0. /\ elem[t] \in held[t] /\ elem[t] \in Nodes
        /\ orig[t] \in HeadWord /\ orig[t].first \in Ptr
        /\ orig[t].aba + 1 \in Nat
    BY DEF IInv, TypeOK, Snapshot, PushLink, HeadWord
  <1>1. TypeOK'
    BY <1>0 DEF IInv, TypeOK, PushLink, HeadWord, Labels, Ptr
  <1>2. QueueLinked' /\ GrabLinked' /\ OneOwner'
    BY <1>0, OwnerWrites DEF PushLink
  <1>3. ASSUME NEW u \in Threads, pc[u] = "popCas", orig[u].aba = head.aba
        PROVE  next'[orig[u].first] = next[orig[u].first]
    <2>1. orig[u].first = head.first /\ head.first \in Nodes
          /\ head.first \in Elems(stk)
      BY <1>3, LinkedFirst, NullAssumption
         DEF IInv, TypeOK, QueueLinked, Snapshot, HeadWord, Ptr
    <2>2. orig[u].first # elem[t]
      BY <2>1, <1>0 DEF IInv, OneOwner, SingleOwner, Disjoint
    <2> QED  BY <2>1, <2>2, <1>0 DEF IInv, TypeOK, PushLink
  <1>4. ASSUME NEW u \in Threads, pc[u] = "pushCas", u # t
        PROVE  next'[elem[u]] = next[elem[u]]
    <2>1. elem[u] \in held[u] /\ elem[u] \in Nodes /\ elem[u] # elem[t]
      BY <1>4, <1>0 DEF IInv, TypeOK, Snapshot, OneOwner, SingleOwner, Disjoint
    <2> QED  BY <2>1, <1>0 DEF IInv, TypeOK, PushLink
  <1>5. Snapshot'
    BY <1>0, <1>3, <1>4 DEF IInv, TypeOK, Snapshot, PushLink
  <1> QED  BY <1>1, <1>2, <1>5 DEF IInv

\* The owner of an element may overwrite it: no list is disturbed.
LEMMA ScribbleStep ==
    ASSUME IInv, NEW t \in Threads, NEW e \in Nodes, NEW p \in Ptr,
           Scribble(t, e, p)
    PROVE  IInv'
  <1>1. TypeOK'
    BY DEF IInv, TypeOK, Scribble
  <1>2. QueueLinked' /\ GrabLinked' /\ OneOwner'
    BY OwnerWrites DEF Scribble
  <1>3. ASSUME NEW u \in Threads, pc[u] = "popCas", orig[u].aba = head.aba
        PROVE  next'[orig[u].first] = next[orig[u].first]
    <2>1. orig[u].first = head.first /\ head.first \in Nodes
          /\ head.first \in Elems(stk)
      BY <1>3, LinkedFirst, NullAssumption
         DEF IInv, TypeOK, QueueLinked, Snapshot, HeadWord, Ptr
    <2>2. orig[u].first # e
      BY <2>1 DEF IInv, OneOwner, SingleOwner, Disjoint, Scribble
    <2> QED  BY <2>1, <2>2 DEF IInv, TypeOK, Scribble
  <1>4. ASSUME NEW u \in Threads, pc[u] = "pushCas"
        PROVE  next'[elem[u]] = next[elem[u]]
    <2>1. elem[u] \in held[u] /\ u # t /\ e \in held[t]
      BY <1>4 DEF IInv, Snapshot, Scribble
    <2>2. elem[u] \in Nodes /\ elem[u] # e
      BY <2>1 DEF IInv, TypeOK, OneOwner, SingleOwner, Disjoint
    <2> QED  BY <2>2 DEF IInv, TypeOK, Scribble
  <1>5. Snapshot'
    BY <1>3, <1>4 DEF IInv, TypeOK, Snapshot, Scribble
  <1> QED  BY <1>1, <1>2, <1>5 DEF IInv

\* When a compare-exchange succeeds every other thread's copy of the head is
\* out of date.
LEMMA CasSnapshot ==
    ASSUME IInv, NEW t \in Threads, head = orig[t], head' = newh[t],
           pc[t] \in {"popCas", "pushCas", "grabCas"}
    PROVE  /\ head'.aba = head.aba + 1
           /\ \A u \in Threads : pc[u] # "idle" => orig[u].aba < head'.aba
  BY DEF IInv, TypeOK, Snapshot, HeadWord

\* A successful compare-and-swap of pop takes the first element off.
LEMMA PopCasStep ==
    ASSUME IInv, NEW t \in Threads, PopCas(t)
    PROVE  /\ IInv'
           /\ stk # << >> /\ orig[t].first = Head(stk)
  <1>0. /\ head.first \in Nodes /\ orig[t].first = head.first
        /\ newh[t] \in HeadWord
        /\ newh[t].first = next[head.first]
        /\ stk \in Seq(Nodes) /\ Linked(next, head.first, stk)
    BY DEF IInv, TypeOK, Snapshot, PopCas, QueueLinked
  <1>1. stk # << >> /\ head.first = stk[1]
    BY <1>0, LinkedFirst, NullAssumption DEF Ptr
  <1>2. TypeOK'
    BY <1>0, <1>1, TailFacts DEF IInv, TypeOK, PopCas, Labels
  <1>3. QueueLinked'
    <2>1. Linked(next, next[head.first], Tail(stk))
      BY <1>0, <1>1, LinkedTail
    <2> QED  BY <2>1, <1>0 DEF PopCas, QueueLinked
  <1>4. GrabLinked'
    BY DEF IInv, PopCas, GrabLinked
  <1>5. OneOwner'
    <2>1. SingleOwner(Tail(stk), [held EXCEPT ![t] = @ \cup {stk[1]}], rest)
      BY <1>1, OwnerPop DEF IInv, TypeOK, OneOwner
    <2> QED  BY <2>1, <1>0, <1>1 DEF PopCas, OneOwner
  <1>6. Snapshot'
    BY CasSnapshot DEF IInv, TypeOK, Snapshot, PopCas, HeadWord
  <1> QED  BY <1>0, <1>1, <1>2, <1>3, <1>4, <1>5, <1>6, TailFacts DEF IInv

\* A successful compare-and-swap of push puts its element in front.
LEMMA PushCasStep ==
    ASSUME IInv, NEW t \in Threads, PushCas(t)
    PROVE  IInv' /\ elem[t] \in held[t] /\ elem[t] \in Nodes
  <1>0. /\ elem[t] \in held[t] /\ elem[t] \in Nodes
        /\ newh[t] \in HeadWord /\ newh[t].first = elem[t]
        /\ next[elem[t]] = head.first
        /\ stk \in Seq(Nodes) /\ Linked(next, head.first, stk)
    BY DEF IInv, TypeOK, Snapshot, PushCas, QueueLinked
  <1>2. TypeOK'
    BY <1>0, ConsFacts DEF IInv, TypeOK, PushCas, Labels
  <1>3. QueueLinked'
    <2> DEFINE c == <<elem[t]>> \o stk
    <2>1. /\ Len(stk) \in Nat /\ Len(c) = Len(stk) + 1 /\ c # << >>
          /\ c[1] = elem[t]
          /\ \A i \in 1..Len(stk) : c[i + 1] = stk[i]
          /\ stk = << >> <=> Len(stk) = 0
      BY <1>0, ConsFacts
    <2> HIDE DEF c
    <2>2. \A i \in 2..Len(c) : i - 1 \in 1..Len(stk) /\ c[i] = stk[i - 1]
      BY <2>1
    <2>3. ASSUME NEW i \in 1..Len(c)
          PROVE  next[c[i]] = IF i = Len(c) THEN NULL ELSE c[i + 1]
      <3>1. CASE i = 1
        BY <1>0, <2>1, <3>1 DEF Linked
      <3>2. CASE i # 1
        <4>1. i - 1 \in 1..Len(stk) /\ c[i] = stk[i - 1]
          BY <2>2, <2>1, <3>2
        <4>2. next[stk[i - 1]] =
                 IF i - 1 = Len(stk) THEN NULL ELSE stk[(i - 1) + 1]
          BY <1>0, <4>1 DEF Linked
        <4>3. i # Len(c) => c[i + 1] = stk[(i - 1) + 1]
          BY <2>1, <4>1
        <4> QED  BY <2>1, <4>1, <4>2, <4>3
      <3> QED  BY <3>1, <3>2
    <2>4. Linked(next, elem[t], c)
      BY <2>1, <2>3 DEF Linked
    <2> QED  BY <2>4, <1>0 DEF PushCas, QueueLinked, c
  <1>4. GrabLinked'
    BY DEF IInv, PushCas, GrabLinked
  <1>5. OneOwner'
    <2>1. SingleOwner(<<elem[t]>> \o stk, [held EXCEPT ![t] = @ \ {elem[t]}],
                      rest)
      BY <1>0, OwnerPush DEF IInv, TypeOK, OneOwner
    <2> QED  BY <2>1 DEF PushCas, OneOwner
  <1>6. Snapshot'
    <2>1. \A u \in Threads : u # t => held'[u] = held[u]
      BY DEF IInv, TypeOK, PushCas
    <2> QED  BY <2>1, CasSnapshot DEF IInv, TypeOK, Snapshot, PushCas, HeadWord
  <1> QED  BY <1>0, <1>2, <1>3, <1>4, <1>5, <1>6 DEF IInv

\* A successful compare-and-swap of grab takes the whole list.
LEMMA GrabCasStep ==
    ASSUME IInv, NEW t \in Threads, GrabCas(t)
    PROVE  IInv' /\ stk # << >>
  <1>0. /\ head.first \in Nodes /\ orig[t].first = head.first
        /\ newh[t] \in HeadWord /\ newh[t].first = NULL
        /\ stk \in Seq(Nodes) /\ Linked(next, head.first, stk)
        /\ rest[t] = << >>
    BY DEF IInv, TypeOK, Snapshot, GrabCas, QueueLinked
  <1>1. stk # << >>
    BY <1>0, LinkedFirst, NullAssumption DEF Ptr
  <1>2. TypeOK'
    BY <1>0 DEF IInv, TypeOK, GrabCas, Labels, Ptr
  <1>3. QueueLinked'
    <2>1. Linked(next, NULL, << >>)
      BY DEF Linked
    <2> QED  BY <2>1, <1>0 DEF GrabCas, QueueLinked
  <1>4. GrabLinked'
    BY <1>0 DEF IInv, TypeOK, GrabCas, GrabLinked
  <1>5. OneOwner'
    BY <1>0, OwnerGrab DEF IInv, TypeOK, OneOwner, GrabCas
  <1>6. Snapshot'
    BY CasSnapshot DEF IInv, TypeOK, Snapshot, GrabCas, HeadWord
  <1> QED  BY <1>1, <1>2, <1>3, <1>4, <1>5, <1>6 DEF IInv

\* The thread that grabbed a list takes its first element and goes on.
LEMMA WalkStep ==
    ASSUME IInv, NEW t \in Threads, Walk(t)
    PROVE  IInv' /\ rest[t] # << >> /\ cur[t] = Head(rest[t])
  <1>0. /\ cur[t] \in Nodes /\ rest[t] \in Seq(Nodes)
        /\ Linked(next, cur[t], rest[t])
    BY DEF IInv, TypeOK, GrabLinked, Walk, Ptr
  <1>1. rest[t] # << >> /\ cur[t] = rest[t][1]
    BY <1>0, LinkedFirst, NullAssumption DEF Ptr
  <1>2. TypeOK'
    BY <1>0, <1>1, TailFacts DEF IInv, TypeOK, Walk
  <1>3. QueueLinked'
    BY DEF IInv, Walk, QueueLinked
  <1>4. GrabLinked'
    <2>1. Linked(next, next[cur[t]], Tail(rest[t]))
      BY <1>0, <1>1, LinkedTail
    <2> QED  BY <2>1 DEF IInv, TypeOK, Walk, GrabLinked
  <1>5. OneOwner'
    BY <1>1, OwnerVisit DEF IInv, TypeOK, OneOwner, Walk
  <1>6. Snapshot'
    BY DEF IInv, TypeOK, Snapshot, Walk
  <1> QED  BY <1>0, <1>1, <1>2, <1>3, <1>4, <1>5, <1>6, TailFacts DEF IInv

---------------------------------------------------------------------------
\* Every step preserves the inductive invariant.
LEMMA NextIInv == IInv /\ [Next]_vars => IInv'
  <1> SUFFICES ASSUME IInv, [Next]_vars PROVE IInv'
    OBVIOUS
  <1>1. CASE UNCHANGED vars
    <2>1. TypeOK'    BY <1>1 DEF IInv, TypeOK, vars
    <2>2. Snapshot'  BY <1>1 DEF IInv, Snapshot, vars
    <2>3. UNCHANGED <<head, next, cur, held, stk, rest>>
      BY <1>1 DEF vars
    <2> QED  BY <2>1, <2>2, <2>3, ListsFrame DEF IInv
  <1>2. ASSUME NEW t \in Threads, Step(t)
        PROVE  IInv'
    BY <1>2, LocalSteps, PushLinkStep, WalkStep, PopCasStep, PushCasStep,
       GrabCasStep DEF Step, Cas
  <1>3. ASSUME NEW t \in Threads, Begin(t)
        PROVE  IInv'
    BY <1>3, LocalSteps, ScribbleStep DEF Begin
  <1> QED  BY <1>1, <1>2, <1>3 DEF Next

\* The inductive invariant holds in every reachable state.
THEOREM Invariance == Spec => []IInv
  <1>1. Init => IInv
    BY InitIInv
  <1>2. IInv /\ [Next]_vars => IInv'
    BY NextIInv
  <1> QED  BY <1>1, <1>2, PTL DEF Spec

\* O2queue keeps its head, its link words and the locals of pop, push and
\* grab well typed; in particular pop never returns NULL as an element.
THEOREM TypeCorrect == Spec => []TypeOK
  <1>1. IInv => TypeOK
    BY DEF IInv
  <1> QED  BY <1>1, Invariance, PTL

\* Whatever the threads have read before, the chain that starts at queue_head
\* holds exactly the elements pushed and not yet taken, last pushed first,
\* and a grabbed list stays intact until it has been walked.
THEOREM ListIntegrity == Spec => [](QueueLinked /\ GrabLinked)
  <1>1. IInv => QueueLinked /\ GrabLinked
    BY DEF IInv
  <1> QED  BY <1>1, Invariance, PTL

\* No element is ever owned by two threads, or by a thread and the queue.
THEOREM Ownership == Spec => []OneOwner
  <1>1. IInv => OneOwner
    BY DEF IInv
  <1> QED  BY <1>1, Invariance, PTL

\* Every step of the lock-free code is a step of the abstract stack, or
\* leaves it alone: push, pop and grab are linearizable.
THEOREM Refinement == Spec => StackSpec
  <1>1. Init => AbstractStack!Init
    BY DEF Init, AbstractStack!Init
  <1>2. IInv /\ [Next]_vars => [AbstractStack!Next]_AbstractStack!vars
    <2> SUFFICES ASSUME IInv, [Next]_vars
                 PROVE  [AbstractStack!Next]_AbstractStack!vars
      OBVIOUS
    <2>1. CASE UNCHANGED vars
      BY <2>1 DEF vars, AbstractStack!vars
    <2>2. ASSUME NEW t \in Threads, PopCas(t)
          PROVE  AbstractStack!Pop(t)
      BY <2>2, PopCasStep DEF PopCas, AbstractStack!Pop
    <2>3. ASSUME NEW t \in Threads, PushCas(t)
          PROVE  \E e \in Nodes : AbstractStack!Push(t, e)
      BY <2>3, PushCasStep DEF PushCas, AbstractStack!Push
    <2>4. ASSUME NEW t \in Threads, GrabCas(t)
          PROVE  AbstractStack!Grab(t)
      BY <2>4, GrabCasStep DEF GrabCas, AbstractStack!Grab
    <2>5. ASSUME NEW t \in Threads, Walk(t)
          PROVE  AbstractStack!Visit(t)
      BY <2>5, WalkStep DEF Walk, AbstractStack!Visit
    <2>6. ASSUME NEW t \in Threads, Step(t)
          PROVE  [AbstractStack!Next]_AbstractStack!vars
      BY <2>2, <2>3, <2>4, <2>5, <2>6
         DEF Step, Cas, PopEmpty, PopRead, PopRetry, PushLink, PushRetry,
             GrabEmpty, GrabTest, GrabRetry, WalkEnd, CasFail,
             AbstractStack!Next, AbstractStack!vars
    <2>7. ASSUME NEW t \in Threads, Begin(t)
          PROVE  UNCHANGED AbstractStack!vars
      BY <2>7 DEF Begin, PopLoad, GrabLoad, PushLoad, Scribble,
                  AbstractStack!vars
    <2> QED  BY <2>1, <2>6, <2>7 DEF Next
  <1> QED  BY <1>1, <1>2, Invariance, PTL DEF Spec, StackSpec, AbstractStack!Spec
=============================================================================
