--------------------------- MODULE MsgSendProofs ---------------------------
(***************************************************************************)
(* Proofs about the delivery of messages inside a process, for any         *)
(* services, taps, bundles and number of calls by user code: every message *)
(* has one owner and o2_do_not_reenter is exact (OwnedOnce), and messages  *)
(* that a handler sends are not overtaken (InSendingOrder).                *)
(***************************************************************************)
EXTENDS MsgSend, FiniteSetTheorems, TLAPS

-----------------------------------------------------------------------------
(* The inductive invariant.  Its parts are operators of the calls cs, the  *)
(* stack ms, the queues aw and lo, the timed messages ti, the counter re   *)
(* and the number n of calls by user code, because a step may pass through *)
(* a state that is none of the specification: the current call has counted *)
(* a part or a tap, and the message is not yet sent.                       *)

Message ==
    [id : Nat, dest : Services, parts : Seq(Services),
     ttl : 0..O2_MAX_TAP_FORWARDING, kind : Kinds, seq : 1..MaxSends, src : Int]

\* The message of a call may have made one hop too many.
Held ==
    [id : Nat, dest : Services, parts : Seq(Services), ttl : Nat,
     kind : Kinds, seq : 1..MaxSends, src : Int]

Frame == [msg : Held, at : Positions, i : Nat \ {0}, guarded : BOOLEAN, since : Nat]

\* Calls and the stack of messages go together, and at most one call is guarded.
Shape(cs, ms, re) ==
    /\ cs \in Seq(Frame) /\ ms \in Seq(Message) /\ Len(ms) = Len(cs)
    /\ \A i \in 1..Len(cs) :
          /\ ms[i].id = cs[i].msg.id
          /\ cs[i].at # "done" => cs[i].msg.ttl <= O2_MAX_TAP_FORWARDING
    /\ \A i, j \in 1..Len(ms) : i # j => ms[i].id # ms[j].id
    /\ \/ re = 0 /\ \A i \in 1..Len(cs) : ~cs[i].guarded
       \/ re = 1 /\ \E g \in 1..Len(cs) : \A i \in 1..Len(cs) : cs[i].guarded <=> i = g

\* What waits where, and that "now" messages wait in the order of sending.
Queues(aw, lo, ti, n) ==
    /\ aw \in Seq(Message) /\ lo \in Seq(Message) /\ ti \in SUBSET Message
    /\ IsFiniteSet(ti)
    /\ \A i \in 1..Len(aw) : aw[i].seq <= n
    /\ \A i \in 1..Len(lo) : lo[i].seq <= n /\ lo[i].kind = "tap"
    /\ \A m \in ti : m.seq <= n /\ m.kind = "timed"
    /\ \A i \in 1..Len(aw) : aw[i].kind = "now" => aw[i].src # -1 /\ aw[i].src < aw[i].seq
    /\ \A i, j \in 1..Len(aw) :
          i < j /\ aw[i].kind = "now" /\ aw[j].kind = "now" => aw[i].seq < aw[j].seq

\* The ids in use are as many as there are messages.
Used(ms, aw, lo, ti) ==
    {m.id : m \in Range(ms) \cup Range(aw) \cup Range(lo) \cup ti}

Alone(ms, aw, lo, ti) ==
    /\ IsFiniteSet(Used(ms, aw, lo, ti))
    /\ Cardinality(Used(ms, aw, lo, ti)) =
          Len(ms) + Len(aw) + Len(lo) + Cardinality(ti)

\* No guarded call at i or below.
Free(cs, i) == \A j \in i..Len(cs) : ~cs[j].guarded

\* Handlers in progress were called one after the other, each but the innermost
\* before some call by user code; one that is called unguarded has nothing waiting.
Nested(cs, aw, n) ==
    /\ \A i \in 1..Len(cs) : cs[i].msg.seq <= n /\ cs[i].since <= n
    /\ \A i \in 2..Len(cs) : cs[i].at = "handler" => cs[i].since < n
    /\ \A i, j \in 1..Len(cs) :
          i < j /\ cs[i].at = "handler" /\ cs[j].at = "handler" => cs[j].since < cs[i].since
    /\ \A i \in 1..Len(cs) : cs[i].at = "handler" /\ Free(cs, i) =>
          \A k \in 1..Len(aw) : aw[k].kind = "now" => aw[k].src # cs[i].since

\* What is delivered was sent before what waits, by the same handler to the same service.
Ahead(cs, aw) ==
    \A i \in 1..Len(cs), k \in 1..Len(aw) :
        (/\ cs[i].at \in {"start", "handler"} /\ cs[i].msg.kind = "now"
         /\ aw[k].kind = "now" /\ aw[k].dest = cs[i].msg.dest
         /\ aw[k].src = cs[i].msg.src)
            => cs[i].msg.seq < aw[k].seq

All(cs, ms, aw, lo, ti, re, n) ==
    /\ Shape(cs, ms, re) /\ Queues(aw, lo, ti, n) /\ Alone(ms, aw, lo, ti)
    /\ Nested(cs, aw, n) /\ Ahead(cs, aw)

IInv ==
    /\ All(calls, msgs, anywhere, local, timed, reenter, sends)
    /\ poll \in {"no", "sched", "recv", "anywhere", "local"} /\ live \subseteq Services
    /\ sends \in 0..MaxSends /\ special \in 0..MaxSpecial

-----------------------------------------------------------------------------
(* Stacks, queues and sets of ids.                                         *)

\* A sequence with an element put in front of it.
LEMMA Pushed ==
    ASSUME NEW S, NEW f \in S, NEW q \in Seq(S)
    PROVE  /\ <<f>> \o q \in Seq(S) /\ Len(<<f>> \o q) = Len(q) + 1
           /\ (<<f>> \o q)[1] = f
           /\ \A i \in 1..Len(q) : (<<f>> \o q)[i + 1] = q[i]
           /\ \A i \in 1..Len(<<f>> \o q) : \/ i = 1
                                            \/ /\ i - 1 \in 1..Len(q)
                                               /\ (<<f>> \o q)[i] = q[i - 1]
  OBVIOUS

\* A sequence without its first element.
LEMMA Popped ==
    ASSUME NEW S, NEW q \in Seq(S), q # << >>
    PROVE  /\ Tail(q) \in Seq(S) /\ Len(Tail(q)) = Len(q) - 1 /\ Len(q) \in Nat \ {0}
           /\ Head(q) = q[1] /\ Head(q) \in S /\ 1 \in 1..Len(q)
           /\ \A i \in 1..Len(Tail(q)) : i + 1 \in 1..Len(q) /\ Tail(q)[i] = q[i + 1]
           /\ \A i \in 1..Len(q) : i = 1 \/ (i - 1 \in 1..Len(Tail(q))
                                             /\ Tail(q)[i - 1] = q[i])
  OBVIOUS

\* A sequence with an element put at its end.
LEMMA Appended ==
    ASSUME NEW S, NEW f \in S, NEW q \in Seq(S)
    PROVE  /\ Append(q, f) \in Seq(S) /\ Len(Append(q, f)) = Len(q) + 1
           /\ Append(q, f)[Len(q) + 1] = f
           /\ \A i \in 1..Len(q) : i \in 1..Len(Append(q, f)) /\ Append(q, f)[i] = q[i]
           /\ \A i \in 1..Len(Append(q, f)) : i \in 1..Len(q) \/ i = Len(q) + 1
  OBVIOUS

\* The first element is replaced.
LEMMA Replaced ==
    ASSUME NEW S, NEW f \in S, NEW q \in Seq(S), q # << >>
    PROVE  /\ [q EXCEPT ![1] = f] \in Seq(S) /\ Len([q EXCEPT ![1] = f]) = Len(q)
           /\ [q EXCEPT ![1] = f][1] = f /\ 1 \in 1..Len(q)
           /\ \A i \in 1..Len(q) : i # 1 => [q EXCEPT ![1] = f][i] = q[i]
  OBVIOUS

\* The elements of a sequence.
LEMMA Elements ==
    ASSUME NEW S, NEW q \in Seq(S)
    PROVE  Range(q) = {q[i] : i \in 1..Len(q)} /\ Range(q) \subseteq S
  BY DEF Range

\* The elements of a sequence after each of these changes.
LEMMA ElementsAfter ==
    ASSUME NEW S, NEW q \in Seq(S)
    PROVE  /\ \A f \in S : /\ Range(<<f>> \o q) = {f} \cup Range(q)
                           /\ Range(Append(q, f)) = {f} \cup Range(q)
           /\ q # << >> => Range(q) = {Head(q)} \cup Range(Tail(q))
  <1>1. ASSUME NEW f \in S
        PROVE  Range(<<f>> \o q) = {f} \cup Range(q)
    <2> DEFINE p == <<f>> \o q
    <2>1. /\ p \in Seq(S) /\ Len(p) = Len(q) + 1 /\ p[1] = f
          /\ \A i \in 1..Len(q) : p[i + 1] = q[i]
          /\ \A i \in 1..Len(p) : i = 1 \/ (i - 1 \in 1..Len(q) /\ p[i] = q[i - 1])
      BY Pushed
    <2> HIDE DEF p
    <2>2. Range(p) = {p[i] : i \in 1..Len(p)} /\ Range(q) = {q[i] : i \in 1..Len(q)}
      BY <2>1, Elements
    <2>3. Range(p) \subseteq {f} \cup Range(q)
      BY <2>1, <2>2
    <2>4. 1 \in 1..Len(p) /\ \A i \in 1..Len(q) : i + 1 \in 1..Len(p)
      BY <2>1
    <2>5. {f} \cup Range(q) \subseteq Range(p)
      BY <2>1, <2>2, <2>4
    <2> QED  BY <2>3, <2>5 DEF p
  <1>2. ASSUME NEW f \in S
        PROVE  Range(Append(q, f)) = {f} \cup Range(q)
    <2> DEFINE p == Append(q, f)
    <2>1. /\ p \in Seq(S) /\ Len(p) = Len(q) + 1 /\ p[Len(q) + 1] = f
          /\ \A i \in 1..Len(q) : i \in 1..Len(p) /\ p[i] = q[i]
          /\ \A i \in 1..Len(p) : i \in 1..Len(q) \/ i = Len(q) + 1
      BY Appended
    <2> HIDE DEF p
    <2>2. Range(p) = {p[i] : i \in 1..Len(p)} /\ Range(q) = {q[i] : i \in 1..Len(q)}
      BY <2>1, Elements
    <2>3. Len(q) + 1 \in 1..Len(p)
      BY <2>1
    <2> QED  BY <2>1, <2>2, <2>3 DEF p
  <1>3. ASSUME q # << >>
        PROVE  Range(q) = {Head(q)} \cup Range(Tail(q))
    <2> DEFINE p == Tail(q)
    <2>1. /\ p \in Seq(S) /\ Head(q) = q[1] /\ 1 \in 1..Len(q)
          /\ \A i \in 1..Len(p) : i + 1 \in 1..Len(q) /\ p[i] = q[i + 1]
          /\ \A i \in 1..Len(q) : i = 1 \/ (i - 1 \in 1..Len(p) /\ p[i - 1] = q[i])
      BY <1>3, Popped
    <2> HIDE DEF p
    <2>2. Range(p) = {p[i] : i \in 1..Len(p)} /\ Range(q) = {q[i] : i \in 1..Len(q)}
      BY <2>1, Elements
    <2>3. Range(q) \subseteq {Head(q)} \cup Range(p)
      BY <2>1, <2>2
    <2>4. {Head(q)} \cup Range(p) \subseteq Range(q)
      BY <2>1, <2>2
    <2> QED  BY <2>3, <2>4 DEF p
  <1> QED  BY <1>1, <1>2, <1>3

\* The ids of some messages.
IdSet(M) == {m.id : m \in M}

\* There are no more ids than messages.
LEMMA SequenceIds ==
    ASSUME NEW q \in Seq(Message)
    PROVE  /\ IsFiniteSet(IdSet(Range(q)))
           /\ Cardinality(IdSet(Range(q))) \in Nat
           /\ Cardinality(IdSet(Range(q))) <= Len(q)
  <1> DEFINE T == IdSet(Range(q))
             f == [i \in 1..Len(q) |-> q[i].id]
  <1>1. Len(q) \in Nat
    OBVIOUS
  <1>2. Range(q) = {q[i] : i \in 1..Len(q)}
    BY Elements
  <1>3. f \in Surjection(1..Len(q), T)
    <2>1. f \in [1..Len(q) -> T]
      BY <1>2 DEF IdSet
    <2>2. \A t \in T : \E i \in 1..Len(q) : f[i] = t
      BY <1>2 DEF IdSet
    <2> QED  BY <2>1, <2>2 DEF Surjection
  <1>4. IsFiniteSet(1..Len(q)) /\ Cardinality(1..Len(q)) = Len(q)
    <2>1. /\ IsFiniteSet(1..Len(q))
          /\ Cardinality(1..Len(q)) = IF 1 > Len(q) THEN 0 ELSE Len(q) - 1 + 1
      BY <1>1, FS_Interval
    <2> QED  BY <1>1, <2>1
  <1> HIDE DEF f, T
  <1>5. IsFiniteSet(T) /\ Cardinality(T) <= Len(q)
    BY <1>3, <1>4, FS_Surjection
  <1>6. Cardinality(T) \in Nat
    BY <1>5, FS_CardinalityType
  <1> QED  BY <1>5, <1>6 DEF T

\* Timed messages have no more ids than there are messages.
LEMMA TimedIds ==
    ASSUME NEW ti, IsFiniteSet(ti)
    PROVE  /\ IsFiniteSet(IdSet(ti))
           /\ Cardinality(IdSet(ti)) \in Nat /\ Cardinality(ti) \in Nat
           /\ Cardinality(IdSet(ti)) <= Cardinality(ti)
  <1> DEFINE T == IdSet(ti)
             f == [m \in ti |-> m.id]
  <1>1. f \in Surjection(ti, T)
    BY DEF IdSet, Surjection
  <1> HIDE DEF f, T
  <1>2. IsFiniteSet(T) /\ Cardinality(T) <= Cardinality(ti)
    BY <1>1, FS_Surjection
  <1> QED  BY <1>2, FS_CardinalityType DEF T

\* The union of two sets has no more elements than both together.
LEMMA UnionSize ==
    ASSUME NEW S, NEW T, IsFiniteSet(S), IsFiniteSet(T)
    PROVE  /\ IsFiniteSet(S \cup T) /\ Cardinality(S \cup T) \in Nat
           /\ Cardinality(S \cup T) <= Cardinality(S) + Cardinality(T)
  <1>1. /\ IsFiniteSet(S \cup T)
        /\ Cardinality(S \cup T) =
               Cardinality(S) + Cardinality(T) - Cardinality(S \cap T)
    BY FS_Union
  <1>2. IsFiniteSet(S \cap T)
    BY FS_Subset
  <1>3. /\ Cardinality(S) \in Nat /\ Cardinality(T) \in Nat
        /\ Cardinality(S \cap T) \in Nat /\ Cardinality(S \cup T) \in Nat
    BY <1>1, <1>2, FS_CardinalityType
  <1> QED  BY <1>1, <1>3

\* The ids in use, by the place where the message is.
LEMMA UsedUnion ==
    ASSUME NEW ms, NEW aw, NEW lo, NEW ti
    PROVE  Used(ms, aw, lo, ti) = (IdSet(Range(ms)) \cup IdSet(Range(aw)))
                                    \cup (IdSet(Range(lo)) \cup IdSet(ti))
  BY DEF Used, IdSet

\* There are no more ids in use than messages.
LEMMA AtMost ==
    ASSUME NEW ms \in Seq(Message), NEW aw \in Seq(Message), NEW lo \in Seq(Message),
           NEW ti, IsFiniteSet(ti)
    PROVE  /\ IsFiniteSet(Used(ms, aw, lo, ti))
           /\ Cardinality(Used(ms, aw, lo, ti)) \in Nat
           /\ Cardinality(Used(ms, aw, lo, ti)) <=
                 Len(ms) + Len(aw) + Len(lo) + Cardinality(ti)
           /\ Len(ms) + Len(aw) + Len(lo) + Cardinality(ti) \in Nat
  <1> DEFINE A == IdSet(Range(ms))
             B == IdSet(Range(aw))
             C == IdSet(Range(lo))
             D == IdSet(ti)
  <1>1. /\ IsFiniteSet(A) /\ Cardinality(A) \in Nat /\ Cardinality(A) <= Len(ms)
        /\ IsFiniteSet(B) /\ Cardinality(B) \in Nat /\ Cardinality(B) <= Len(aw)
        /\ IsFiniteSet(C) /\ Cardinality(C) \in Nat /\ Cardinality(C) <= Len(lo)
    BY SequenceIds
  <1>2. /\ IsFiniteSet(D) /\ Cardinality(D) \in Nat /\ Cardinality(D) <= Cardinality(ti)
        /\ Cardinality(ti) \in Nat
    BY TimedIds
  <1>3. Used(ms, aw, lo, ti) = (A \cup B) \cup (C \cup D)
    BY UsedUnion
  <1>4. Len(ms) \in Nat /\ Len(aw) \in Nat /\ Len(lo) \in Nat
    OBVIOUS
  <1> HIDE DEF A, B, C, D
  <1>5. /\ IsFiniteSet(A \cup B) /\ Cardinality(A \cup B) \in Nat
        /\ Cardinality(A \cup B) <= Cardinality(A) + Cardinality(B)
    BY <1>1, UnionSize
  <1>6. /\ IsFiniteSet(C \cup D) /\ Cardinality(C \cup D) \in Nat
        /\ Cardinality(C \cup D) <= Cardinality(C) + Cardinality(D)
    BY <1>1, <1>2, UnionSize
  <1>7. /\ IsFiniteSet((A \cup B) \cup (C \cup D))
        /\ Cardinality((A \cup B) \cup (C \cup D)) \in Nat
        /\ Cardinality((A \cup B) \cup (C \cup D)) <=
              Cardinality(A \cup B) + Cardinality(C \cup D)
    BY <1>5, <1>6, UnionSize
  <1> QED  BY <1>1, <1>2, <1>3, <1>4, <1>5, <1>6, <1>7

-----------------------------------------------------------------------------
(* Messages come, go and move.                                             *)

Total(ms, aw, lo, ti) == Len(ms) + Len(aw) + Len(lo) + Cardinality(ti)

\* One message more, with an id that was not in use.
LEMMA AloneAdded ==
    ASSUME NEW ms \in Seq(Message), NEW aw \in Seq(Message), NEW lo \in Seq(Message),
           NEW ti, IsFiniteSet(ti), Alone(ms, aw, lo, ti),
           NEW ms2, NEW aw2, NEW lo2, NEW ti2, NEW x,
           x \notin Used(ms, aw, lo, ti),
           Used(ms2, aw2, lo2, ti2) = Used(ms, aw, lo, ti) \cup {x},
           Total(ms2, aw2, lo2, ti2) = Total(ms, aw, lo, ti) + 1
    PROVE  Alone(ms2, aw2, lo2, ti2)
  <1> DEFINE U == Used(ms, aw, lo, ti)
  <1>1. IsFiniteSet(U)
    BY AtMost
  <1> HIDE DEF U
  <1>2. IsFiniteSet(U \cup {x})
        /\ Cardinality(U \cup {x}) = IF x \in U THEN Cardinality(U) ELSE Cardinality(U) + 1
    BY <1>1, FS_AddElement
  <1> QED  BY <1>2 DEF Alone, Total, U

\* One message less.  Its id is no longer in use, for there would be too few.
LEMMA AloneRemoved ==
    ASSUME NEW ms \in Seq(Message), NEW aw \in Seq(Message), NEW lo \in Seq(Message),
           NEW ti, IsFiniteSet(ti), Alone(ms, aw, lo, ti),
           NEW ms2 \in Seq(Message), NEW aw2 \in Seq(Message), NEW lo2 \in Seq(Message),
           NEW ti2, IsFiniteSet(ti2), NEW x,
           Used(ms, aw, lo, ti) = Used(ms2, aw2, lo2, ti2) \cup {x},
           Total(ms, aw, lo, ti) = Total(ms2, aw2, lo2, ti2) + 1
    PROVE  Alone(ms2, aw2, lo2, ti2) /\ x \notin Used(ms2, aw2, lo2, ti2)
  <1> DEFINE U == Used(ms, aw, lo, ti)
             V == Used(ms2, aw2, lo2, ti2)
             t == Total(ms2, aw2, lo2, ti2)
  <1>1. IsFiniteSet(V) /\ Cardinality(V) \in Nat /\ Cardinality(V) <= t /\ t \in Nat
    BY AtMost DEF Total
  <1>2. Cardinality(U) = t + 1
    BY DEF Alone, Total
  <1> HIDE DEF U, V, t
  <1>3. Cardinality(V \cup {x}) = IF x \in V THEN Cardinality(V) ELSE Cardinality(V) + 1
    BY <1>1, FS_AddElement
  <1>4. U = V \cup {x}
    BY DEF U, V
  <1>5. Cardinality(V) = t /\ x \notin V
    BY <1>1, <1>2, <1>3, <1>4
  <1> QED  BY <1>1, <1>5 DEF Alone, Total, V, t

\* There is always an unused id among the first ones.
LEMMA NewIdFacts ==
    ASSUME IInv
    PROVE  NewId \in Nat /\ NewId \notin InUse
  <1>1. InUse = Used(msgs, anywhere, local, timed)
    BY DEF InUse, Used
  <1>2. IsFiniteSet(InUse)
    BY <1>1 DEF IInv, All, Alone
  <1>3. Cardinality(InUse) \in Nat
    BY <1>2, FS_CardinalityType
  <1> DEFINE n == Cardinality(InUse)
  <1>4. IsFiniteSet(1..(n + 1)) /\ Cardinality(1..(n + 1)) = n + 1
    <2>1. /\ IsFiniteSet(1..(n + 1))
          /\ Cardinality(1..(n + 1)) = IF 1 > n + 1 THEN 0 ELSE n + 1 - 1 + 1
      <3>1. PICK a \in Int, b \in Int : a = 1 /\ b = n + 1
        BY <1>3
      <3>2. IsFiniteSet(a..b) /\ Cardinality(a..b) = IF a > b THEN 0 ELSE b - a + 1
        BY ONLY FS_Interval
      <3>n. n \in Nat
        BY <1>3
      <3> HIDE DEF n
      <3>3. a..b = 1..(n + 1) /\ (a > b <=> 1 > n + 1) /\ b - a + 1 = n + 1 - 1 + 1
        BY <3>1, <3>n
      <3> QED  BY <3>2, <3>3
    <2> QED  BY <1>3, <2>1
  <1>5. ~(1..(n + 1) \subseteq InUse)
    <2> SUFFICES ASSUME 1..(n + 1) \subseteq InUse  PROVE FALSE
      OBVIOUS
    <2>1. 1..(n + 1) \in SUBSET InUse
      OBVIOUS
    <2>2. Cardinality(1..(n + 1)) <= Cardinality(InUse)
      <3> HIDE DEF n
      <3> QED  BY <2>1, <1>2, FS_Subset
    <2> QED  BY <2>2, <1>3, <1>4
  <1>6. \E i \in 1..(n + 1) : i \notin InUse
    BY <1>5
  <1>7. NewId \in 1..(n + 1) /\ NewId \notin InUse
    BY <1>6 DEF NewId
  <1> QED  BY <1>3, <1>7

-----------------------------------------------------------------------------
(* What is put on the stack, taken from it and changed at its top.         *)

\* A call that begins has the type of a call.
LEMMA DeliveryFrame ==
    ASSUME NEW m \in Message, NEW g \in BOOLEAN
    PROVE  /\ Delivery(m, g) \in Frame /\ Delivery(m, g).msg = m
           /\ Delivery(m, g).at = "start" /\ Delivery(m, g).guarded = g
           /\ m.ttl <= O2_MAX_TAP_FORWARDING
  <1>1. m \in Held
    BY MsgSendAssumption DEF Message, Held
  <1>2. m.ttl <= O2_MAX_TAP_FORWARDING
    BY MsgSendAssumption DEF Message
  <1>3. "start" \in Positions
    BY DEF Positions
  <1> QED  BY <1>1, <1>2, <1>3 DEF Delivery, Frame

\* A delivery begins (push_message and, at the top level, o2_do_not_reenter++).
LEMMA PushShape ==
    ASSUME NEW cs, NEW ms, NEW re, Shape(cs, ms, re),
           NEW m \in Message, \A i \in 1..Len(ms) : ms[i].id # m.id,
           NEW g \in BOOLEAN, g => re = 0
    PROVE  Shape(<<Delivery(m, g)>> \o cs, <<m>> \o ms, IF g THEN re + 1 ELSE re)
  <1> DEFINE f == Delivery(m, g)
             c2 == <<f>> \o cs
             m2 == <<m>> \o ms
  <1>1. /\ f \in Frame /\ f.msg = m /\ f.at = "start" /\ f.guarded = g
        /\ m.ttl <= O2_MAX_TAP_FORWARDING
    BY DeliveryFrame
  <1> HIDE DEF f
  <1>2. /\ cs \in Seq(Frame) /\ ms \in Seq(Message) /\ Len(ms) = Len(cs)
        /\ Len(cs) \in Nat
    BY DEF Shape
  <1>s. /\ \A i \in 1..Len(cs) :
              /\ ms[i].id = cs[i].msg.id
              /\ cs[i].at # "done" => cs[i].msg.ttl <= O2_MAX_TAP_FORWARDING
        /\ \A i, j \in 1..Len(ms) : i # j => ms[i].id # ms[j].id
    BY DEF Shape
  <1>3. /\ c2 \in Seq(Frame) /\ Len(c2) = Len(cs) + 1 /\ c2[1] = f
        /\ \A i \in 1..Len(c2) : i = 1 \/ (i - 1 \in 1..Len(cs) /\ c2[i] = cs[i - 1])
    BY <1>1, <1>2, Pushed
  <1>4. /\ m2 \in Seq(Message) /\ Len(m2) = Len(ms) + 1 /\ m2[1] = m
        /\ \A i \in 1..Len(m2) : i = 1 \/ (i - 1 \in 1..Len(ms) /\ m2[i] = ms[i - 1])
    BY <1>2, Pushed
  <1> HIDE DEF c2, m2
  <1>5. \A i \in 1..Len(c2) :
           /\ m2[i].id = c2[i].msg.id
           /\ c2[i].at # "done" => c2[i].msg.ttl <= O2_MAX_TAP_FORWARDING
    <2> TAKE i \in 1..Len(c2)
    <2>1. CASE i = 1
      BY <2>1, <1>1, <1>3, <1>4
    <2>2. CASE i # 1
      <3>1. i - 1 \in 1..Len(cs) /\ c2[i] = cs[i - 1] /\ m2[i] = ms[i - 1]
        BY <2>2, <1>2, <1>3, <1>4
      <3> QED  BY <3>1, <1>s
    <2> QED  BY <2>1, <2>2
  <1>6. \A i, j \in 1..Len(m2) : i # j => m2[i].id # m2[j].id
    <2> SUFFICES ASSUME NEW i \in 1..Len(m2), NEW j \in 1..Len(m2), i # j
                 PROVE  m2[i].id # m2[j].id
      OBVIOUS
    <2>1. CASE i = 1
      BY <2>1, <1>4
    <2>2. CASE j = 1
      BY <2>2, <1>4
    <2>3. CASE i # 1 /\ j # 1
      <3>1. /\ i - 1 \in 1..Len(ms) /\ j - 1 \in 1..Len(ms) /\ i - 1 # j - 1
            /\ m2[i] = ms[i - 1] /\ m2[j] = ms[j - 1]
        BY <2>3, <1>4
      <3> QED  BY <3>1, <1>s
    <2> QED  BY <2>1, <2>2, <2>3
  <1>7. CASE g
    <2>1. re = 0 /\ \A i \in 1..Len(cs) : ~cs[i].guarded
      BY <1>7 DEF Shape
    <2>2. 1 \in 1..Len(c2)
      BY <1>2, <1>3
    <2>3. \A i \in 1..Len(c2) : c2[i].guarded <=> i = 1
      BY <1>1, <1>3, <1>7, <2>1
    <2>4. Shape(c2, m2, 1)
      BY <1>2, <1>3, <1>4, <1>5, <1>6, <2>2, <2>3 DEF Shape
    <2>5. (IF g THEN re + 1 ELSE re) = 1
      BY <1>7, <2>1
    <2> QED  BY <2>4, <2>5 DEF c2, m2, f
  <1>8. CASE ~g
    <2>1. \/ re = 0 /\ \A i \in 1..Len(c2) : ~c2[i].guarded
          \/ re = 1 /\ \E k \in 1..Len(c2) : \A i \in 1..Len(c2) : c2[i].guarded <=> i = k
      <3>1. CASE re = 0 /\ \A i \in 1..Len(cs) : ~cs[i].guarded
        BY <3>1, <1>1, <1>3, <1>8
      <3>2. CASE re = 1 /\ \E k \in 1..Len(cs) : \A i \in 1..Len(cs) : cs[i].guarded <=> i = k
        <4>1. PICK k \in 1..Len(cs) : \A i \in 1..Len(cs) : cs[i].guarded <=> i = k
          BY <3>2
        <4>2. k + 1 \in 1..Len(c2)
          BY <1>2, <1>3
        <4>3. \A i \in 1..Len(c2) : c2[i].guarded <=> i = k + 1
          <5> TAKE i \in 1..Len(c2)
          <5>1. CASE i = 1
            BY <5>1, <1>1, <1>3, <1>8
          <5>2. CASE i # 1
            BY <5>2, <1>3, <4>1
          <5> QED  BY <5>1, <5>2
        <4> QED  BY <3>2, <4>2, <4>3
      <3> QED  BY <3>1, <3>2 DEF Shape
    <2> QED  BY <1>2, <1>3, <1>4, <1>5, <1>6, <1>8, <2>1 DEF Shape, c2, m2, f
  <1> QED  BY <1>7, <1>8

\* A delivery ends (o2_do_not_reenter-- if it was guarded).
LEMMA PopShape ==
    ASSUME NEW cs, NEW ms, NEW re, Shape(cs, ms, re), cs # << >>
    PROVE  Shape(Tail(cs), Tail(ms), IF Head(cs).guarded THEN re - 1 ELSE re)
  <1> DEFINE c2 == Tail(cs)
             m2 == Tail(ms)
  <1>1. /\ cs \in Seq(Frame) /\ ms \in Seq(Message) /\ Len(ms) = Len(cs) /\ ms # << >>
    BY DEF Shape
  <1>2. /\ c2 \in Seq(Frame) /\ Len(c2) = Len(cs) - 1 /\ Len(cs) \in Nat \ {0}
        /\ Head(cs) = cs[1] /\ 1 \in 1..Len(cs)
        /\ \A i \in 1..Len(c2) : i + 1 \in 1..Len(cs) /\ c2[i] = cs[i + 1]
        /\ \A i \in 1..Len(cs) : i = 1 \/ (i - 1 \in 1..Len(c2) /\ c2[i - 1] = cs[i])
    BY <1>1, Popped
  <1>3. /\ m2 \in Seq(Message) /\ Len(m2) = Len(ms) - 1
        /\ \A i \in 1..Len(m2) : i + 1 \in 1..Len(ms) /\ m2[i] = ms[i + 1]
    BY <1>1, Popped
  <1> HIDE DEF c2, m2
  <1>4. \A i \in 1..Len(c2) :
           /\ m2[i].id = c2[i].msg.id
           /\ c2[i].at # "done" => c2[i].msg.ttl <= O2_MAX_TAP_FORWARDING
    <2> TAKE i \in 1..Len(c2)
    <2>1. /\ i + 1 \in 1..Len(cs) /\ c2[i] = cs[i + 1]
          /\ m2[i] = ms[i + 1]
      BY <1>1, <1>2, <1>3
    <2> QED  BY <2>1 DEF Shape
  <1>5. \A i, j \in 1..Len(m2) : i # j => m2[i].id # m2[j].id
    <2>1. \A i, j \in 1..Len(ms) : i # j => ms[i].id # ms[j].id
      BY DEF Shape
    <2> TAKE i \in 1..Len(m2), j \in 1..Len(m2)
    <2>2. /\ i + 1 \in 1..Len(ms) /\ j + 1 \in 1..Len(ms) /\ (i # j => i + 1 # j + 1)
          /\ m2[i] = ms[i + 1] /\ m2[j] = ms[j + 1]
      BY <1>3
    <2> QED  BY <2>1, <2>2
  <1>6. CASE cs[1].guarded
    <2>1. re = 1 /\ \A i \in 1..Len(cs) : cs[i].guarded <=> i = 1
      BY <1>2, <1>6 DEF Shape
    <2>2. \A i \in 1..Len(c2) : ~c2[i].guarded
      BY <1>2, <2>1
    <2> QED  BY <1>1, <1>2, <1>3, <1>4, <1>5, <1>6, <2>1, <2>2 DEF Shape, c2, m2
  <1>7. CASE ~cs[1].guarded
    <2>1. \/ re = 0 /\ \A i \in 1..Len(c2) : ~c2[i].guarded
          \/ re = 1 /\ \E k \in 1..Len(c2) : \A i \in 1..Len(c2) : c2[i].guarded <=> i = k
      <3>1. CASE re = 0 /\ \A i \in 1..Len(cs) : ~cs[i].guarded
        BY <3>1, <1>2
      <3>2. CASE re = 1 /\ \E k \in 1..Len(cs) : \A i \in 1..Len(cs) : cs[i].guarded <=> i = k
        <4>1. PICK k \in 1..Len(cs) : \A i \in 1..Len(cs) : cs[i].guarded <=> i = k
          BY <3>2
        <4>2. k - 1 \in 1..Len(c2)
          BY <4>1, <1>2, <1>7
        <4>3. \A i \in 1..Len(c2) : c2[i].guarded <=> i = k - 1
          BY <4>1, <1>2
        <4> QED  BY <3>2, <4>2, <4>3
      <3> QED  BY <3>1, <3>2 DEF Shape
    <2> QED  BY <1>1, <1>2, <1>3, <1>4, <1>5, <1>7, <2>1 DEF Shape, c2, m2
  <1> QED  BY <1>6, <1>7

\* The current call goes on.
LEMMA TopShape ==
    ASSUME NEW cs, NEW ms, NEW re, Shape(cs, ms, re), cs # << >>,
           NEW f \in Frame, f.msg.id = cs[1].msg.id, f.guarded = cs[1].guarded,
           f.at # "done" => f.msg.ttl <= O2_MAX_TAP_FORWARDING
    PROVE  Shape([cs EXCEPT ![1] = f], ms, re)
  <1> DEFINE c2 == [cs EXCEPT ![1] = f]
  <1>1. /\ cs \in Seq(Frame) /\ ms \in Seq(Message) /\ Len(ms) = Len(cs)
    BY DEF Shape
  <1>2. /\ c2 \in Seq(Frame) /\ Len(c2) = Len(cs) /\ c2[1] = f
        /\ \A i \in 1..Len(cs) : i # 1 => c2[i] = cs[i]
    BY <1>1, Replaced
  <1> HIDE DEF c2
  <1>3. \A i \in 1..Len(c2) :
           /\ ms[i].id = c2[i].msg.id
           /\ c2[i].at # "done" => c2[i].msg.ttl <= O2_MAX_TAP_FORWARDING
    BY <1>2 DEF Shape
  <1>4. \A i \in 1..Len(c2) : c2[i].guarded <=> cs[i].guarded
    BY <1>2
  <1>5. \/ re = 0 /\ \A i \in 1..Len(c2) : ~c2[i].guarded
        \/ re = 1 /\ \E k \in 1..Len(c2) : \A i \in 1..Len(c2) : c2[i].guarded <=> i = k
    <2>1. \/ re = 0 /\ \A i \in 1..Len(cs) : ~cs[i].guarded
          \/ re = 1 /\ \E k \in 1..Len(cs) : \A i \in 1..Len(cs) : cs[i].guarded <=> i = k
      BY DEF Shape
    <2>2. CASE re = 0 /\ \A i \in 1..Len(cs) : ~cs[i].guarded
      BY <2>2, <1>2, <1>4
    <2>3. CASE re = 1 /\ \E k \in 1..Len(cs) : \A i \in 1..Len(cs) : cs[i].guarded <=> i = k
      <3>1. PICK k \in 1..Len(cs) : \A i \in 1..Len(cs) : cs[i].guarded <=> i = k
        BY <2>3
      <3>2. k \in 1..Len(c2)
        BY <1>2
      <3>3. \A i \in 1..Len(c2) : c2[i].guarded <=> i = k
        <4> TAKE i \in 1..Len(c2)
        <4>1. i \in 1..Len(cs)
          BY <1>2
        <4> QED  BY <4>1, <3>1, <1>4
      <3> QED  BY <2>3, <3>2, <3>3
    <2> QED  BY <2>1, <2>2, <2>3
  <1> QED  BY <1>1, <1>2, <1>3, <1>5 DEF Shape, c2

-----------------------------------------------------------------------------
(* The order of handlers and messages.                                     *)

\* The numbers in the calls in progress.
LEMMA FrameTypes ==
    ASSUME NEW cs \in Seq(Frame)
    PROVE  \A i \in 1..Len(cs) : cs[i].since \in Nat /\ cs[i].msg.seq \in Int
  <1> TAKE i \in 1..Len(cs)
  <1>1. cs[i] \in Frame
    OBVIOUS
  <1>2. cs[i].since \in Nat /\ cs[i].msg \in Held
    BY <1>1 DEF Frame
  <1> QED  BY <1>2, MsgSendAssumption DEF Held

\* A delivery begins inside of the handlers in progress.
LEMMA PushNested ==
    ASSUME NEW cs \in Seq(Frame), NEW aw, NEW n \in Nat, NEW k \in Nat, n <= k,
           Nested(cs, aw, n), Ahead(cs, aw),
           NEW m \in Message, NEW g \in BOOLEAN, m.seq <= k,
           cs # << >> /\ cs[1].at = "handler" => n < k,
           m.kind = "now" => \A j \in 1..Len(aw) :
               aw[j].kind = "now" /\ aw[j].dest = m.dest /\ aw[j].src = m.src
                   => m.seq < aw[j].seq
    PROVE  /\ Nested(<<Delivery(m, g)>> \o cs, aw, k)
           /\ Ahead(<<Delivery(m, g)>> \o cs, aw)
  <1> DEFINE f == Delivery(m, g)
             c2 == <<f>> \o cs
  <1>1. f \in Frame /\ f.msg = m /\ f.at = "start" /\ f.since = 0
    BY DeliveryFrame DEF Delivery
  <1> HIDE DEF f
  <1>2. /\ Len(c2) = Len(cs) + 1 /\ c2[1] = f /\ Len(cs) \in Nat
        /\ \A i \in 1..Len(c2) : i = 1 \/ (i - 1 \in 1..Len(cs) /\ c2[i] = cs[i - 1])
        /\ \A i \in 1..Len(cs) : c2[i + 1] = cs[i]
    BY <1>1, Pushed
  <1> HIDE DEF c2
  <1>t. \A i \in 1..Len(cs) : cs[i].since \in Nat /\ cs[i].msg.seq \in Int
    BY FrameTypes
  <1>3. \A i \in 1..Len(c2) : c2[i].msg.seq <= k /\ c2[i].since <= k
    <2>1. \A i \in 1..Len(cs) : cs[i].msg.seq <= n /\ cs[i].since <= n
      BY DEF Nested
    <2>2. \A i \in 1..Len(cs) : cs[i].msg.seq <= k /\ cs[i].since <= k
      BY <2>1, <1>t
    <2> QED  BY <2>2, <1>1, <1>2
  <1>4. \A i \in 2..Len(c2) : c2[i].at = "handler" => c2[i].since < k
    <2> SUFFICES ASSUME NEW i \in 2..Len(c2), c2[i].at = "handler"
                 PROVE  c2[i].since < k
      OBVIOUS
    <2>1. i - 1 \in 1..Len(cs) /\ c2[i] = cs[i - 1]
      BY <1>2
    <2>2. CASE i - 1 = 1
      <3>1. n < k /\ cs[1].since <= n
        BY <2>1, <2>2 DEF Nested
      <3> QED  BY <2>1, <2>2, <3>1, <1>t
    <2>3. CASE i - 1 # 1
      <3>1. i - 1 \in 2..Len(cs)
        BY <2>1, <2>3
      <3>2. cs[i - 1].since < n
        BY <2>1, <3>1 DEF Nested
      <3> QED  BY <2>1, <3>2, <1>t
    <2> QED  BY <2>2, <2>3
  <1>5. \A i, j \in 1..Len(c2) :
          i < j /\ c2[i].at = "handler" /\ c2[j].at = "handler" => c2[j].since < c2[i].since
    <2> SUFFICES ASSUME NEW i \in 1..Len(c2), NEW j \in 1..Len(c2),
                        i < j, c2[i].at = "handler", c2[j].at = "handler"
                 PROVE  c2[j].since < c2[i].since
      OBVIOUS
    <2>1. /\ i - 1 \in 1..Len(cs) /\ c2[i] = cs[i - 1]
          /\ j - 1 \in 1..Len(cs) /\ c2[j] = cs[j - 1] /\ i - 1 < j - 1
      BY <1>1, <1>2
    <2> QED  BY <2>1 DEF Nested
  <1>6. ASSUME NEW i \in 1..Len(c2), c2[i].at = "handler", Free(c2, i),
               NEW x \in 1..Len(aw), aw[x].kind = "now"
        PROVE  aw[x].src # c2[i].since
    <2>1. i - 1 \in 1..Len(cs) /\ c2[i] = cs[i - 1]
      BY <1>1, <1>2, <1>6
    <2>2. Free(cs, i - 1)
      <3> SUFFICES ASSUME NEW j \in (i - 1)..Len(cs)  PROVE ~cs[j].guarded
        BY DEF Free
      <3>1. j \in 1..Len(cs) /\ j + 1 \in i..Len(c2)
        BY <2>1, <1>2
      <3>2. c2[j + 1] = cs[j] /\ ~c2[j + 1].guarded
        BY <3>1, <1>2, <1>6 DEF Free
      <3> QED  BY <3>2
    <2> QED  BY <2>1, <2>2, <1>6 DEF Nested
  <1>7. Nested(c2, aw, k)
    BY <1>3, <1>4, <1>5, <1>6 DEF Nested
  <1>8. Ahead(c2, aw)
    <2> SUFFICES ASSUME NEW i \in 1..Len(c2), NEW x \in 1..Len(aw),
                        c2[i].at \in {"start", "handler"}, c2[i].msg.kind = "now",
                        aw[x].kind = "now", aw[x].dest = c2[i].msg.dest,
                        aw[x].src = c2[i].msg.src
                 PROVE  c2[i].msg.seq < aw[x].seq
      BY DEF Ahead
    <2>1. CASE i = 1
      BY <2>1, <1>1, <1>2
    <2>2. CASE i # 1
      <3>1. i - 1 \in 1..Len(cs) /\ c2[i] = cs[i - 1]
        BY <2>2, <1>2
      <3> QED  BY <3>1 DEF Ahead
    <2> QED  BY <2>1, <2>2
  <1> QED  BY <1>7, <1>8 DEF c2, f

\* A delivery ends, and the calls around it are as they were.
LEMMA PopNested ==
    ASSUME NEW cs \in Seq(Frame), cs # << >>, NEW aw, NEW n \in Nat,
           Nested(cs, aw, n), Ahead(cs, aw)
    PROVE  Nested(Tail(cs), aw, n) /\ Ahead(Tail(cs), aw)
  <1> DEFINE c2 == Tail(cs)
  <1>1. /\ c2 \in Seq(Frame) /\ Len(c2) = Len(cs) - 1 /\ Len(cs) \in Nat \ {0}
        /\ \A i \in 1..Len(c2) : i + 1 \in 1..Len(cs) /\ c2[i] = cs[i + 1]
        /\ \A i \in 1..Len(cs) : i = 1 \/ (i - 1 \in 1..Len(c2) /\ c2[i - 1] = cs[i])
    BY Popped
  <1> HIDE DEF c2
  <1>2. \A i \in 1..Len(c2) : c2[i].msg.seq <= n /\ c2[i].since <= n
    BY <1>1 DEF Nested
  <1>3. \A i \in 2..Len(c2) : c2[i].at = "handler" => c2[i].since < n
    <2> TAKE i \in 2..Len(c2)
    <2>1. i + 1 \in 2..Len(cs) /\ c2[i] = cs[i + 1]
      BY <1>1
    <2> QED  BY <2>1 DEF Nested
  <1>4. \A i, j \in 1..Len(c2) :
          i < j /\ c2[i].at = "handler" /\ c2[j].at = "handler" => c2[j].since < c2[i].since
    <2> TAKE i \in 1..Len(c2), j \in 1..Len(c2)
    <2>1. /\ i + 1 \in 1..Len(cs) /\ c2[i] = cs[i + 1]
          /\ j + 1 \in 1..Len(cs) /\ c2[j] = cs[j + 1] /\ (i < j => i + 1 < j + 1)
      BY <1>1
    <2> QED  BY <2>1 DEF Nested
  <1>5. ASSUME NEW i \in 1..Len(c2), c2[i].at = "handler", Free(c2, i),
               NEW x \in 1..Len(aw), aw[x].kind = "now"
        PROVE  aw[x].src # c2[i].since
    <2>1. i + 1 \in 1..Len(cs) /\ c2[i] = cs[i + 1]
      BY <1>1
    <2>2. Free(cs, i + 1)
      <3> SUFFICES ASSUME NEW j \in (i + 1)..Len(cs)  PROVE ~cs[j].guarded
        BY DEF Free
      <3>1. j \in 1..Len(cs) /\ j # 1 /\ j - 1 \in i..Len(c2)
        BY <2>1, <1>1
      <3>2. c2[j - 1] = cs[j] /\ ~c2[j - 1].guarded
        BY <3>1, <1>1, <1>5 DEF Free
      <3> QED  BY <3>2
    <2> QED  BY <2>1, <2>2, <1>5 DEF Nested
  <1>6. Ahead(c2, aw)
    BY <1>1 DEF Ahead
  <1> QED  BY <1>2, <1>3, <1>4, <1>5, <1>6 DEF Nested, c2

\* The current call goes on; when its handler is called, it takes the number of
\* calls by user code so far.
LEMMA TopNested ==
    ASSUME NEW cs \in Seq(Frame), cs # << >>, NEW aw \in Seq(Message), NEW n \in Nat,
           Nested(cs, aw, n), Ahead(cs, aw),
           NEW f \in Frame, f.guarded = cs[1].guarded, f.since <= n,
           f.msg.seq = cs[1].msg.seq, f.msg.kind = cs[1].msg.kind,
           f.msg.dest = cs[1].msg.dest, f.msg.src = cs[1].msg.src,
           f.at = "handler" => \/ cs[1].at = "handler" /\ f.since = cs[1].since
                               \/ f.since = n,
           f.at \in {"start", "handler"} => cs[1].at \in {"start", "handler"},
           \A i \in 1..Len(aw) : aw[i].kind = "now" => aw[i].src < n
    PROVE  Nested([cs EXCEPT ![1] = f], aw, n) /\ Ahead([cs EXCEPT ![1] = f], aw)
  <1> DEFINE c2 == [cs EXCEPT ![1] = f]
  <1>1. /\ c2 \in Seq(Frame) /\ Len(c2) = Len(cs) /\ c2[1] = f /\ 1 \in 1..Len(cs)
        /\ \A i \in 1..Len(cs) : i # 1 => c2[i] = cs[i]
    BY Replaced
  <1> HIDE DEF c2
  <1>2. \A i \in 1..Len(c2) : c2[i].msg.seq <= n /\ c2[i].since <= n
    BY <1>1 DEF Nested
  <1>3. \A i \in 2..Len(c2) : c2[i].at = "handler" => c2[i].since < n
    <2> TAKE i \in 2..Len(c2)
    <2>1. i \in 1..Len(cs) /\ i # 1 /\ i \in 2..Len(cs)
      BY <1>1
    <2> QED  BY <2>1, <1>1 DEF Nested
  <1>4. \A i, j \in 1..Len(c2) :
          i < j /\ c2[i].at = "handler" /\ c2[j].at = "handler" => c2[j].since < c2[i].since
    <2> SUFFICES ASSUME NEW i \in 1..Len(c2), NEW j \in 1..Len(c2),
                        i < j, c2[i].at = "handler", c2[j].at = "handler"
                 PROVE  c2[j].since < c2[i].since
      OBVIOUS
    <2>1. j # 1 /\ c2[j] = cs[j] /\ j \in 2..Len(cs)
      BY <1>1
    <2>2. CASE i # 1
      BY <2>1, <2>2, <1>1 DEF Nested
    <2>3. CASE i = 1 /\ cs[1].at = "handler" /\ f.since = cs[1].since
      BY <2>1, <2>3, <1>1 DEF Nested
    <2>4. CASE i = 1 /\ f.since = n
      BY <2>1, <2>4, <1>1 DEF Nested
    <2> QED  BY <2>2, <2>3, <2>4, <1>1
  <1>5. ASSUME NEW i \in 1..Len(c2), c2[i].at = "handler", Free(c2, i),
               NEW x \in 1..Len(aw), aw[x].kind = "now"
        PROVE  aw[x].src # c2[i].since
    <2>1. Free(cs, i)
      <3>1. \A j \in 1..Len(cs) : c2[j].guarded <=> cs[j].guarded
        BY <1>1
      <3>2. i..Len(cs) \subseteq 1..Len(cs)
        BY <1>1
      <3> QED  BY <3>1, <3>2, <1>1, <1>5 DEF Free
    <2>2. CASE i # 1
      BY <2>1, <2>2, <1>1, <1>5 DEF Nested
    <2>3. CASE i = 1 /\ cs[1].at = "handler" /\ f.since = cs[1].since
      BY <2>1, <2>3, <1>1, <1>5 DEF Nested
    <2>4. CASE i = 1 /\ f.since = n
      <3>1. aw[x] \in Message
        OBVIOUS
      <3>2. aw[x].src \in Int
        BY <3>1 DEF Message
      <3> QED  BY <2>4, <3>2, <1>1, <1>5
    <2> QED  BY <2>2, <2>3, <2>4, <1>1, <1>5
  <1>6. Ahead(c2, aw)
    <2> SUFFICES ASSUME NEW i \in 1..Len(c2), NEW x \in 1..Len(aw),
                        c2[i].at \in {"start", "handler"}, c2[i].msg.kind = "now",
                        aw[x].kind = "now", aw[x].dest = c2[i].msg.dest,
                        aw[x].src = c2[i].msg.src
                 PROVE  c2[i].msg.seq < aw[x].seq
      BY DEF Ahead
    <2>1. CASE i = 1
      BY <2>1, <1>1 DEF Ahead
    <2>2. CASE i # 1
      BY <2>2, <1>1 DEF Ahead
    <2> QED  BY <2>1, <2>2
  <1> QED  BY <1>2, <1>3, <1>4, <1>5, <1>6 DEF Nested, c2

\* A message is postponed; one sent by a handler only while a call is guarded.
LEMMA AppendNested ==
    ASSUME NEW cs \in Seq(Frame), NEW aw \in Seq(Message), NEW n \in Nat, NEW k \in Nat,
           n <= k, Nested(cs, aw, n), Ahead(cs, aw), NEW m \in Message,
           m.kind = "now" => /\ cs # << >> /\ cs[1].at = "handler" /\ ~Free(cs, 1)
                             /\ m.src = cs[1].since /\ m.seq > n
    PROVE  Nested(cs, Append(aw, m), k) /\ Ahead(cs, Append(aw, m))
  <1> DEFINE a2 == Append(aw, m)
  <1>1. /\ a2[Len(aw) + 1] = m
        /\ \A i \in 1..Len(aw) : a2[i] = aw[i]
        /\ \A i \in 1..Len(a2) : i \in 1..Len(aw) \/ i = Len(aw) + 1
    BY Appended
  <1> HIDE DEF a2
  <1>t. \A i \in 1..Len(cs) : cs[i].since \in Nat /\ cs[i].msg.seq \in Int
    BY FrameTypes
  <1>m. m.seq \in Int
    BY DEF Message
  <1>2. \A i \in 1..Len(cs) : cs[i].msg.seq <= n /\ cs[i].since <= n
    BY DEF Nested
  <1>3. \A i \in 1..Len(cs) : cs[i].msg.seq <= k /\ cs[i].since <= k
    BY <1>2, <1>t
  <1>4. \A i \in 2..Len(cs) : cs[i].at = "handler" => cs[i].since < k
    <2> TAKE i \in 2..Len(cs)
    <2>1. i \in 1..Len(cs)
      OBVIOUS
    <2>2. cs[i].at = "handler" => cs[i].since < n
      BY DEF Nested
    <2> QED  BY <2>1, <2>2, <1>t
  <1>5. \A i, j \in 1..Len(cs) :
          i < j /\ cs[i].at = "handler" /\ cs[j].at = "handler" => cs[j].since < cs[i].since
    BY DEF Nested
  <1>6. ASSUME NEW i \in 1..Len(cs), cs[i].at = "handler", Free(cs, i),
               NEW x \in 1..Len(a2), a2[x].kind = "now"
        PROVE  a2[x].src # cs[i].since
    <2>1. CASE x \in 1..Len(aw)
      BY <2>1, <1>1, <1>6 DEF Nested
    <2>2. CASE x = Len(aw) + 1
      <3>1. a2[x] = m /\ m.kind = "now"
        BY <2>2, <1>1, <1>6
      <3>2. i # 1
        BY <3>1, <1>6
      <3>3. 1 \in 1..Len(cs) /\ 1 < i
        BY <3>2
      <3>4. cs[i].since < cs[1].since
        BY <3>1, <3>3, <1>5, <1>6
      <3> QED  BY <3>1, <3>3, <3>4, <1>t
    <2> QED  BY <2>1, <2>2, <1>1
  <1>7. Ahead(cs, a2)
    <2> SUFFICES ASSUME NEW i \in 1..Len(cs), NEW x \in 1..Len(a2),
                        cs[i].at \in {"start", "handler"}, cs[i].msg.kind = "now",
                        a2[x].kind = "now", a2[x].dest = cs[i].msg.dest,
                        a2[x].src = cs[i].msg.src
                 PROVE  cs[i].msg.seq < a2[x].seq
      BY DEF Ahead
    <2>1. CASE x \in 1..Len(aw)
      BY <2>1, <1>1 DEF Ahead
    <2>2. CASE x = Len(aw) + 1
      BY <2>2, <1>1, <1>2, <1>t, <1>m
    <2> QED  BY <2>1, <2>2, <1>1
  <1> QED  BY <1>3, <1>4, <1>5, <1>6, <1>7 DEF Nested, a2

\* The same with a queue that holds nothing else.
LEMMA FewerNested ==
    ASSUME NEW cs \in Seq(Frame), NEW aw, NEW n \in Nat, NEW k \in Nat, n <= k,
           Nested(cs, aw, n), Ahead(cs, aw), NEW a2,
           \A i \in 1..Len(a2) : \E j \in 1..Len(aw) : a2[i] = aw[j]
    PROVE  Nested(cs, a2, k) /\ Ahead(cs, a2)
  <1>t. \A i \in 1..Len(cs) : cs[i].since \in Nat /\ cs[i].msg.seq \in Int
    BY FrameTypes
  <1>2. \A i \in 1..Len(cs) : cs[i].msg.seq <= n /\ cs[i].since <= n
    BY DEF Nested
  <1>3. \A i \in 1..Len(cs) : cs[i].msg.seq <= k /\ cs[i].since <= k
    BY <1>2, <1>t
  <1>4. \A i \in 2..Len(cs) : cs[i].at = "handler" => cs[i].since < k
    <2> TAKE i \in 2..Len(cs)
    <2>1. i \in 1..Len(cs)
      OBVIOUS
    <2>2. cs[i].at = "handler" => cs[i].since < n
      BY DEF Nested
    <2> QED  BY <2>1, <2>2, <1>t
  <1>5. Nested(cs, a2, k)
    BY <1>3, <1>4 DEF Nested
  <1>6. Ahead(cs, a2)
    BY DEF Ahead
  <1> QED  BY <1>5, <1>6

-----------------------------------------------------------------------------
(* All of the invariant, for a message that is new and for one that moves. *)

\* The types that the invariant gives to its parts.
LEMMA AllTypes ==
    ASSUME NEW cs, NEW ms, NEW aw, NEW lo, NEW ti, NEW re, NEW n,
           All(cs, ms, aw, lo, ti, re, n)
    PROVE  /\ cs \in Seq(Frame) /\ ms \in Seq(Message) /\ aw \in Seq(Message)
           /\ lo \in Seq(Message) /\ ti \in SUBSET Message /\ IsFiniteSet(ti)
           /\ Len(ms) = Len(cs) /\ Len(ms) \in Nat /\ Len(aw) \in Nat /\ Len(lo) \in Nat
           /\ Cardinality(ti) \in Nat
  BY FS_CardinalityType DEF All, Shape, Queues

\* The numbers in the messages of a queue.
LEMMA MessageTypes ==
    ASSUME NEW q \in Seq(Message)
    PROVE  \A i \in 1..Len(q) : q[i] \in Message /\ q[i].seq \in Int /\ q[i].src \in Int
  <1> TAKE i \in 1..Len(q)
  <1>1. q[i] \in Message
    OBVIOUS
  <1>2. q[i].seq \in 1..MaxSends /\ q[i].src \in Int
    BY <1>1 DEF Message
  <1> QED  BY <1>1, <1>2, MsgSendAssumption

\* Where the ids are after a message came to one of the four places.
LEMMA UsedPushed ==
    ASSUME NEW ms \in Seq(Message), NEW aw, NEW lo, NEW ti, NEW m \in Message
    PROVE  Used(<<m>> \o ms, aw, lo, ti) = Used(ms, aw, lo, ti) \cup {m.id}
  <1>1. Range(<<m>> \o ms) = {m} \cup Range(ms)
    BY ElementsAfter
  <1> QED  BY <1>1 DEF Used

\* A message that waits in the queue for pending messages uses its id.
LEMMA UsedAnywhere ==
    ASSUME NEW ms, NEW aw \in Seq(Message), NEW lo, NEW ti, NEW m \in Message
    PROVE  Used(ms, Append(aw, m), lo, ti) = Used(ms, aw, lo, ti) \cup {m.id}
  <1>0. \A f \in Message : /\ Range(<<f>> \o aw) = {f} \cup Range(aw)
                            /\ Range(Append(aw, f)) = {f} \cup Range(aw)
    BY ElementsAfter, Zenon
  <1>1. Range(Append(aw, m)) = {m} \cup Range(aw)
    BY <1>0
  <1> QED  BY <1>1 DEF Used

\* A message that waits in the queue of the taps uses its id.
LEMMA UsedLocal ==
    ASSUME NEW ms, NEW aw, NEW lo \in Seq(Message), NEW ti, NEW m \in Message
    PROVE  Used(ms, aw, Append(lo, m), ti) = Used(ms, aw, lo, ti) \cup {m.id}
  <1>0. \A f \in Message : /\ Range(<<f>> \o lo) = {f} \cup Range(lo)
                            /\ Range(Append(lo, f)) = {f} \cup Range(lo)
    BY ElementsAfter, Zenon
  <1>1. Range(Append(lo, m)) = {m} \cup Range(lo)
    BY <1>0
  <1> QED  BY <1>1 DEF Used

\* A scheduled message uses its id.
LEMMA UsedTimed ==
    ASSUME NEW ms, NEW aw, NEW lo, NEW ti, NEW m
    PROVE  Used(ms, aw, lo, ti \cup {m}) = Used(ms, aw, lo, ti) \cup {m.id}
  BY DEF Used

\* More calls by user code.
LEMMA QueuesLater ==
    ASSUME NEW aw, NEW lo, NEW ti, NEW n \in Nat, NEW k \in Nat, n <= k,
           Queues(aw, lo, ti, n)
    PROVE  Queues(aw, lo, ti, k)
  <1>1. aw \in Seq(Message) /\ lo \in Seq(Message) /\ ti \in SUBSET Message
    BY DEF Queues
  <1>2. /\ \A i \in 1..Len(aw) : aw[i].seq \in Int
        /\ \A i \in 1..Len(lo) : lo[i].seq \in Int
    BY <1>1, MessageTypes
  <1>3. \A m \in ti : m.seq \in Int
    BY <1>1, MsgSendAssumption DEF Message
  <1>4. /\ \A i \in 1..Len(aw) : aw[i].seq <= k
        /\ \A i \in 1..Len(lo) : lo[i].seq <= k /\ lo[i].kind = "tap"
        /\ \A m \in ti : m.seq <= k /\ m.kind = "timed"
    BY <1>2, <1>3 DEF Queues
  <1> QED  BY <1>4 DEF Queues

\* The invariant does not depend on later calls by user code.
LEMMA AllLater ==
    ASSUME NEW cs, NEW ms, NEW aw, NEW lo, NEW ti, NEW re, NEW n \in Nat, NEW k \in Nat,
           n <= k, All(cs, ms, aw, lo, ti, re, n)
    PROVE  All(cs, ms, aw, lo, ti, re, k)
  <1>1. cs \in Seq(Frame)
    BY AllTypes
  <1>2. Nested(cs, aw, k) /\ Ahead(cs, aw)
    BY <1>1, FewerNested DEF All
  <1> QED  BY <1>2, QueuesLater DEF All

\* A new message is delivered at once.
LEMMA NewPushed ==
    ASSUME NEW cs, NEW ms, NEW aw, NEW lo, NEW ti, NEW re, NEW n \in Nat, NEW k \in Nat,
           n <= k, All(cs, ms, aw, lo, ti, re, n),
           NEW m \in Message, m.id \notin Used(ms, aw, lo, ti), m.seq <= k,
           NEW g \in BOOLEAN, g => re = 0,
           cs # << >> /\ cs[1].at = "handler" => n < k,
           m.kind = "now" => \A j \in 1..Len(aw) :
               aw[j].kind = "now" /\ aw[j].dest = m.dest /\ aw[j].src = m.src
                   => m.seq < aw[j].seq
    PROVE  All(<<Delivery(m, g)>> \o cs, <<m>> \o ms, aw, lo, ti,
               IF g THEN re + 1 ELSE re, k)
  <1>1. /\ cs \in Seq(Frame) /\ ms \in Seq(Message) /\ aw \in Seq(Message)
        /\ lo \in Seq(Message) /\ IsFiniteSet(ti)
        /\ Len(ms) \in Nat /\ Len(aw) \in Nat /\ Len(lo) \in Nat /\ Cardinality(ti) \in Nat
    BY AllTypes
  <1>2. \A i \in 1..Len(ms) : ms[i].id # m.id
    <2>1. Range(ms) = {ms[i] : i \in 1..Len(ms)}
      BY <1>1, Elements
    <2> QED  BY <2>1 DEF Used
  <1>3. Shape(<<Delivery(m, g)>> \o cs, <<m>> \o ms, IF g THEN re + 1 ELSE re)
    BY <1>2, PushShape DEF All
  <1>4. Queues(aw, lo, ti, k)
    BY QueuesLater DEF All
  <1>5. Alone(<<m>> \o ms, aw, lo, ti)
    <2>1. Used(<<m>> \o ms, aw, lo, ti) = Used(ms, aw, lo, ti) \cup {m.id}
      BY <1>1, UsedPushed
    <2>2. Len(<<m>> \o ms) = Len(ms) + 1
      BY <1>1, Pushed
    <2>3. Total(<<m>> \o ms, aw, lo, ti) = Total(ms, aw, lo, ti) + 1
      BY <1>1, <2>2 DEF Total
    <2> QED  BY <1>1, <2>1, <2>3, AloneAdded DEF All
  <1>6. /\ Nested(<<Delivery(m, g)>> \o cs, aw, k)
        /\ Ahead(<<Delivery(m, g)>> \o cs, aw)
    BY <1>1, PushNested DEF All
  <1> QED  BY <1>3, <1>4, <1>5, <1>6 DEF All

\* A new message is postponed on o2_pending_anywhere.
LEMMA NewAnywhere ==
    ASSUME NEW cs, NEW ms, NEW aw, NEW lo, NEW ti, NEW re, NEW n \in Nat, NEW k \in Nat,
           n <= k, All(cs, ms, aw, lo, ti, re, n),
           NEW m \in Message, m.id \notin Used(ms, aw, lo, ti), m.seq <= k,
           m.kind = "now" => /\ cs # << >> /\ cs[1].at = "handler" /\ ~Free(cs, 1)
                             /\ m.src = cs[1].since /\ m.seq > n
    PROVE  All(cs, ms, Append(aw, m), lo, ti, re, k)
  <1>1. /\ cs \in Seq(Frame) /\ ms \in Seq(Message) /\ aw \in Seq(Message)
        /\ lo \in Seq(Message) /\ IsFiniteSet(ti)
        /\ Len(ms) \in Nat /\ Len(aw) \in Nat /\ Len(lo) \in Nat /\ Cardinality(ti) \in Nat
    BY AllTypes
  <1> DEFINE a2 == Append(aw, m)
  <1>2. /\ a2 \in Seq(Message) /\ Len(a2) = Len(aw) + 1 /\ a2[Len(aw) + 1] = m
        /\ \A i \in 1..Len(aw) : i \in 1..Len(a2) /\ a2[i] = aw[i]
        /\ \A i \in 1..Len(a2) : i \in 1..Len(aw) \/ i = Len(aw) + 1
    BY <1>1, Appended
  <1>3. Alone(ms, a2, lo, ti)
    <2>1. Used(ms, a2, lo, ti) = Used(ms, aw, lo, ti) \cup {m.id}
      BY <1>1, UsedAnywhere
    <2>2. Total(ms, a2, lo, ti) = Total(ms, aw, lo, ti) + 1
      <3> HIDE DEF a2
      <3> QED  BY <1>1, <1>2 DEF Total
    <2> HIDE DEF a2
    <2> QED  BY <1>1, <2>1, <2>2, AloneAdded DEF All
  <1>4. Nested(cs, a2, k) /\ Ahead(cs, a2)
    BY <1>1, AppendNested DEF All
  <1> HIDE DEF a2
  <1>5. Queues(a2, lo, ti, k)
    <2>1. Queues(aw, lo, ti, k)
      BY QueuesLater DEF All
    <2>2. \A i \in 1..Len(a2) : a2[i].seq <= k
      BY <1>2, <2>1 DEF Queues
    <2>3. \A i \in 1..Len(a2) : a2[i].kind = "now" => a2[i].src # -1 /\ a2[i].src < a2[i].seq
      <3> TAKE i \in 1..Len(a2)
      <3>1. CASE i \in 1..Len(aw)
        BY <3>1, <1>2, <2>1 DEF Queues
      <3>2. CASE i = Len(aw) + 1
        <4>1. m.kind = "now" => /\ cs[1].since \in Nat /\ cs[1].since <= n
                                /\ m.src = cs[1].since /\ m.seq > n
          <5>1. cs # << >> => 1 \in 1..Len(cs)
            BY <1>1
          <5> QED  BY <1>1, <5>1, FrameTypes DEF All, Nested
        <4>2. m.seq \in Int
          BY MsgSendAssumption DEF Message
        <4> QED  BY <3>2, <1>2, <4>1, <4>2
      <3> QED  BY <3>1, <3>2, <1>2
    <2>4. \A i, j \in 1..Len(a2) :
             i < j /\ a2[i].kind = "now" /\ a2[j].kind = "now" => a2[i].seq < a2[j].seq
      <3> SUFFICES ASSUME NEW i \in 1..Len(a2), NEW j \in 1..Len(a2),
                          i < j, a2[i].kind = "now", a2[j].kind = "now"
                   PROVE  a2[i].seq < a2[j].seq
        OBVIOUS
      <3>1. i \in 1..Len(aw) /\ a2[i] = aw[i]
        BY <1>1, <1>2
      <3>2. CASE j \in 1..Len(aw)
        BY <3>1, <3>2, <1>2 DEF All, Queues
      <3>3. CASE j = Len(aw) + 1
        <4>1. aw[i].seq <= n /\ m.seq > n
          BY <3>1, <3>3, <1>2 DEF All, Queues
        <4>2. aw[i].seq \in Int
          BY <3>1, <1>1, MessageTypes
        <4>3. m.seq \in Int
          BY MsgSendAssumption DEF Message
        <4> QED  BY <3>1, <3>3, <1>2, <4>1, <4>2, <4>3
      <3> QED  BY <3>2, <3>3, <1>2
    <2> QED  BY <1>2, <2>1, <2>2, <2>3, <2>4 DEF Queues
  <1> QED  BY <1>3, <1>4, <1>5 DEF All, a2

\* A new tap message is postponed on o2_pending_local.
LEMMA NewLocal ==
    ASSUME NEW cs, NEW ms, NEW aw, NEW lo, NEW ti, NEW re, NEW n \in Nat,
           All(cs, ms, aw, lo, ti, re, n),
           NEW m \in Message, m.id \notin Used(ms, aw, lo, ti), m.seq <= n, m.kind = "tap"
    PROVE  All(cs, ms, aw, Append(lo, m), ti, re, n)
  <1>1. /\ cs \in Seq(Frame) /\ ms \in Seq(Message) /\ aw \in Seq(Message)
        /\ lo \in Seq(Message) /\ IsFiniteSet(ti)
        /\ Len(ms) \in Nat /\ Len(aw) \in Nat /\ Len(lo) \in Nat /\ Cardinality(ti) \in Nat
    BY AllTypes
  <1> DEFINE l2 == Append(lo, m)
  <1>2. /\ l2 \in Seq(Message) /\ Len(l2) = Len(lo) + 1 /\ l2[Len(lo) + 1] = m
        /\ \A i \in 1..Len(lo) : i \in 1..Len(l2) /\ l2[i] = lo[i]
        /\ \A i \in 1..Len(l2) : i \in 1..Len(lo) \/ i = Len(lo) + 1
    BY <1>1, Appended
  <1>3. Used(ms, aw, l2, ti) = Used(ms, aw, lo, ti) \cup {m.id}
    BY <1>1, UsedLocal
  <1> HIDE DEF l2
  <1>4. Alone(ms, aw, l2, ti)
    <2>1. Total(ms, aw, l2, ti) = Total(ms, aw, lo, ti) + 1
      BY <1>1, <1>2 DEF Total
    <2> QED  BY <1>1, <1>3, <2>1, AloneAdded DEF All
  <1>5. \A i \in 1..Len(l2) : l2[i].seq <= n /\ l2[i].kind = "tap"
    BY <1>2 DEF All, Queues
  <1>6. Queues(aw, l2, ti, n)
    BY <1>2, <1>5 DEF All, Queues
  <1> QED  BY <1>4, <1>6 DEF All, l2

\* A new message is given to the scheduler.
LEMMA NewTimed ==
    ASSUME NEW cs, NEW ms, NEW aw, NEW lo, NEW ti, NEW re, NEW n \in Nat, NEW k \in Nat,
           n <= k, All(cs, ms, aw, lo, ti, re, n),
           NEW m \in Message, m.id \notin Used(ms, aw, lo, ti), m.seq <= k,
           m.kind = "timed"
    PROVE  All(cs, ms, aw, lo, ti \cup {m}, re, k)
  <1>1. /\ cs \in Seq(Frame) /\ ms \in Seq(Message) /\ aw \in Seq(Message)
        /\ lo \in Seq(Message) /\ IsFiniteSet(ti) /\ ti \in SUBSET Message
        /\ Len(ms) \in Nat /\ Len(aw) \in Nat /\ Len(lo) \in Nat /\ Cardinality(ti) \in Nat
    BY AllTypes
  <1>2. m \notin ti
    BY DEF Used
  <1>3. IsFiniteSet(ti \cup {m}) /\ Cardinality(ti \cup {m}) = Cardinality(ti) + 1
    BY <1>1, <1>2, FS_AddElement
  <1>4. Used(ms, aw, lo, ti \cup {m}) = Used(ms, aw, lo, ti) \cup {m.id}
    BY ONLY UsedTimed
  <1> DEFINE t2 == ti \cup {m}
  <1>5. t2 \in SUBSET Message /\ \A x \in t2 : x \in ti \/ x = m
    BY <1>1
  <1>6. Alone(ms, aw, lo, t2)
    <2> HIDE DEF t2
    <2>0. /\ Used(ms, aw, lo, t2) = Used(ms, aw, lo, ti) \cup {m.id}
          /\ Cardinality(t2) = Cardinality(ti) + 1
      BY <1>3, <1>4 DEF t2
    <2>1. Total(ms, aw, lo, t2) = Total(ms, aw, lo, ti) + 1
      BY <1>1, <2>0 DEF Total
    <2> QED  BY <1>1, <2>0, <2>1, AloneAdded DEF All
  <1>7. Queues(aw, lo, t2, k)
    <2>1. Queues(aw, lo, ti, k)
      BY QueuesLater DEF All
    <2>2. IsFiniteSet(t2)
      BY <1>3
    <2> HIDE DEF t2
    <2> QED  BY <1>5, <2>1, <2>2 DEF Queues
  <1>8. All(cs, ms, aw, lo, ti, re, k)
    BY AllLater
  <1> HIDE DEF t2
  <1>9. All(cs, ms, aw, lo, t2, re, k)
    BY <1>6, <1>7, <1>8 DEF All
  <1> QED  BY <1>9 DEF t2

\* The current call goes on.
LEMMA TopAll ==
    ASSUME NEW cs, NEW ms, NEW aw, NEW lo, NEW ti, NEW re, NEW n \in Nat,
           All(cs, ms, aw, lo, ti, re, n), cs # << >>,
           NEW f \in Frame, f.guarded = cs[1].guarded, f.since <= n,
           f.msg.id = cs[1].msg.id,
           f.msg.seq = cs[1].msg.seq, f.msg.kind = cs[1].msg.kind,
           f.msg.dest = cs[1].msg.dest, f.msg.src = cs[1].msg.src,
           f.at = "handler" => \/ cs[1].at = "handler" /\ f.since = cs[1].since
                               \/ f.since = n,
           f.at \in {"start", "handler"} => cs[1].at \in {"start", "handler"},
           f.at # "done" => f.msg.ttl <= O2_MAX_TAP_FORWARDING
    PROVE  All([cs EXCEPT ![1] = f], ms, aw, lo, ti, re, n)
  <1>1. cs \in Seq(Frame) /\ aw \in Seq(Message)
    BY AllTypes
  <1>2. \A i \in 1..Len(aw) : aw[i].kind = "now" => aw[i].src < n
    <2> TAKE i \in 1..Len(aw)
    <2>1. aw[i].seq \in Int /\ aw[i].src \in Int
      BY <1>1, MessageTypes
    <2>2. aw[i].seq <= n /\ (aw[i].kind = "now" => aw[i].src < aw[i].seq)
      BY DEF All, Queues
    <2> QED  BY <2>1, <2>2
  <1>3. Shape([cs EXCEPT ![1] = f], ms, re)
    <2>1. Shape(cs, ms, re)
      BY DEF All
    <2> QED  BY <2>1, TopShape
  <1>4. Nested([cs EXCEPT ![1] = f], aw, n) /\ Ahead([cs EXCEPT ![1] = f], aw)
    <2>1. Nested(cs, aw, n) /\ Ahead(cs, aw)
      BY DEF All
    <2> QED  BY <1>1, <1>2, <2>1, TopNested
  <1> QED  BY <1>3, <1>4 DEF All

\* The current call returns: its message is freed.
LEMMA PopAll ==
    ASSUME NEW cs, NEW ms, NEW aw, NEW lo, NEW ti, NEW re, NEW n \in Nat,
           All(cs, ms, aw, lo, ti, re, n), cs # << >>
    PROVE  All(Tail(cs), Tail(ms), aw, lo, ti, IF Head(cs).guarded THEN re - 1 ELSE re, n)
  <1>1. /\ cs \in Seq(Frame) /\ ms \in Seq(Message) /\ aw \in Seq(Message)
        /\ lo \in Seq(Message) /\ IsFiniteSet(ti) /\ Len(ms) = Len(cs)
        /\ Len(ms) \in Nat /\ Len(aw) \in Nat /\ Len(lo) \in Nat /\ Cardinality(ti) \in Nat
    BY AllTypes
  <1>2. ms # << >>
    BY <1>1
  <1> DEFINE m2 == Tail(ms)
  <1>3. m2 \in Seq(Message) /\ Len(m2) = Len(ms) - 1 /\ Len(m2) \in Nat
    BY <1>1, <1>2, Popped
  <1>4. Range(ms) = {Head(ms)} \cup Range(m2)
    BY <1>1, <1>2, ElementsAfter
  <1> HIDE DEF m2
  <1>5. Used(ms, aw, lo, ti) = Used(m2, aw, lo, ti) \cup {Head(ms).id}
    BY <1>4 DEF Used
  <1>6. Total(ms, aw, lo, ti) = Total(m2, aw, lo, ti) + 1
    BY <1>1, <1>3 DEF Total
  <1>7. Alone(m2, aw, lo, ti)
    <2>1. Alone(ms, aw, lo, ti)
      BY DEF All
    <2> QED  BY ONLY <1>1, <1>3, <1>5, <1>6, <2>1, AloneRemoved
  <1>8. Shape(Tail(cs), Tail(ms), IF Head(cs).guarded THEN re - 1 ELSE re)
    BY PopShape DEF All
  <1>9. Nested(Tail(cs), aw, n) /\ Ahead(Tail(cs), aw)
    BY <1>1, PopNested DEF All
  <1> QED  BY <1>7, <1>8, <1>9 DEF All, m2

\* A waiting message is taken out of its place: its id is free.
LEMMA TakenOut ==
    ASSUME NEW cs, NEW ms, NEW aw, NEW lo, NEW ti, NEW re, NEW n \in Nat,
           All(cs, ms, aw, lo, ti, re, n),
           NEW a2, NEW l2, NEW t2, Queues(a2, l2, t2, n), NEW x,
           \A i \in 1..Len(a2) : \E j \in 1..Len(aw) : a2[i] = aw[j],
           Used(ms, aw, lo, ti) = Used(ms, a2, l2, t2) \cup {x},
           Total(ms, aw, lo, ti) = Total(ms, a2, l2, t2) + 1
    PROVE  All(cs, ms, a2, l2, t2, re, n) /\ x \notin Used(ms, a2, l2, t2)
  <1>1. /\ cs \in Seq(Frame) /\ ms \in Seq(Message) /\ aw \in Seq(Message)
        /\ lo \in Seq(Message) /\ IsFiniteSet(ti)
    BY AllTypes
  <1>2. a2 \in Seq(Message) /\ l2 \in Seq(Message) /\ IsFiniteSet(t2)
    BY DEF Queues
  <1>3. Alone(ms, a2, l2, t2) /\ x \notin Used(ms, a2, l2, t2)
    <2>1. Alone(ms, aw, lo, ti)
      BY DEF All
    <2> QED  BY <1>1, <1>2, <2>1, AloneRemoved
  <1>4. Nested(cs, a2, n) /\ Ahead(cs, a2)
    <2>1. Nested(cs, aw, n) /\ Ahead(cs, aw) /\ n <= n
      BY DEF All
    <2> QED  BY <1>1, <2>1, FewerNested
  <1> QED  BY <1>3, <1>4 DEF All

\* A timed message is taken from the scheduler.
LEMMA TakenTimed ==
    ASSUME NEW cs, NEW ms, NEW aw, NEW lo, NEW ti, NEW re, NEW n \in Nat,
           All(cs, ms, aw, lo, ti, re, n), NEW m \in ti
    PROVE  /\ All(cs, ms, aw, lo, ti \ {m}, re, n)
           /\ m.id \notin Used(ms, aw, lo, ti \ {m})
           /\ m \in Message /\ m.seq <= n /\ m.kind = "timed"
  <1>1. /\ ti \in SUBSET Message /\ IsFiniteSet(ti) /\ aw \in Seq(Message)
        /\ Len(ms) \in Nat /\ Len(aw) \in Nat /\ Len(lo) \in Nat /\ Cardinality(ti) \in Nat
    BY AllTypes
  <1> DEFINE t2 == ti \ {m}
  <1>2. IsFiniteSet(t2) /\ Cardinality(t2) = Cardinality(ti) - 1
    BY <1>1, FS_RemoveElement
  <1>3. Queues(aw, lo, ti, n)
    BY DEF All
  <1>4. Queues(aw, lo, t2, n)
    BY <1>2, <1>3 DEF Queues
  <1>5. Used(ms, aw, lo, ti) = Used(ms, aw, lo, t2) \cup {m.id}
    <2>1. ti = t2 \cup {m}
      OBVIOUS
    <2> HIDE DEF t2
    <2> QED  BY ONLY <2>1, UsedTimed
  <1> HIDE DEF t2
  <1>6. Total(ms, aw, lo, ti) = Total(ms, aw, lo, t2) + 1
    BY <1>1, <1>2 DEF Total
  <1>7. All(cs, ms, aw, lo, t2, re, n) /\ m.id \notin Used(ms, aw, lo, t2)
    BY <1>4, <1>5, <1>6, TakenOut
  <1>8. m \in Message /\ m.seq <= n /\ m.kind = "timed"
    BY <1>3 DEF Queues
  <1> QED  BY <1>7, <1>8 DEF t2

\* The first message is taken from the queue for pending messages.
LEMMA TakenAnywhere ==
    ASSUME NEW cs, NEW ms, NEW aw, NEW lo, NEW ti, NEW re, NEW n \in Nat,
           All(cs, ms, aw, lo, ti, re, n), aw # << >>
    PROVE  /\ All(cs, ms, Tail(aw), lo, ti, re, n)
           /\ Head(aw).id \notin Used(ms, Tail(aw), lo, ti)
           /\ Head(aw) \in Message /\ Head(aw).seq <= n
           /\ Head(aw).kind = "now" => \A j \in 1..Len(Tail(aw)) :
                 Tail(aw)[j].kind = "now" => Head(aw).seq < Tail(aw)[j].seq
  <1>1. /\ aw \in Seq(Message) /\ Len(ms) \in Nat /\ Len(aw) \in Nat
        /\ Len(lo) \in Nat /\ Cardinality(ti) \in Nat
    BY AllTypes
  <1> DEFINE a2 == Tail(aw)
             m == Head(aw)
  <1>2. /\ a2 \in Seq(Message) /\ Len(a2) = Len(aw) - 1 /\ Len(aw) \in Nat \ {0}
        /\ m = aw[1] /\ m \in Message /\ 1 \in 1..Len(aw)
        /\ \A i \in 1..Len(a2) : i + 1 \in 1..Len(aw) /\ a2[i] = aw[i + 1]
    BY <1>1, Popped
  <1>3. Queues(aw, lo, ti, n)
    BY DEF All
  <1>4. Range(aw) = {m} \cup Range(a2)
    BY <1>1, ElementsAfter
  <1> HIDE DEF a2, m
  <1>5. Queues(a2, lo, ti, n)
    <2>1. \A i \in 1..Len(a2) :
             /\ a2[i].seq <= n
             /\ a2[i].kind = "now" => a2[i].src # -1 /\ a2[i].src < a2[i].seq
      BY <1>2, <1>3 DEF Queues
    <2>2. ASSUME NEW i \in 1..Len(a2), NEW j \in 1..Len(a2), i < j,
                 a2[i].kind = "now", a2[j].kind = "now"
          PROVE  a2[i].seq < a2[j].seq
      <3>1. /\ i + 1 \in 1..Len(aw) /\ a2[i] = aw[i + 1]
            /\ j + 1 \in 1..Len(aw) /\ a2[j] = aw[j + 1] /\ i + 1 < j + 1
        BY <1>2, <2>2
      <3>2. \A x, y \in 1..Len(aw) :
               x < y /\ aw[x].kind = "now" /\ aw[y].kind = "now" => aw[x].seq < aw[y].seq
        BY <1>3 DEF Queues
      <3> QED  BY <2>2, <3>1, <3>2
    <2> QED  BY <1>2, <1>3, <2>1, <2>2 DEF Queues
  <1>6. Used(ms, aw, lo, ti) = Used(ms, a2, lo, ti) \cup {m.id}
    BY <1>4 DEF Used
  <1>7. Total(ms, aw, lo, ti) = Total(ms, a2, lo, ti) + 1
    BY <1>1, <1>2 DEF Total
  <1>8. \A i \in 1..Len(a2) : \E j \in 1..Len(aw) : a2[i] = aw[j]
    BY <1>2
  <1>9. All(cs, ms, a2, lo, ti, re, n) /\ m.id \notin Used(ms, a2, lo, ti)
    BY <1>5, <1>6, <1>7, <1>8, TakenOut
  <1>10. ASSUME m.kind = "now", NEW j \in 1..Len(a2), a2[j].kind = "now"
         PROVE  m.seq < a2[j].seq
    <2>1. /\ 1 \in 1..Len(aw) /\ m = aw[1] /\ j + 1 \in 1..Len(aw)
          /\ a2[j] = aw[j + 1] /\ 1 < j + 1
      BY <1>2
    <2>2. \A x, y \in 1..Len(aw) :
             x < y /\ aw[x].kind = "now" /\ aw[y].kind = "now" => aw[x].seq < aw[y].seq
      BY <1>3 DEF Queues
    <2> QED  BY <1>10, <2>1, <2>2
  <1>11. m.seq <= n
    BY <1>2, <1>3 DEF Queues
  <1> QED  BY <1>2, <1>9, <1>10, <1>11 DEF a2, m

\* The first message is taken from the queue of the taps.
LEMMA TakenLocal ==
    ASSUME NEW cs, NEW ms, NEW aw, NEW lo, NEW ti, NEW re, NEW n \in Nat,
           All(cs, ms, aw, lo, ti, re, n), lo # << >>
    PROVE  /\ All(cs, ms, aw, Tail(lo), ti, re, n)
           /\ Head(lo).id \notin Used(ms, aw, Tail(lo), ti)
           /\ Head(lo) \in Message /\ Head(lo).seq <= n /\ Head(lo).kind = "tap"
  <1>1. /\ lo \in Seq(Message) /\ aw \in Seq(Message) /\ Len(ms) \in Nat
        /\ Len(aw) \in Nat /\ Len(lo) \in Nat /\ Cardinality(ti) \in Nat
    BY AllTypes
  <1> DEFINE l2 == Tail(lo)
             m == Head(lo)
  <1>2. /\ l2 \in Seq(Message) /\ Len(l2) = Len(lo) - 1 /\ Len(lo) \in Nat \ {0}
        /\ m = lo[1] /\ m \in Message /\ 1 \in 1..Len(lo)
        /\ \A i \in 1..Len(l2) : i + 1 \in 1..Len(lo) /\ l2[i] = lo[i + 1]
    BY <1>1, Popped
  <1>3. Queues(aw, lo, ti, n)
    BY DEF All
  <1>4. Range(lo) = {m} \cup Range(l2)
    BY <1>1, ElementsAfter
  <1> HIDE DEF l2, m
  <1>5. Queues(aw, l2, ti, n)
    <2>1. \A i \in 1..Len(l2) : l2[i].seq <= n /\ l2[i].kind = "tap"
      BY <1>2, <1>3 DEF Queues
    <2> QED  BY <1>2, <1>3, <2>1 DEF Queues
  <1>6. Used(ms, aw, lo, ti) = Used(ms, aw, l2, ti) \cup {m.id}
    BY <1>4 DEF Used
  <1>7. Total(ms, aw, lo, ti) = Total(ms, aw, l2, ti) + 1
    BY <1>1, <1>2 DEF Total
  <1>8. All(cs, ms, aw, l2, ti, re, n) /\ m.id \notin Used(ms, aw, l2, ti)
    BY <1>1, <1>5, <1>6, <1>7, TakenOut
  <1>9. m.seq <= n /\ m.kind = "tap"
    BY <1>2, <1>3 DEF Queues
  <1> QED  BY <1>2, <1>8, <1>9 DEF l2, m

-----------------------------------------------------------------------------
(* Sending.                                                                *)

\* o2_do_not_reenter is 0 or 1: a guarded call starts no other one.
LEMMA Reentrance ==
    ASSUME NEW cs, NEW ms, NEW re, Shape(cs, ms, re)
    PROVE  /\ re = 0 \/ re = 1
           /\ re = 0 => Free(cs, 1)
           /\ re = 1 => cs # << >> /\ ~Free(cs, 1)
  <1>1. cs \in Seq(Frame) /\ Len(cs) \in Nat
    BY DEF Shape
  <1> QED  BY <1>1 DEF Shape, Free

\* What user code sends in the handler of the current call, or outside of one.
FromUser(m, cs, n) ==
    m.kind = "now" => /\ m.seq > n
                      /\ \/ cs = << >> /\ m.src = -1
                         \/ cs # << >> /\ cs[1].at = "handler" /\ m.src = cs[1].since

\* A message is delivered at once or postponed.
LEMMA SendLocalAll ==
    ASSUME NEW cs, NEW ms, NEW n \in Nat, NEW k \in Nat, n <= k,
           All(cs, ms, anywhere, local, timed, reenter, n),
           NEW m \in Message, m.id \notin Used(ms, anywhere, local, timed), m.seq <= k,
           cs # << >> /\ cs[1].at = "handler" => n < k,
           FromUser(m, cs, n), o2_send_local(m, cs, ms)
    PROVE  All(calls', msgs', anywhere', local', timed, reenter', k)
  <1>1. Shape(cs, ms, reenter)
    BY DEF All
  <1>2. /\ reenter = 0 \/ reenter = 1
        /\ reenter = 0 => Free(cs, 1)
        /\ reenter = 1 => cs # << >> /\ ~Free(cs, 1)
    BY <1>1, Reentrance
  <1>3. CASE reenter = 1 /\ m.kind = "tap"
    <2>1. /\ calls' = cs /\ msgs' = ms /\ anywhere' = anywhere
          /\ local' = Append(local, m) /\ reenter' = reenter
      BY <1>3 DEF o2_send_local
    <2>2. All(cs, ms, anywhere, local, timed, reenter, k)
      BY AllLater
    <2>3. All(cs, ms, anywhere, Append(local, m), timed, reenter, k)
      BY <1>3, <2>2, NewLocal
    <2> QED  BY <2>1, <2>3
  <1>4. CASE reenter = 1 /\ m.kind # "tap"
    <2>1. /\ calls' = cs /\ msgs' = ms /\ anywhere' = Append(anywhere, m)
          /\ local' = local /\ reenter' = reenter
      BY <1>4 DEF o2_send_local
    <2>2. m.kind = "now" => /\ cs # << >> /\ cs[1].at = "handler" /\ ~Free(cs, 1)
                            /\ m.src = cs[1].since /\ m.seq > n
      BY <1>2, <1>4 DEF FromUser
    <2>3. All(cs, ms, Append(anywhere, m), local, timed, reenter, k)
      BY <2>2, NewAnywhere
    <2> QED  BY <2>1, <2>3
  <1>5. CASE reenter = 0
    <2>0. ~(reenter > 0)
      BY <1>5
    <2>1. /\ calls' = <<Delivery(m, TRUE)>> \o cs /\ msgs' = <<m>> \o ms
          /\ anywhere' = anywhere /\ local' = local /\ reenter' = reenter + 1
      BY ONLY <2>0, o2_send_local(m, cs, ms) DEF o2_send_local
    <2>2. ASSUME m.kind = "now", NEW j \in 1..Len(anywhere), anywhere[j].kind = "now",
                 anywhere[j].src = m.src
          PROVE  FALSE
      <3>1. Nested(cs, anywhere, n) /\ Queues(anywhere, local, timed, n) /\ cs \in Seq(Frame)
        BY AllTypes DEF All
      <3>2. CASE cs = << >> /\ m.src = -1
        BY <2>2, <3>1, <3>2 DEF Queues
      <3>3. CASE cs # << >> /\ cs[1].at = "handler" /\ m.src = cs[1].since
        <4>1. 1 \in 1..Len(cs) /\ Free(cs, 1)
          BY <1>2, <1>5, <3>1, <3>3
        <4> QED  BY <2>2, <3>1, <3>3, <4>1 DEF Nested
      <3> QED  BY <2>2, <3>2, <3>3 DEF FromUser
    <2>3. m.kind = "now" => \A j \in 1..Len(anywhere) :
               anywhere[j].kind = "now" /\ anywhere[j].dest = m.dest
               /\ anywhere[j].src = m.src => m.seq < anywhere[j].seq
      BY <2>2
    <2>4. All(<<Delivery(m, TRUE)>> \o cs, <<m>> \o ms, anywhere, local, timed,
              IF TRUE THEN reenter + 1 ELSE reenter, k)
      BY <1>5, <2>3, NewPushed
    <2> QED  BY <2>1, <2>4
  <1> QED  BY <1>2, <1>3, <1>4, <1>5

\* o2_service_msg_send delivers or queues a message that was nowhere.
LEMMA ServiceSendAll ==
    ASSUME NEW cs, NEW ms, NEW n \in Nat, NEW k \in Nat, n <= k,
           All(cs, ms, anywhere, local, timed, reenter, n),
           NEW m \in Message, m.id \notin Used(ms, anywhere, local, timed), m.seq <= k,
           cs # << >> /\ cs[1].at = "handler" => n < k,
           FromUser(m, cs, n), o2_service_msg_send(m, cs, ms)
    PROVE  All(calls', msgs', anywhere', local', timed, reenter', k)
  <1>1. CASE m.dest \in live
    <2>1. o2_send_local(m, cs, ms)
      BY <1>1 DEF o2_service_msg_send
    <2> QED  BY <2>1, SendLocalAll
  <1>2. CASE m.dest \notin live
    <2>1. /\ calls' = cs /\ msgs' = ms /\ anywhere' = anywhere /\ local' = local
          /\ reenter' = reenter
      BY <1>2 DEF o2_service_msg_send, Drop
    <2>2. All(cs, ms, anywhere, local, timed, reenter, k)
      BY AllLater
    <2> QED  BY <2>1, <2>2
  <1> QED  BY <1>1, <1>2

\* o2_message_send schedules, delivers or queues a message that was nowhere.
LEMMA MessageSendAll ==
    ASSUME NEW cs, NEW ms, NEW n \in Nat, NEW k \in Nat, n <= k,
           All(cs, ms, anywhere, local, timed, reenter, n),
           NEW m \in Message, m.id \notin Used(ms, anywhere, local, timed), m.seq <= k,
           cs # << >> /\ cs[1].at = "handler" => n < k,
           FromUser(m, cs, n), NEW future \in BOOLEAN, o2_message_send(m, future, cs, ms)
    PROVE  All(calls', msgs', anywhere', local', timed', reenter', k)
  <1>1. CASE o2_service_msg_send(m, cs, ms) /\ timed' = timed
    <2>1. All(calls', msgs', anywhere', local', timed, reenter', k)
      BY <1>1, ServiceSendAll
    <2> QED  BY <1>1, <2>1
  <1>2. CASE /\ timed' = timed \cup {[m EXCEPT !.kind = "timed"]}
             /\ calls' = cs /\ msgs' = ms
             /\ UNCHANGED <<anywhere, local, reenter>>
    <2> DEFINE t == [m EXCEPT !.kind = "timed"]
    <2>1. "timed" \in Kinds
      BY DEF Kinds
    <2>2. /\ t \in Message /\ t.id = m.id /\ t.seq = m.seq /\ t.kind = "timed"
      BY <2>1 DEF Message
    <2> HIDE DEF t
    <2>3. All(cs, ms, anywhere, local, timed \cup {t}, reenter, k)
      BY <2>2, NewTimed
    <2> QED  BY <1>2, <2>3 DEF t
  <1> QED  BY <1>1, <1>2 DEF o2_message_send

-----------------------------------------------------------------------------
(* The steps of user code.                                                 *)

\* A message made by user code has an id that is not in use.
LEMMA NewMessage ==
    ASSUME IInv, NEW s \in Services, NEW parts \in Seq(Services),
           NEW ttl \in 0..O2_MAX_TAP_FORWARDING, NEW kind \in Kinds,
           NEW seq \in 1..MaxSends, NEW src \in Int, NEW m,
           m = Msg(NewId, s, parts, ttl, kind, seq, src)
    PROVE  /\ m \in Message /\ m.id \notin Used(msgs, anywhere, local, timed)
           /\ m.seq = seq /\ m.kind = kind /\ m.src = src /\ m.dest = s
  <1>1. NewId \in Nat /\ NewId \notin InUse
    BY NewIdFacts
  <1>2. InUse = Used(msgs, anywhere, local, timed)
    BY DEF InUse, Used
  <1>3. m = [id |-> NewId, dest |-> s, parts |-> parts, ttl |-> ttl, kind |-> kind,
             seq |-> seq, src |-> src]
    BY DEF Msg
  <1> HIDE DEF NewId
  <1>4. m \in Message
    BY <1>1, <1>3 DEF Message
  <1>5. m.id = NewId /\ m.seq = seq /\ m.kind = kind /\ m.src = src /\ m.dest = s
    BY <1>3
  <1> QED  BY <1>1, <1>2, <1>4, <1>5

\* A message that is no bundle.
LEMMA NewPlain ==
    ASSUME IInv, NEW s \in Services,
           NEW ttl \in 0..O2_MAX_TAP_FORWARDING, NEW kind \in Kinds,
           NEW seq \in 1..MaxSends, NEW src \in Int, NEW m,
           m = Msg(NewId, s, << >>, ttl, kind, seq, src)
    PROVE  /\ m \in Message /\ m.id \notin Used(msgs, anywhere, local, timed)
           /\ m.seq = seq /\ m.kind = kind /\ m.src = src /\ m.dest = s
  <1> DEFINE none == << >>
  <1>1. none \in Seq(Services)
    OBVIOUS
  <1>2. m = Msg(NewId, s, none, ttl, kind, seq, src)
    OBVIOUS
  <1> HIDE DEF none
  <1> QED  BY <1>1, <1>2, NewMessage

\* Types of what the bounds limit.
LEMMA Bounds ==
    ASSUME IInv
    PROVE  /\ sends \in Nat /\ sends \in 0..MaxSends /\ special \in 0..MaxSpecial
           /\ MaxSends \in Nat /\ MaxSpecial \in Nat /\ O2_MAX_TAP_FORWARDING \in Nat
           /\ sends + 1 \in Nat /\ sends <= sends + 1 /\ sends < sends + 1
           /\ All(calls, msgs, anywhere, local, timed, reenter, sends)
           /\ calls \in Seq(Frame) /\ msgs \in Seq(Message)
  <1>1. All(calls, msgs, anywhere, local, timed, reenter, sends)
    BY DEF IInv
  <1>2. calls \in Seq(Frame) /\ msgs \in Seq(Message)
    BY <1>1, AllTypes
  <1> QED  BY <1>1, <1>2, MsgSendAssumption DEF IInv

\* A call by user code is counted.
LEMMA UserCallFacts ==
    ASSUME IInv, NEW b \in BOOLEAN, UserCall(b)
    PROVE  /\ sends' = sends + 1 /\ sends + 1 \in 1..MaxSends /\ sends' \in 0..MaxSends
           /\ special' \in 0..MaxSpecial /\ UserCode
  <1>1. /\ sends \in 0..MaxSends /\ special \in 0..MaxSpecial
        /\ MaxSends \in Nat /\ MaxSpecial \in Nat
    BY Bounds
  <1>2. /\ sends' = sends + 1 /\ sends < MaxSends /\ UserCode
        /\ b => special < MaxSpecial
        /\ special' = IF b THEN special + 1 ELSE special
    BY DEF UserCall
  <1> QED  BY <1>1, <1>2

\* Where user code runs, and how it marks what it sends.
LEMMA SourceFacts ==
    ASSUME IInv, UserCode
    PROVE  /\ Source \in Int
           /\ calls = << >> => Source = -1
           /\ calls # << >> => calls[1].at = "handler" /\ Source = calls[1].since
  <1>1. calls \in Seq(Frame)
    BY Bounds
  <1>2. CASE calls = << >>
    BY <1>2 DEF Source
  <1>3. CASE calls # << >>
    <2>1. Top = calls[1] /\ 1 \in 1..Len(calls)
      BY <1>1, <1>3 DEF Top
    <2>2. calls[1].since \in Int
      BY <1>1, <2>1, FrameTypes
    <2> QED  BY <1>3, <2>1, <2>2 DEF Source, UserCode
  <1> QED  BY <1>2, <1>3

\* Nothing but the invariant on messages and calls is in question.
LEMMA Rest ==
    ASSUME All(calls', msgs', anywhere', local', timed', reenter', sends'),
           poll' \in {"no", "sched", "recv", "anywhere", "local"}, live' \subseteq Services,
           sends' \in 0..MaxSends, special' \in 0..MaxSpecial
    PROVE  IInv'
  BY DEF IInv

\* o2_send_marker keeps the invariant.
LEMMA MarkerStep ==
    ASSUME IInv, NEW s \in Services, NEW parts \in Bundles \cup {<< >>},
           NEW future \in BOOLEAN, o2_send_marker(s, parts, future)
    PROVE  IInv'
  <1> DEFINE m == Msg(NewId, s, parts, 0, "now", sends + 1, Source)
  <1>1. /\ UserCall(parts # << >> \/ future) /\ o2_message_send(m, future, calls, msgs)
        /\ poll' = poll /\ live' = live
    BY DEF o2_send_marker
  <1>2. /\ sends' = sends + 1 /\ sends + 1 \in 1..MaxSends /\ sends' \in 0..MaxSends
        /\ special' \in 0..MaxSpecial /\ UserCode
    <2>1. (parts # << >> \/ future) \in BOOLEAN
      OBVIOUS
    <2> QED  BY <1>1, <2>1, UserCallFacts
  <1>3. /\ Source \in Int
        /\ calls = << >> => Source = -1
        /\ calls # << >> => calls[1].at = "handler" /\ Source = calls[1].since
    BY <1>2, SourceFacts
  <1>4. /\ sends \in Nat /\ sends + 1 \in Nat /\ sends <= sends + 1 /\ sends < sends + 1
        /\ All(calls, msgs, anywhere, local, timed, reenter, sends)
        /\ O2_MAX_TAP_FORWARDING \in Nat
    BY Bounds
  <1>5. /\ m \in Message /\ m.id \notin Used(msgs, anywhere, local, timed)
        /\ m.seq = sends + 1 /\ m.kind = "now" /\ m.src = Source
    <2>1. << >> \in Seq(Services)
      OBVIOUS
    <2>2. parts \in Seq(Services)
      BY <2>1, MsgSendAssumption
    <2>3. 0 \in 0..O2_MAX_TAP_FORWARDING /\ "now" \in Kinds
      BY <1>4 DEF Kinds
    <2> QED  BY <1>2, <1>3, <2>2, <2>3, NewMessage
  <1> HIDE DEF m
  <1>6. FromUser(m, calls, sends)
    BY <1>3, <1>4, <1>5 DEF FromUser
  <1>7. m.seq <= sends + 1
    BY <1>4, <1>5
  <1>8. All(calls', msgs', anywhere', local', timed', reenter', sends + 1)
    BY <1>1, <1>4, <1>5, <1>6, <1>7, MessageSendAll
  <1> QED  BY <1>1, <1>2, <1>8, Rest DEF IInv

\* o2_schedule_msg keeps the invariant.
LEMMA ScheduleStep ==
    ASSUME IInv, NEW s \in Services, o2_schedule_msg(s)
    PROVE  IInv'
  <1> DEFINE m == Msg(NewId, s, << >>, 0, "timed", sends + 1, Source)
  <1>1. /\ UserCall(TRUE) /\ calls' = <<Delivery(m, FALSE)>> \o calls
        /\ msgs' = <<m>> \o msgs /\ anywhere' = anywhere /\ local' = local
        /\ timed' = timed /\ reenter' = reenter /\ poll' = poll /\ live' = live
    BY DEF o2_schedule_msg
  <1>2. /\ sends' = sends + 1 /\ sends + 1 \in 1..MaxSends /\ sends' \in 0..MaxSends
        /\ special' \in 0..MaxSpecial /\ UserCode
    BY <1>1, UserCallFacts
  <1>3. Source \in Int
    BY <1>2, SourceFacts
  <1>4. /\ sends \in Nat /\ sends + 1 \in Nat /\ sends <= sends + 1 /\ sends < sends + 1
        /\ All(calls, msgs, anywhere, local, timed, reenter, sends)
        /\ O2_MAX_TAP_FORWARDING \in Nat
    BY Bounds
  <1>5. /\ m \in Message /\ m.id \notin Used(msgs, anywhere, local, timed)
        /\ m.seq = sends + 1 /\ m.kind = "timed"
    <2>1. 0 \in 0..O2_MAX_TAP_FORWARDING /\ "timed" \in Kinds
      BY <1>4 DEF Kinds
    <2> QED  BY <1>2, <1>3, <2>1, NewPlain
  <1> HIDE DEF m
  <1>6. m.seq <= sends + 1
    BY <1>4, <1>5
  <1>7. All(<<Delivery(m, FALSE)>> \o calls, <<m>> \o msgs, anywhere, local, timed,
            IF FALSE THEN reenter + 1 ELSE reenter, sends + 1)
    BY <1>4, <1>5, <1>6, NewPushed
  <1>8. All(calls', msgs', anywhere', local', timed', reenter', sends + 1)
    BY <1>1, <1>7
  <1> QED  BY <1>1, <1>2, <1>8, Rest DEF IInv

\* Offering or freeing a service keeps the invariant.
LEMMA ToggleStep ==
    ASSUME IInv, NEW s \in Services, ToggleService(s)
    PROVE  IInv'
  <1>1. /\ UserCall(TRUE)
        /\ live' = IF s \in live THEN live \ {s} ELSE live \cup {s}
        /\ calls' = calls /\ msgs' = msgs /\ anywhere' = anywhere /\ local' = local
        /\ timed' = timed /\ reenter' = reenter /\ poll' = poll
    BY DEF ToggleService
  <1>2. sends' = sends + 1 /\ sends' \in 0..MaxSends /\ special' \in 0..MaxSpecial
    BY <1>1, UserCallFacts
  <1>3. /\ sends \in Nat /\ sends + 1 \in Nat /\ sends <= sends + 1
        /\ All(calls, msgs, anywhere, local, timed, reenter, sends)
    BY Bounds
  <1>4. All(calls, msgs, anywhere, local, timed, reenter, sends + 1)
    BY <1>3, AllLater
  <1>5. live' \subseteq Services
    BY <1>1 DEF IInv
  <1> QED  BY <1>1, <1>2, <1>4, <1>5, Rest DEF IInv

-----------------------------------------------------------------------------
(* The steps of o2_msg_deliver.                                            *)

\* The current call.
LEMMA Current ==
    ASSUME IInv, calls # << >>
    PROVE  /\ Top = calls[1] /\ 1 \in 1..Len(calls) /\ calls[1] \in Frame
           /\ calls[1].msg \in Held /\ calls[1].i \in Nat \ {0}
           /\ calls[1].guarded \in BOOLEAN /\ calls[1].since \in Nat
           /\ calls[1].at \in Positions
           /\ calls[1].since <= sends /\ calls[1].msg.seq <= sends
           /\ calls[1].at # "done" => calls[1].msg.ttl <= O2_MAX_TAP_FORWARDING
           /\ Head(calls) = calls[1]
  <1>1. calls \in Seq(Frame)
    BY Bounds
  <1>2. Top = calls[1] /\ 1 \in 1..Len(calls) /\ calls[1] \in Frame /\ Head(calls) = calls[1]
    BY <1>1 DEF Top
  <1>3. /\ calls[1].msg \in Held /\ calls[1].i \in Nat \ {0}
        /\ calls[1].guarded \in BOOLEAN /\ calls[1].since \in Nat
        /\ calls[1].at \in Positions
    BY <1>2 DEF Frame
  <1>4. calls[1].since <= sends /\ calls[1].msg.seq <= sends
    BY <1>2 DEF IInv, All, Nested
  <1>5. calls[1].at # "done" => calls[1].msg.ttl <= O2_MAX_TAP_FORWARDING
    BY <1>2 DEF IInv, All, Shape
  <1> QED  BY <1>2, <1>3, <1>4, <1>5

\* The current call goes on at another place, with the next part or tap.
LEMMA Onward ==
    ASSUME IInv, calls # << >>, NEW p \in Positions, NEW n \in Nat \ {0},
           p # "done" => calls[1].at # "done",
           p = "handler" => calls[1].at = "handler",
           p = "start" => calls[1].at = "start"
    PROVE  /\ All([calls EXCEPT ![1] = [calls[1] EXCEPT !.at = p, !.i = n]],
                  msgs, anywhere, local, timed, reenter, sends)
           /\ [calls EXCEPT ![1] = [calls[1] EXCEPT !.at = p, !.i = n]] # << >>
           /\ [calls EXCEPT ![1] = [calls[1] EXCEPT !.at = p, !.i = n]][1].at = p
  <1>1. /\ 1 \in 1..Len(calls) /\ calls[1] \in Frame /\ calls[1].since <= sends
        /\ calls[1].at # "done" => calls[1].msg.ttl <= O2_MAX_TAP_FORWARDING
    BY Current
  <1>2. sends \in Nat /\ All(calls, msgs, anywhere, local, timed, reenter, sends)
        /\ calls \in Seq(Frame)
    BY Bounds
  <1> DEFINE c == calls[1]
             f == [c EXCEPT !.at = p, !.i = n]
  <1>3. /\ f \in Frame /\ f.guarded = c.guarded /\ f.since = c.since /\ f.msg = c.msg
        /\ f.at = p
    <2> HIDE DEF c
    <2>1. c \in Frame
      BY <1>1 DEF c
    <2> QED  BY <2>1 DEF Frame
  <1> HIDE DEF f
  <1>4. All([calls EXCEPT ![1] = f], msgs, anywhere, local, timed, reenter, sends)
    BY <1>1, <1>2, <1>3, TopAll
  <1>5. [calls EXCEPT ![1] = f] # << >> /\ [calls EXCEPT ![1] = f][1] = f
    <2>1. Len([calls EXCEPT ![1] = f]) = Len(calls) /\ [calls EXCEPT ![1] = f][1] = f
      BY <1>2, <1>3, Replaced
    <2> QED  BY <1>1, <2>1
  <1> QED  BY <1>3, <1>4, <1>5 DEF f

\* The delivery in progress goes on to its next position.
LEMMA OnwardStep ==
    ASSUME IInv, calls # << >>, NEW p \in Positions, NEW n \in Nat \ {0},
           p # "done" => calls[1].at # "done",
           p = "handler" => calls[1].at = "handler",
           p = "start" => calls[1].at = "start",
           calls' = [calls EXCEPT ![1] = [calls[1] EXCEPT !.at = p, !.i = n]],
           UNCHANGED <<msgs, anywhere, local, timed, reenter, poll, live, user>>
    PROVE  IInv'
  <1>1. All([calls EXCEPT ![1] = [calls[1] EXCEPT !.at = p, !.i = n]],
            msgs, anywhere, local, timed, reenter, sends)
    BY Onward
  <1>2. /\ msgs' = msgs /\ anywhere' = anywhere /\ local' = local /\ timed' = timed
        /\ reenter' = reenter /\ poll' = poll /\ live' = live /\ sends' = sends
        /\ special' = special
    BY DEF user
  <1>3. All(calls', msgs', anywhere', local', timed', reenter', sends')
    BY <1>1, <1>2
  <1> QED  BY <1>2, <1>3, Rest DEF IInv

\* Two ways to write what Onward is about.
LEMMA SamePlace ==
    ASSUME IInv, calls # << >>, NEW p \in Positions
    PROVE  [calls EXCEPT ![1].at = p] =
               [calls EXCEPT ![1] = [calls[1] EXCEPT !.at = p, !.i = calls[1].i]]
  <1>1. calls[1] \in Frame
    BY Current
  <1> DEFINE c == calls[1]
  <1>2. [c EXCEPT !.at = p] = [c EXCEPT !.at = p, !.i = c.i]
    <2> HIDE DEF c
    <2>1. c \in Frame
      BY <1>1 DEF c
    <2> QED  BY <2>1 DEF Frame
  <1> QED  BY <1>2

\* Counting a part or a tap is one change of the current call.
LEMMA SameCount ==
    ASSUME IInv, calls # << >>
    PROVE  [calls EXCEPT ![1].i = @ + 1] =
               [calls EXCEPT ![1] = [calls[1] EXCEPT !.at = calls[1].at, !.i = calls[1].i + 1]]
  <1>1. calls[1] \in Frame
    BY Current
  <1> DEFINE c == calls[1]
  <1>2. [c EXCEPT !.i = c.i + 1] = [c EXCEPT !.at = c.at, !.i = c.i + 1]
    <2> HIDE DEF c
    <2>1. c \in Frame
      BY <1>1 DEF c
    <2> QED  BY <2>1 DEF Frame
  <1> QED  BY <1>2

\* The return of a handler keeps the invariant.
LEMMA HandlerReturnsStep ==
    ASSUME IInv, HandlerReturns
    PROVE  IInv'
  <1>1. /\ calls # << >> /\ Top.at = "handler" /\ "return" \in Positions
        /\ calls' = [calls EXCEPT ![1].at = "return"]
        /\ UNCHANGED <<msgs, anywhere, local, timed, reenter, poll, live, user>>
    BY DEF HandlerReturns, Positions
  <1>2. Top = calls[1] /\ calls[1].i \in Nat \ {0}
    BY <1>1, Current
  <1>3. calls' = [calls EXCEPT ![1] = [calls[1] EXCEPT !.at = "return", !.i = calls[1].i]]
    BY <1>1, SamePlace
  <1> QED  BY <1>1, <1>2, <1>3, OnwardStep

\* Sending a part of a bundle keeps the invariant.
LEMMA UnbundleStep ==
    ASSUME IInv, Unbundle
    PROVE  IInv'
  <1>1. /\ calls # << >> /\ Top.at = "start" /\ "done" \in Positions /\ "start" \in Positions
        /\ poll' = poll /\ live' = live /\ user' = user /\ sends' = sends
        /\ special' = special
    BY DEF Unbundle, Running, Positions, user
  <1>2. /\ Top = calls[1] /\ calls[1].i \in Nat \ {0} /\ calls[1].msg \in Held
        /\ calls[1].since \in Nat /\ calls[1].msg.seq <= sends
    BY <1>1, Current
  <1>3. CASE Top.i > Len(Top.msg.parts)
    <2>1. /\ calls' = [calls EXCEPT ![1].at = "done"]
          /\ UNCHANGED <<msgs, anywhere, local, timed, reenter>>
      BY <1>3 DEF Unbundle
    <2>2. calls' = [calls EXCEPT ![1] = [calls[1] EXCEPT !.at = "done", !.i = calls[1].i]]
      BY <1>1, <2>1, SamePlace
    <2> QED  BY <1>1, <1>2, <2>1, <2>2, OnwardStep
  <1>4. CASE ~(Top.i > Len(Top.msg.parts))
    <2> DEFINE c == calls[1]
               n == c.i + 1
               d == c.msg.parts[c.i]
               cs == [calls EXCEPT ![1].i = @ + 1]
               m == Msg(NewId, d, << >>, 0, "part", c.msg.seq, c.since)
    <2>1. Source = c.since
      BY <1>1, <1>2 DEF Source
    <2>2. PICK future \in BOOLEAN : o2_message_send(m, future, cs, msgs)
      BY <1>2, <1>4, <2>1 DEF Unbundle
    <2>3. d \in Services /\ c.msg.seq \in 1..MaxSends
      <3>1. c.msg.parts \in Seq(Services) /\ c.msg.seq \in 1..MaxSends
        BY <1>2 DEF Held
      <3>2. c.i \in 1..Len(c.msg.parts)
        BY <1>2, <1>4, <3>1
      <3> QED  BY <3>1, <3>2
    <2>4. /\ sends \in Nat /\ sends <= sends /\ O2_MAX_TAP_FORWARDING \in Nat
      BY Bounds
    <2>5. m \in Message /\ m.id \notin Used(msgs, anywhere, local, timed)
          /\ m.seq = c.msg.seq /\ m.kind = "part"
      <3>1. 0 \in 0..O2_MAX_TAP_FORWARDING /\ "part" \in Kinds /\ c.since \in Int
        BY <1>2, <2>4 DEF Kinds
      <3> HIDE DEF d, c
      <3> QED  BY <2>3, <3>1, NewPlain
    <2>6. cs = [calls EXCEPT ![1] = [calls[1] EXCEPT !.at = "start", !.i = n]]
      BY <1>1, <1>2, SameCount
    <2>7. n \in Nat \ {0}
      BY <1>2
    <2>8. calls[1].at = "start"
      BY <1>1, <1>2
    <2> HIDE DEF n, cs, m
    <2>9. /\ All(cs, msgs, anywhere, local, timed, reenter, sends)
          /\ cs # << >> /\ cs[1].at = "start"
      BY <1>1, <2>6, <2>7, <2>8, Onward
    <2>10. FromUser(m, cs, sends)
      BY <2>5 DEF FromUser
    <2>11. All(calls', msgs', anywhere', local', timed', reenter', sends)
      BY <1>2, <2>2, <2>4, <2>5, <2>9, <2>10, MessageSendAll
    <2> QED  BY <1>1, <2>11, Rest DEF IInv
  <1> QED  BY <1>3, <1>4

\* Calling the handlers of a message keeps the invariant.
LEMMA InvokeStep ==
    ASSUME IInv, Invoke
    PROVE  IInv'
  <1> DEFINE c == calls[1]
             p == IF Top.msg.dest \in live THEN "handler" ELSE "done"
             f == [c EXCEPT !.since = sends, !.at = p]
  <1>1. /\ calls # << >> /\ Top.at = "start"
        /\ calls' = [calls EXCEPT ![1].since = sends, ![1].at = p]
        /\ msgs' = msgs /\ anywhere' = anywhere /\ local' = local /\ timed' = timed
        /\ reenter' = reenter /\ poll' = poll /\ live' = live /\ sends' = sends
        /\ special' = special
    BY DEF Invoke, Running, user
  <1>2. /\ Top = c /\ c \in Frame /\ 1 \in 1..Len(calls)
        /\ c.at # "done" => c.msg.ttl <= O2_MAX_TAP_FORWARDING
    BY <1>1, Current
  <1>3. /\ sends \in Nat /\ sends <= sends /\ calls \in Seq(Frame)
        /\ All(calls, msgs, anywhere, local, timed, reenter, sends)
    BY Bounds
  <1>4. calls' = [calls EXCEPT ![1] = f]
    BY <1>1, <1>2, <1>3
  <1>5. p \in {"handler", "done"} /\ p \in Positions
    BY DEF Positions
  <1> HIDE DEF p
  <1>6. /\ f \in Frame /\ f.guarded = c.guarded /\ f.since = sends /\ f.msg = c.msg
        /\ f.at = p
    <2> HIDE DEF c
    <2> QED  BY <1>2, <1>3, <1>5 DEF Frame
  <1> HIDE DEF f
  <1>7. All([calls EXCEPT ![1] = f], msgs, anywhere, local, timed, reenter, sends)
    BY <1>1, <1>2, <1>3, <1>5, <1>6, TopAll
  <1>8. All(calls', msgs', anywhere', local', timed', reenter', sends')
    BY <1>1, <1>4, <1>7
  <1> QED  BY <1>1, <1>8, Rest DEF IInv

\* o2_send_to_taps keeps the invariant.
LEMMA TapsStep ==
    ASSUME IInv, o2_send_to_taps
    PROVE  IInv'
  <1> DEFINE c == calls[1]
             t == c.msg.ttl + 1
             p == IF t <= O2_MAX_TAP_FORWARDING THEN "taps" ELSE "done"
             x == [c.msg EXCEPT !.ttl = t]
             f == [c EXCEPT !.msg = x, !.at = p]
  <1>1. /\ calls # << >> /\ Top.at = "return"
        /\ msgs' = msgs /\ anywhere' = anywhere /\ local' = local /\ timed' = timed
        /\ reenter' = reenter /\ poll' = poll /\ live' = live /\ sends' = sends
        /\ special' = special
    BY DEF o2_send_to_taps, Running, user
  <1>2. /\ Top = c /\ c \in Frame /\ c.msg \in Held /\ c.since <= sends
    BY <1>1, Current
  <1>3. /\ sends \in Nat /\ calls \in Seq(Frame)
        /\ All(calls, msgs, anywhere, local, timed, reenter, sends)
    BY Bounds
  <1>4. calls' = [calls EXCEPT ![1] = f]
    BY <1>1, <1>2, <1>3 DEF o2_send_to_taps
  <1>5. t \in Nat /\ p \in Positions /\ p \in {"taps", "done"}
        /\ (p # "done" => t <= O2_MAX_TAP_FORWARDING)
    BY <1>2 DEF Positions, Held
  <1> HIDE DEF p, t
  <1>6. /\ x \in Held /\ x.id = c.msg.id /\ x.seq = c.msg.seq /\ x.kind = c.msg.kind
        /\ x.dest = c.msg.dest /\ x.src = c.msg.src /\ x.ttl = t
    <2> DEFINE y == c.msg
    <2>1. y \in Held
      BY <1>2
    <2> HIDE DEF y
    <2>2. LET z == [y EXCEPT !.ttl = t]
          IN  /\ z \in Held /\ z.id = y.id /\ z.seq = y.seq /\ z.kind = y.kind
              /\ z.dest = y.dest /\ z.src = y.src /\ z.ttl = t
      BY <1>5, <2>1 DEF Held
    <2> QED  BY <2>2 DEF y
  <1> HIDE DEF x
  <1>7. /\ f \in Frame /\ f.guarded = c.guarded /\ f.since = c.since /\ f.msg = x
        /\ f.at = p
    <2> HIDE DEF c
    <2> QED  BY <1>2, <1>5, <1>6 DEF Frame
  <1> HIDE DEF f
  <1>8. All([calls EXCEPT ![1] = f], msgs, anywhere, local, timed, reenter, sends)
    BY <1>1, <1>2, <1>3, <1>5, <1>6, <1>7, TopAll
  <1>9. All(calls', msgs', anywhere', local', timed', reenter', sends')
    BY <1>1, <1>4, <1>8
  <1> QED  BY <1>1, <1>9, Rest DEF IInv

\* Sending to one tap keeps the invariant.
LEMMA TapStep ==
    ASSUME IInv, msg_send_to_tap
    PROVE  IInv'
  <1>1. /\ calls # << >> /\ Top.at = "taps" /\ "done" \in Positions /\ "taps" \in Positions
        /\ poll' = poll /\ live' = live /\ timed' = timed /\ sends' = sends
        /\ special' = special /\ UNCHANGED user
    BY DEF msg_send_to_tap, Running, Positions, user
  <1>2. /\ Top = calls[1] /\ calls[1].i \in Nat \ {0} /\ calls[1].msg \in Held
        /\ calls[1].msg.seq <= sends
        /\ calls[1].at # "done" => calls[1].msg.ttl <= O2_MAX_TAP_FORWARDING
    BY <1>1, Current
  <1>3. CASE Top.i > Len(Taps[Top.msg.dest])
    <2>1. /\ calls' = [calls EXCEPT ![1].at = "done"]
          /\ UNCHANGED <<msgs, anywhere, local, reenter>>
      BY <1>3 DEF msg_send_to_tap
    <2>2. calls' = [calls EXCEPT ![1] = [calls[1] EXCEPT !.at = "done", !.i = calls[1].i]]
      BY <1>1, <2>1, SamePlace
    <2> QED  BY <1>1, <1>2, <2>1, <2>2, OnwardStep
  <1>4. CASE ~(Top.i > Len(Taps[Top.msg.dest]))
    <2> DEFINE c == calls[1]
               n == c.i + 1
               d == Taps[c.msg.dest][c.i]
               cs == [calls EXCEPT ![1].i = @ + 1]
               m == Msg(NewId, d, << >>, c.msg.ttl, "tap", c.msg.seq, c.msg.src)
    <2>1. o2_service_msg_send(m, cs, msgs)
      BY <1>2, <1>4 DEF msg_send_to_tap
    <2>2. /\ c.msg.dest \in Services /\ c.msg.seq \in 1..MaxSends /\ c.msg.src \in Int
          /\ c.msg.ttl \in Nat
      BY <1>2 DEF Held
    <2>3. d \in Services
      <3>1. Taps[c.msg.dest] \in Seq(Services)
        BY <2>2, MsgSendAssumption
      <3>2. c.i \in 1..Len(Taps[c.msg.dest])
        BY <1>2, <1>4, <3>1
      <3> QED  BY <3>1, <3>2
    <2>4. sends \in Nat /\ sends <= sends /\ O2_MAX_TAP_FORWARDING \in Nat
      BY Bounds
    <2>5. m \in Message /\ m.id \notin Used(msgs, anywhere, local, timed)
          /\ m.seq = c.msg.seq /\ m.kind = "tap"
      <3>1. c.msg.ttl \in 0..O2_MAX_TAP_FORWARDING /\ "tap" \in Kinds
        BY <1>1, <1>2, <2>2, <2>4 DEF Kinds
      <3> HIDE DEF d, c
      <3> QED  BY <2>2, <2>3, <3>1, NewPlain
    <2>6. cs = [calls EXCEPT ![1] = [calls[1] EXCEPT !.at = "taps", !.i = n]]
      BY <1>1, <1>2, SameCount
    <2>7. n \in Nat \ {0}
      BY <1>2
    <2>8. calls[1].at = "taps"
      BY <1>1, <1>2
    <2> HIDE DEF n, cs, m
    <2>9. /\ All(cs, msgs, anywhere, local, timed, reenter, sends)
          /\ cs # << >> /\ cs[1].at = "taps"
      BY <1>1, <2>6, <2>7, <2>8, Onward
    <2>10. FromUser(m, cs, sends)
      BY <2>5 DEF FromUser
    <2>11. All(calls', msgs', anywhere', local', timed, reenter', sends)
      BY <1>2, <2>1, <2>4, <2>5, <2>9, <2>10, ServiceSendAll
    <2> QED  BY <1>1, <2>11, Rest DEF IInv
  <1> QED  BY <1>3, <1>4

\* The end of a delivery keeps the invariant.
LEMMA ReturnStep ==
    ASSUME IInv, Return
    PROVE  IInv'
  <1>1. /\ calls # << >> /\ msgs' = Tail(msgs) /\ calls' = Tail(calls)
        /\ reenter' = IF Top.guarded THEN reenter - 1 ELSE reenter
        /\ anywhere' = anywhere /\ local' = local /\ timed' = timed
        /\ poll' = poll /\ live' = live /\ sends' = sends /\ special' = special
    BY DEF Return, Running, user
  <1>2. sends \in Nat /\ All(calls, msgs, anywhere, local, timed, reenter, sends)
    BY Bounds
  <1>3. All(Tail(calls), Tail(msgs), anywhere, local, timed,
            IF Head(calls).guarded THEN reenter - 1 ELSE reenter, sends)
    BY <1>1, <1>2, PopAll
  <1>4. All(calls', msgs', anywhere', local', timed', reenter', sends')
    BY <1>1, <1>3 DEF Top
  <1> QED  BY <1>1, <1>4, Rest DEF IInv

-----------------------------------------------------------------------------
(* The steps of o2_poll.                                                   *)

\* A stack of one call.
LEMMA FirstCall ==
    ASSUME NEW f \in Frame
    PROVE  <<f>> \o << >> = <<f>>
  OBVIOUS

\* The beginning of o2_poll and of its second part keep the invariant.
LEMMA PollStep ==
    ASSUME IInv, PollStart \/ PollPending
    PROVE  IInv'
  <1>1. /\ calls' = calls /\ msgs' = msgs /\ anywhere' = anywhere /\ local' = local
        /\ timed' = timed /\ reenter' = reenter /\ live' = live /\ sends' = sends
        /\ special' = special
        /\ poll' \in {"no", "sched", "recv", "anywhere", "local"}
    BY DEF PollStart, PollPending, user
  <1>2. All(calls', msgs', anywhere', local', timed', reenter', sends')
    BY <1>1 DEF IInv
  <1> QED  BY <1>1, <1>2, Rest DEF IInv

\* Sending a timed message that is due keeps the invariant.
LEMMA DueStep ==
    ASSUME IInv, NEW m \in timed, Due(m)
    PROVE  IInv'
  <1>1. /\ calls = << >> /\ timed' = timed \ {m} /\ o2_service_msg_send(m, calls, msgs)
        /\ poll' = poll /\ live' = live /\ sends' = sends /\ special' = special
    BY DEF Due, user
  <1>2. sends \in Nat /\ All(calls, msgs, anywhere, local, timed, reenter, sends)
    BY Bounds
  <1>3. /\ All(calls, msgs, anywhere, local, timed', reenter, sends)
        /\ m.id \notin Used(msgs, anywhere, local, timed')
        /\ m \in Message /\ m.seq <= sends /\ m.kind = "timed"
    BY <1>1, <1>2, TakenTimed
  <1>4. All(calls', msgs', anywhere', local', timed', reenter', sends)
    <2> DEFINE t2 == timed'
    <2>1. /\ All(calls, msgs, anywhere, local, t2, reenter, sends)
          /\ m.id \notin Used(msgs, anywhere, local, t2)
      BY <1>3
    <2> HIDE DEF t2
    <2>2. CASE m.dest \notin live
      <3>1. /\ calls' = calls /\ msgs' = msgs /\ anywhere' = anywhere /\ local' = local
            /\ reenter' = reenter
        BY <1>1, <2>2 DEF o2_service_msg_send, Drop
      <3> QED  BY <2>1, <3>1 DEF t2
    <2>3. CASE m.dest \in live
      <3>1. Shape(calls, msgs, reenter)
        BY <1>2 DEF All
      <3>2. reenter = 0
        BY <1>1, <3>1, Reentrance
      <3>3. o2_send_local(m, calls, msgs) /\ ~(reenter > 0)
        BY <1>1, <2>3, <3>2 DEF o2_service_msg_send
      <3>4. /\ calls' = <<Delivery(m, TRUE)>> \o calls /\ msgs' = <<m>> \o msgs
            /\ anywhere' = anywhere /\ local' = local /\ reenter' = reenter + 1
        BY ONLY <3>3 DEF o2_send_local
      <3>5. sends <= sends /\ m.kind # "now"
        BY <1>2, <1>3
      <3>6. All(<<Delivery(m, TRUE)>> \o calls, <<m>> \o msgs, anywhere, local, t2,
                IF TRUE THEN reenter + 1 ELSE reenter, sends)
        BY <1>1, <1>2, <1>3, <2>1, <3>2, <3>5, NewPushed
      <3> QED  BY <3>4, <3>6 DEF t2
    <2> QED  BY <2>2, <2>3
  <1> QED  BY <1>1, <1>4, Rest DEF IInv

\* Sending a pending message keeps the invariant.
LEMMA AnywhereStep ==
    ASSUME IInv, DeliverAnywhere
    PROVE  IInv'
  <1> DEFINE m == Head(anywhere)
             a2 == Tail(anywhere)
  <1>1. /\ calls = << >> /\ anywhere # << >> /\ anywhere' = a2 /\ local' = local
        /\ timed' = timed /\ poll' = poll /\ live' = live /\ sends' = sends
        /\ special' = special
        /\ IF m.dest \in live
           THEN calls' = <<Delivery(m, TRUE)>> /\ msgs' = <<m>> \o msgs
                /\ reenter' = reenter + 1
           ELSE calls' = calls /\ msgs' = msgs /\ reenter' = reenter
    BY DEF DeliverAnywhere, user
  <1>2. /\ sends \in Nat /\ All(calls, msgs, anywhere, local, timed, reenter, sends)
        /\ calls \in Seq(Frame)
    BY Bounds
  <1>3. /\ All(calls, msgs, a2, local, timed, reenter, sends)
        /\ m.id \notin Used(msgs, a2, local, timed)
        /\ m \in Message /\ m.seq <= sends
        /\ m.kind = "now" => \A j \in 1..Len(a2) : a2[j].kind = "now" => m.seq < a2[j].seq
    BY <1>1, <1>2, TakenAnywhere
  <1> HIDE DEF m, a2
  <1>4. CASE m.dest \notin live
    <2>1. All(calls', msgs', anywhere', local', timed', reenter', sends')
      BY <1>1, <1>3, <1>4
    <2> QED  BY <1>1, <2>1, Rest DEF IInv
  <1>5. CASE m.dest \in live
    <2>1. Shape(calls, msgs, reenter)
      BY <1>2 DEF All
    <2>2. reenter = 0
      BY <1>1, <2>1, Reentrance
    <2>3. Delivery(m, TRUE) \in Frame
      BY <1>3, DeliveryFrame
    <2>4. calls' = <<Delivery(m, TRUE)>> \o calls
      BY <1>1, <1>5, <2>3, FirstCall
    <2>5. sends <= sends
      BY <1>2
    <2>6. All(<<Delivery(m, TRUE)>> \o calls, <<m>> \o msgs, a2, local, timed,
              IF TRUE THEN reenter + 1 ELSE reenter, sends)
      BY <1>1, <1>2, <1>3, <2>2, <2>5, NewPushed
    <2>7. All(calls', msgs', anywhere', local', timed', reenter', sends')
      BY <1>1, <1>5, <2>4, <2>6
    <2> QED  BY <1>1, <2>7, Rest DEF IInv
  <1> QED  BY <1>4, <1>5

\* Sending a queued message for taps keeps the invariant.
LEMMA LocalStep ==
    ASSUME IInv, DeliverLocal
    PROVE  IInv'
  <1> DEFINE m == Head(local)
             l2 == Tail(local)
  <1>1. /\ calls = << >> /\ local # << >> /\ local' = l2 /\ anywhere' = anywhere
        /\ timed' = timed /\ poll' = poll /\ live' = live /\ sends' = sends
        /\ special' = special /\ reenter' = reenter
        /\ IF m.dest \in live
           THEN calls' = <<Delivery(m, FALSE)>> /\ msgs' = <<m>> \o msgs
           ELSE calls' = calls /\ msgs' = msgs
    BY DEF DeliverLocal, user
  <1>2. /\ sends \in Nat /\ All(calls, msgs, anywhere, local, timed, reenter, sends)
        /\ calls \in Seq(Frame)
    BY Bounds
  <1>3. /\ All(calls, msgs, anywhere, l2, timed, reenter, sends)
        /\ m.id \notin Used(msgs, anywhere, l2, timed)
        /\ m \in Message /\ m.seq <= sends /\ m.kind = "tap"
    BY <1>1, <1>2, TakenLocal
  <1> HIDE DEF m, l2
  <1>4. CASE m.dest \notin live
    <2>1. All(calls', msgs', anywhere', local', timed', reenter', sends')
      BY <1>1, <1>3, <1>4
    <2> QED  BY <1>1, <2>1, Rest DEF IInv
  <1>5. CASE m.dest \in live
    <2>1. Delivery(m, FALSE) \in Frame
      BY <1>3, DeliveryFrame
    <2>2. calls' = <<Delivery(m, FALSE)>> \o calls
      BY <1>1, <1>5, <2>1, FirstCall
    <2>3. sends <= sends /\ m.kind # "now"
      BY <1>2, <1>3
    <2>4. All(<<Delivery(m, FALSE)>> \o calls, <<m>> \o msgs, anywhere, l2, timed,
              IF FALSE THEN reenter + 1 ELSE reenter, sends)
      BY <1>1, <1>2, <1>3, <2>3, NewPushed
    <2>5. All(calls', msgs', anywhere', local', timed', reenter', sends')
      BY <1>1, <1>5, <2>2, <2>4
    <2> QED  BY <1>1, <2>5, Rest DEF IInv
  <1> QED  BY <1>4, <1>5

-----------------------------------------------------------------------------
(* The theorems.                                                           *)

\* At the beginning nothing is in progress and nothing waits.
LEMMA InitIInv == Init => IInv
  <1> SUFFICES ASSUME Init PROVE IInv
    OBVIOUS
  <1> DEFINE e == << >>
  <1>1. /\ calls = e /\ msgs = e /\ anywhere = e /\ local = e /\ timed = {} /\ reenter = 0
        /\ poll = "no" /\ live = Services /\ sends = 0 /\ special = 0
    BY DEF Init
  <1>2. e \in Seq(Frame) /\ e \in Seq(Message) /\ Len(e) = 0 /\ Range(e) = {}
    BY DEF Range
  <1>3. IsFiniteSet({}) /\ Cardinality({}) = 0
    BY FS_EmptySet
  <1> HIDE DEF e
  <1>4. Shape(e, e, 0)
    BY <1>2 DEF Shape
  <1>5. Queues(e, e, {}, 0)
    BY <1>2, <1>3 DEF Queues
  <1>6. Used(e, e, e, {}) = {}
    BY <1>2 DEF Used
  <1>7. Alone(e, e, e, {})
    <2>1. IsFiniteSet(Used(e, e, e, {})) /\ Cardinality(Used(e, e, e, {})) = 0
      BY <1>3, <1>6, Zenon
    <2>2. Len(e) + Len(e) + Len(e) + Cardinality({}) = 0
      BY <1>2, <1>3
    <2> QED  BY <2>1, <2>2, Zenon DEF Alone
  <1>8. Nested(e, e, 0) /\ Ahead(e, e)
    BY <1>2 DEF Nested, Ahead
  <1>9. All(calls, msgs, anywhere, local, timed, reenter, sends)
    BY <1>1, <1>4, <1>5, <1>7, <1>8 DEF All
  <1>10. sends \in 0..MaxSends /\ special \in 0..MaxSpecial
    BY <1>1, MsgSendAssumption
  <1> QED  BY <1>1, <1>9, <1>10 DEF IInv

\* Every step of the process keeps the invariant.
LEMMA NextIInv == IInv /\ [Next]_vars => IInv'
  <1> SUFFICES ASSUME IInv, [Next]_vars PROVE IInv'
    OBVIOUS
  <1>1. ASSUME NEW s \in Services, NEW parts \in Bundles \cup {<< >>},
               NEW future \in BOOLEAN, o2_send_marker(s, parts, future)
        PROVE  IInv'
    BY <1>1, MarkerStep
  <1>2. ASSUME NEW s \in Services, o2_schedule_msg(s) PROVE IInv'
    BY <1>2, ScheduleStep
  <1>3. ASSUME NEW s \in Services, ToggleService(s) PROVE IInv'
    BY <1>3, ToggleStep
  <1>4. CASE HandlerReturns
    BY <1>4, HandlerReturnsStep
  <1>5. CASE Deliver
    BY <1>5, UnbundleStep, InvokeStep, TapsStep, TapStep, ReturnStep DEF Deliver
  <1>6. CASE o2_poll
    BY <1>6, PollStep, AnywhereStep, LocalStep DEF o2_poll
  <1>7. ASSUME NEW m \in timed, Due(m) PROVE IInv'
    BY <1>7, DueStep
  <1>8. CASE UNCHANGED vars
    BY <1>8 DEF vars, user, IInv
  <1> QED  BY <1>1, <1>2, <1>3, <1>4, <1>5, <1>6, <1>7, <1>8 DEF Next

\* The invariant holds in every reachable state.
LEMMA Invariance == Spec => []IInv
  BY InitIInv, NextIInv, PTL DEF Spec

\* What o2_do_not_reenter counts.
LEMMA CountsGuarded ==
    ASSUME IInv
    PROVE  reenter = Cardinality({i \in DOMAIN calls : calls[i].guarded})
  <1> DEFINE G == {i \in DOMAIN calls : calls[i].guarded}
  <1>1. Shape(calls, msgs, reenter) /\ calls \in Seq(Frame)
    BY Bounds DEF IInv, All
  <1>2. G = {i \in 1..Len(calls) : calls[i].guarded}
    BY <1>1
  <1> HIDE DEF G
  <1>3. CASE reenter = 0 /\ \A i \in 1..Len(calls) : ~calls[i].guarded
    <2>1. G = {}
      BY <1>2, <1>3
    <2> QED  BY <1>3, <2>1, FS_EmptySet DEF G
  <1>4. CASE reenter = 1 /\ \E g \in 1..Len(calls) :
                \A i \in 1..Len(calls) : calls[i].guarded <=> i = g
    <2>1. PICK g \in 1..Len(calls) : \A i \in 1..Len(calls) : calls[i].guarded <=> i = g
      BY <1>4
    <2>2. G = {g}
      BY <1>2, <2>1
    <2>3. Cardinality({g}) = 1
      BY FS_Singleton
    <2> QED  BY <1>4, <2>2, <2>3 DEF G
  <1> QED  BY <1>1, <1>3, <1>4 DEF Shape

\* The invariant gives every variable its type.
LEMMA IInvType == IInv => TypeOK
  <1> SUFFICES ASSUME IInv PROVE TypeOK
    OBVIOUS
  <1>1. /\ All(calls, msgs, anywhere, local, timed, reenter, sends)
        /\ calls \in Seq(Frame) /\ msgs \in Seq(Message)
    BY Bounds
  <1>2. anywhere \in Seq(Message) /\ local \in Seq(Message) /\ timed \in SUBSET Message
    BY <1>1, AllTypes
  <1>3. ASSUME NEW m \in Range(msgs) \cup Range(anywhere) \cup Range(local) \cup timed
        PROVE  /\ m.dest \in Services /\ m.kind \in Kinds
               /\ m.ttl \in 0..O2_MAX_TAP_FORWARDING /\ m.seq \in 1..MaxSends
    <2>1. /\ Range(msgs) \subseteq Message /\ Range(anywhere) \subseteq Message
          /\ Range(local) \subseteq Message
      BY <1>1, <1>2, Elements
    <2>2. m \in Message
      BY <1>2, <2>1
    <2> QED  BY <2>2 DEF Message
  <1>4. ASSUME NEW c \in Range(calls)
        PROVE  c.at \in Positions /\ c.guarded \in BOOLEAN
    <2>1. Range(calls) \subseteq Frame
      BY <1>1, Elements
    <2>2. c \in Frame
      BY <2>1
    <2> QED  BY <2>2 DEF Frame
  <1>5. reenter = Cardinality({i \in DOMAIN calls : calls[i].guarded})
    BY CountsGuarded
  <1> QED  BY <1>3, <1>4, <1>5 DEF TypeOK, IInv

\* The invariant gives every message one owner.
LEMMA IInvOwned == IInv => MessagesOwned
  <1> SUFFICES ASSUME IInv PROVE MessagesOwned
    OBVIOUS
  <1>1. /\ calls \in Seq(Frame) /\ msgs \in Seq(Message) /\ Len(msgs) = Len(calls)
        /\ \A i \in 1..Len(calls) : msgs[i].id = calls[i].msg.id
        /\ \A i, j \in 1..Len(msgs) : i # j => msgs[i].id # msgs[j].id
    BY DEF IInv, All, Shape
  <1>2. DOMAIN msgs = 1..Len(calls) /\ DOMAIN calls = 1..Len(calls)
    BY <1>1
  <1>3. Ids(msgs) = Ids([i \in DOMAIN calls |-> calls[i].msg])
    BY <1>1, <1>2 DEF Ids
  <1>4. InUse = Used(msgs, anywhere, local, timed)
    BY DEF InUse, Used
  <1>5. Cardinality(InUse) = Len(msgs) + Len(anywhere) + Len(local) + Cardinality(timed)
    BY <1>4 DEF IInv, All, Alone
  <1>6. \A i, j \in DOMAIN msgs : i # j => msgs[i].id # msgs[j].id
    BY <1>1, <1>2
  <1> QED  BY <1>3, <1>5, <1>6 DEF MessagesOwned

\* The invariant keeps messages in the order of sending.
LEMMA IInvOrder == IInv => InSendingOrder
  <1> SUFFICES ASSUME IInv, NEW c \in Range(calls), NEW m \in Range(anywhere),
                      c.at = "handler", c.msg.kind = "now", m.kind = "now",
                      c.msg.dest = m.dest, c.msg.src = m.src
               PROVE  c.msg.seq < m.seq
    BY DEF InSendingOrder
  <1>1. Ahead(calls, anywhere) /\ calls \in Seq(Frame) /\ anywhere \in Seq(Message)
    BY DEF IInv, All, Shape, Queues
  <1>2. PICK i \in 1..Len(calls) : c = calls[i]
    BY <1>1, Elements
  <1>3. PICK k \in 1..Len(anywhere) : m = anywhere[k]
    BY <1>1, Elements
  <1> QED  BY <1>1, <1>2, <1>3 DEF Ahead

\* For any services, taps, bundles and bounds: o2_ctx->msgs holds the messages of
\* the deliveries in progress, no message is in two places, and o2_do_not_reenter
\* counts the calls of o2_send_local on whatever path they return.
THEOREM EveryMessageOwned == Spec => []OwnedOnce
  <1>1. IInv => OwnedOnce
    BY IInvType, IInvOwned DEF OwnedOnce
  <1> QED  BY <1>1, Invariance, PTL

\* No overtaking, for any services, taps, bundles and bounds: when a handler is called
\* with a message sent without a timestamp, no earlier one from the same caller to the
\* same service still waits in o2_pending_anywhere.
THEOREM SendingOrderKept == Spec => []InSendingOrder
  BY IInvOrder, Invariance, PTL
=============================================================================
