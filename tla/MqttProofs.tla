----------------------------- MODULE MqttProofs -----------------------------
(***************************************************************************)
(* Proofs about connections through an MQTT broker, for any processes,     *)
(* networks and crashes: two processes are joined in one way only, and no  *)
(* services are dropped by a receiver that stays (JoinedOnce).             *)
(***************************************************************************)
EXTENDS Mqtt, TLAPS

-----------------------------------------------------------------------------
(* The inductive invariant.  Its parts are operators of the messages under *)
(* way bx, the known processes ps and the states of processes u, because a *)
(* handler first takes its message, then adds a process, then sends.       *)

Message == [what : {"disc", "bye", "mqtt/dy", "callback", "sv"}, from : Procs]

Left(u, p) == u[p] \in {"gone", "dead"}

\* How two processes get joined: the cases of disc_handler come to this, whichever of
\* the two hears of the other.
ByTcp(p, q) == net[p] = net[q] \/ net[IF p < q THEN q ELSE p] = "open"

Types(ps, u) ==
    /\ u \in [Procs -> {"off", "on", "gone", "dead"}]
    /\ ps \in [Procs -> SUBSET Procs]

\* What a message under way to p says of its sender.
Valid(m, p, ps, u) ==
    /\ u[m.from] # "off"
    /\ m.what = "bye" => Left(u, m.from)
    /\ m.what = "callback" => m.from # p /\ ByTcp(p, m.from)
    /\ m.what = "mqtt/dy" =>
          /\ m.from # p /\ ~ByTcp(p, m.from) /\ ~Unrefreshed(m.from, p)
          /\ u[m.from] = "on" => p \in ps[m.from]

Boxes(bx, ps, u) ==
    /\ bx \in [Procs -> Seq(Message)]
    /\ \A p \in Procs : bx[p] # << >> => u[p] = "on"
    /\ \A p \in Procs : \A i \in 1..Len(bx[p]) : Valid(bx[p][i], p, ps, u)

\* q is known to p, or will be when p comes to the i-th message of s.
Announced(s, i, p, q, ps) ==
    q \in ps[p] \/ \E j \in 1..(i - 1) : s[j].what = "mqtt/dy" /\ s[j].from = q

Introduced(bx, ps, u) ==
    \A p \in Procs : \A i \in 1..Len(bx[p]) :
        bx[p][i].what = "sv" /\ u[bx[p][i].from] = "on"
            => Announced(bx[p], i, p, bx[p][i].from, ps)

Post(bx, ps, u) == Types(ps, u) /\ Boxes(bx, ps, u) /\ Introduced(bx, ps, u)

\* The processes known and not given up.
Fresh(ps, ex) == [p \in Procs |-> ps[p] \ ex[p]]

\* What is known of other processes is consistent with how they are reached.
Known(ps, ex, u) ==
    /\ ps \in [Procs -> SUBSET Procs] /\ ex \in [Procs -> SUBSET Procs]
    /\ \A p \in Procs : \A q \in ps[p] : q # p /\ ~ByTcp(p, q) /\ u[q] # "off"
    /\ \A p \in Procs :
          /\ ex[p] \subseteq ps[p]
          /\ \A q \in ex[p] : Left(u, q) \/ Unrefreshed(p, q)

Pairs ==
    \A pair \in tcp : \E p, q \in Procs : p # q /\ pair = {p, q} /\ ByTcp(p, q)

IInv ==
    /\ net \in [Procs -> Networks]
    /\ Post(inbox, Fresh(procs, expired), up) /\ Known(procs, expired, up) /\ Pairs
    /\ checking \subseteq {p \in Procs : On(p)}
    /\ \A o \in orphans : o \in Procs \X Procs /\ Left(up, o[2])

-----------------------------------------------------------------------------
(* Names and sequences.                                                    *)

\* Both processes come to the same decision.
LEMMA ByTcpSymmetric ==
    ASSUME NEW p \in Procs, NEW q \in Procs
    PROVE  ByTcp(p, q) <=> ByTcp(q, p)
  <1>1. p \in Int /\ q \in Int
    BY MqttAssumption
  <1>2. CASE p = q
    BY <1>2
  <1>3. CASE p < q
    BY <1>1, <1>3 DEF ByTcp
  <1>4. CASE q < p
    BY <1>1, <1>4 DEF ByTcp
  <1> QED  BY <1>1, <1>2, <1>3, <1>4

\* One more message at the end of an inbox.
LEMMA AppendFacts ==
    ASSUME NEW s \in Seq(Message), NEW m \in Message
    PROVE  /\ Append(s, m) \in Seq(Message) /\ Len(s) \in Nat
           /\ Len(Append(s, m)) = Len(s) + 1
           /\ \A i \in 1..Len(s) : Append(s, m)[i] = s[i]
           /\ Append(s, m)[Len(s) + 1] = m
  OBVIOUS

\* The first message of an inbox is taken.
LEMMA TailFacts ==
    ASSUME NEW s \in Seq(Message), s # << >>
    PROVE  /\ Tail(s) \in Seq(Message) /\ Len(s) \in Nat /\ 1 \in 1..Len(s)
           /\ Head(s) = s[1] /\ s[1] \in Message
           /\ Len(Tail(s)) = Len(s) - 1
           /\ \A i \in 1..Len(Tail(s)) : i + 1 \in 1..Len(s) /\ Tail(s)[i] = s[i + 1]
  OBVIOUS

-----------------------------------------------------------------------------
(* What the steps of a handler do to the messages under way.               *)

\* m is sent to the processes in S: by publish to all, by MQTT_info::send to one.
LEMMA SendPost ==
    ASSUME NEW bx, NEW ps, NEW u, Post(bx, ps, u), NEW m \in Message,
           NEW S \in SUBSET Procs,
           \A q \in S : u[q] = "on" /\ Valid(m, q, ps, u),
           \A q \in S : m.what = "sv" /\ u[m.from] = "on"
                            => Announced(bx[q], Len(bx[q]) + 1, q, m.from, ps),
           NEW b2, b2 = [q \in Procs |-> IF q \in S THEN Append(bx[q], m) ELSE bx[q]]
    PROVE  Post(b2, ps, u)
  <1>1. bx \in [Procs -> Seq(Message)]
    BY DEF Post, Boxes
  <1>2. \A q \in Procs :
           /\ q \in S => b2[q] = Append(bx[q], m)
           /\ q \notin S => b2[q] = bx[q]
    OBVIOUS
  <1>3. b2 \in [Procs -> Seq(Message)]
    <2>1. ASSUME NEW q \in Procs  PROVE (IF q \in S THEN Append(bx[q], m) ELSE bx[q]) \in Seq(Message)
      BY <1>1, AppendFacts
    <2> QED  BY <2>1
  <1>4. ASSUME NEW q \in Procs, NEW i \in 1..Len(b2[q])
        PROVE  \/ i \in 1..Len(bx[q]) /\ b2[q][i] = bx[q][i]
               \/ i = Len(bx[q]) + 1 /\ b2[q][i] = m /\ q \in S
    <2>1. CASE q \in S
      <3>1. bx[q] \in Seq(Message) /\ b2[q] = Append(bx[q], m)
        BY <2>1, <1>1, <1>2
      <3>2. i \in 1..Len(bx[q]) \/ i = Len(bx[q]) + 1
        BY <3>1, AppendFacts
      <3> QED  BY <2>1, <3>1, <3>2, AppendFacts
    <2>2. CASE q \notin S
      BY <2>2, <1>2
    <2> QED  BY <2>1, <2>2
  <1>5. ASSUME NEW q \in Procs, NEW i \in 1..Len(bx[q])
        PROVE  b2[q][i] = bx[q][i] /\ bx[q] \in Seq(Message)
    BY <1>1, <1>2, AppendFacts
  <1>6. \A q \in Procs : b2[q] # << >> => u[q] = "on"
    BY <1>2 DEF Post, Boxes
  <1>7. ASSUME NEW q \in Procs, NEW i \in 1..Len(b2[q])
        PROVE  Valid(b2[q][i], q, ps, u)
    <2>1. CASE i \in 1..Len(bx[q]) /\ b2[q][i] = bx[q][i]
      BY <2>1 DEF Post, Boxes
    <2>2. CASE i = Len(bx[q]) + 1 /\ b2[q][i] = m /\ q \in S
      BY <2>2
    <2> QED  BY <1>4, <2>1, <2>2
  <1>8. ASSUME NEW q \in Procs, NEW i \in 1..Len(b2[q]),
               b2[q][i].what = "sv", u[b2[q][i].from] = "on"
        PROVE  Announced(b2[q], i, q, b2[q][i].from, ps)
    <2> DEFINE f == b2[q][i].from
    <2>1. bx[q] \in Seq(Message) /\ Len(bx[q]) \in Nat
      BY <1>1
    <2>2. Announced(bx[q], i, q, f, ps) /\ i \in 1..(Len(bx[q]) + 1)
      <3>1. CASE i \in 1..Len(bx[q]) /\ b2[q][i] = bx[q][i]
        BY <3>1, <1>8, <2>1 DEF Post, Introduced
      <3>2. CASE i = Len(bx[q]) + 1 /\ b2[q][i] = m /\ q \in S
        BY <3>2, <1>8, <2>1
      <3> QED  BY <1>4, <3>1, <3>2
    <2> HIDE DEF f
    <2>3. ASSUME NEW j \in 1..(i - 1)  PROVE b2[q][j] = bx[q][j]
      <3>1. j \in 1..Len(bx[q])
        BY <2>1, <2>2
      <3> QED  BY <3>1, <1>5
    <2>4. Announced(b2[q], i, q, f, ps)
      BY <2>2, <2>3 DEF Announced
    <2> QED  BY <2>4 DEF f
  <1>9. Boxes(b2, ps, u) /\ Introduced(b2, ps, u)
    BY <1>3, <1>6, <1>7, <1>8 DEF Boxes, Introduced
  <1> QED  BY <1>9 DEF Post

\* MQTTcomm::deliver takes the first message; if it introduces its sender, that one
\* has become known.
LEMMA TakePost ==
    ASSUME NEW bx, NEW ps, NEW u, Post(bx, ps, u), NEW p \in Procs, bx[p] # << >>,
           Head(bx[p]).what = "mqtt/dy" /\ u[Head(bx[p]).from] = "on"
               => Head(bx[p]).from \in ps[p]
    PROVE  Post([bx EXCEPT ![p] = Tail(@)], ps, u)
  <1> DEFINE b2 == [bx EXCEPT ![p] = Tail(@)]
             s == bx[p]
  <1>1. bx \in [Procs -> Seq(Message)] /\ s \in Seq(Message)
    BY DEF Post, Boxes
  <1>2. b2[p] = Tail(s) /\ \A q \in Procs : q # p => b2[q] = bx[q]
    BY <1>1
  <1>3. b2 \in [Procs -> Seq(Message)]
    BY <1>1, TailFacts
  <1>4. /\ Len(s) \in Nat /\ Len(Tail(s)) = Len(s) - 1 /\ Head(s) = s[1]
        /\ \A i \in 1..Len(Tail(s)) : i + 1 \in 1..Len(s) /\ Tail(s)[i] = s[i + 1]
    BY <1>1, TailFacts
  <1>5. u[p] = "on"
    BY DEF Post, Boxes
  <1> HIDE DEF b2
  <1>6. \A q \in Procs : b2[q] # << >> => u[q] = "on"
    BY <1>2, <1>5 DEF Post, Boxes
  <1>7. ASSUME NEW q \in Procs, NEW i \in 1..Len(b2[q])
        PROVE  Valid(b2[q][i], q, ps, u)
    <2>1. CASE q = p
      BY <2>1, <1>2, <1>4 DEF Post, Boxes
    <2>2. CASE q # p
      BY <2>2, <1>2 DEF Post, Boxes
    <2> QED  BY <2>1, <2>2
  <1>8. ASSUME NEW q \in Procs, NEW i \in 1..Len(b2[q]),
               b2[q][i].what = "sv", u[b2[q][i].from] = "on"
        PROVE  Announced(b2[q], i, q, b2[q][i].from, ps)
    <2>1. CASE q # p
      BY <2>1, <1>2, <1>8 DEF Post, Introduced
    <2>2. CASE q = p
      <3> DEFINE f == b2[q][i].from
      <3>1. /\ i \in 1..Len(Tail(s)) /\ i + 1 \in 1..Len(s)
            /\ s[i + 1].what = "sv" /\ s[i + 1].from = f /\ u[f] = "on"
        BY <2>2, <1>2, <1>4, <1>8
      <3> HIDE DEF f
      <3>2. Announced(s, i + 1, p, f, ps)
        BY <3>1 DEF Post, Introduced
      <3>3. CASE f \in ps[p]
        BY <3>3, <2>2 DEF Announced, f
      <3>4. CASE f \notin ps[p]
        <4>1. PICK j \in 1..i : s[j].what = "mqtt/dy" /\ s[j].from = f
          BY <3>2, <3>4, <3>1 DEF Announced
        <4>2. j # 1
          BY <4>1, <3>1, <3>4, <1>4
        <4>3. j - 1 \in 1..(i - 1) /\ j - 1 \in 1..Len(Tail(s)) /\ (j - 1) + 1 = j
          BY <4>2, <3>1, <1>4
        <4>4. b2[q][j - 1] = s[j]
          BY <4>3, <2>2, <1>2, <1>4
        <4> QED  BY <4>1, <4>3, <4>4 DEF Announced, f
      <3> QED  BY <3>3, <3>4
    <2> QED  BY <2>1, <2>2
  <1>9. Boxes(b2, ps, u) /\ Introduced(b2, ps, u)
    BY <1>3, <1>6, <1>7, <1>8 DEF Boxes, Introduced
  <1> QED  BY <1>9 DEF Post, b2

\* create_mqtt_connection: q becomes known to p.
LEMMA AddPost ==
    ASSUME NEW bx, NEW ps, NEW u, Post(bx, ps, u), NEW p \in Procs, NEW q \in Procs
    PROVE  Post(bx, [ps EXCEPT ![p] = @ \cup {q}], u)
  <1> DEFINE p2 == [ps EXCEPT ![p] = @ \cup {q}]
  <1>1. ps \in [Procs -> SUBSET Procs] /\ u \in [Procs -> {"off", "on", "gone", "dead"}]
    BY DEF Post, Types
  <1>2. p2 \in [Procs -> SUBSET Procs] /\ \A r \in Procs : ps[r] \subseteq p2[r]
    BY <1>1
  <1> HIDE DEF p2
  <1>3. ASSUME NEW r \in Procs, NEW i \in 1..Len(bx[r])
        PROVE  Valid(bx[r][i], r, p2, u) /\ bx[r][i] \in Message
    <2>1. Valid(bx[r][i], r, ps, u) /\ bx[r][i] \in Message
      BY DEF Post, Boxes
    <2>2. bx[r][i].from \in Procs
      BY <2>1 DEF Message
    <2> QED  BY <2>1, <2>2, <1>2 DEF Valid
  <1>4. Boxes(bx, p2, u)
    BY <1>3 DEF Post, Boxes
  <1>5. Introduced(bx, p2, u)
    BY <1>2 DEF Post, Introduced, Announced
  <1> QED  BY <1>1, <1>2, <1>4, <1>5 DEF Post, Types, p2

\* MQTT_info::~MQTT_info for processes that have left.
LEMMA ForgetPost ==
    ASSUME NEW bx, NEW ps, NEW u, Post(bx, ps, u), NEW p \in Procs,
           NEW gone \in SUBSET Procs, \A q \in gone : Left(u, q)
    PROVE  Post(bx, [ps EXCEPT ![p] = @ \ gone], u)
  <1> DEFINE p2 == [ps EXCEPT ![p] = @ \ gone]
  <1>1. ps \in [Procs -> SUBSET Procs] /\ u \in [Procs -> {"off", "on", "gone", "dead"}]
    BY DEF Post, Types
  <1>2. /\ p2 \in [Procs -> SUBSET Procs]
        /\ \A r \in Procs : \A q \in ps[r] : u[q] = "on" => q \in p2[r]
    BY <1>1 DEF Left
  <1> HIDE DEF p2
  <1>3. ASSUME NEW r \in Procs, NEW i \in 1..Len(bx[r])
        PROVE  Valid(bx[r][i], r, p2, u)
    <2>1. Valid(bx[r][i], r, ps, u) /\ bx[r][i] \in Message /\ bx[r] \in Seq(Message)
      BY DEF Post, Boxes
    <2>2. bx[r] # << >>
      BY <2>1
    <2>3. u[r] = "on" /\ bx[r][i].from \in Procs
      BY <2>1, <2>2 DEF Message, Post, Boxes
    <2> QED  BY <2>1, <2>3, <1>2 DEF Valid
  <1>4. Boxes(bx, p2, u)
    BY <1>3 DEF Post, Boxes
  <1>5. Introduced(bx, p2, u)
    BY <1>2 DEF Post, Introduced, Announced
  <1> QED  BY <1>1, <1>2, <1>4, <1>5 DEF Post, Types, p2

\* p ends, with or without a /bye.
LEMMA LeavePost ==
    ASSUME NEW bx, NEW ps, NEW u, Post(bx, ps, u), NEW p \in Procs,
           NEW s \in {"gone", "dead"}
    PROVE  Post([bx EXCEPT ![p] = << >>], [ps EXCEPT ![p] = {}], [u EXCEPT ![p] = s])
  <1> DEFINE b2 == [bx EXCEPT ![p] = << >>]
             p2 == [ps EXCEPT ![p] = {}]
             u2 == [u EXCEPT ![p] = s]
  <1>1. /\ ps \in [Procs -> SUBSET Procs] /\ bx \in [Procs -> Seq(Message)]
        /\ u \in [Procs -> {"off", "on", "gone", "dead"}]
    BY DEF Post, Types, Boxes
  <1>2. /\ p2 \in [Procs -> SUBSET Procs] /\ b2 \in [Procs -> Seq(Message)]
        /\ u2 \in [Procs -> {"off", "on", "gone", "dead"}]
        /\ b2[p] = << >> /\ u2[p] = s
        /\ \A r \in Procs : r # p => b2[r] = bx[r] /\ p2[r] = ps[r] /\ u2[r] = u[r]
    BY <1>1
  <1> HIDE DEF b2, p2, u2
  <1>3. \A r \in Procs : b2[r] # << >> => r # p /\ u2[r] = "on"
    BY <1>2 DEF Post, Boxes
  <1>4. ASSUME NEW r \in Procs, NEW i \in 1..Len(b2[r])
        PROVE  /\ r # p /\ b2[r] = bx[r] /\ i \in 1..Len(bx[r])
               /\ bx[r][i].from \in Procs
    <2>1. r # p
      BY <1>2
    <2>2. bx[r][i] \in Message
      BY <2>1, <1>1, <1>2
    <2> QED  BY <2>1, <2>2, <1>2 DEF Message
  <1>5. ASSUME NEW r \in Procs, NEW i \in 1..Len(b2[r])
        PROVE  Valid(b2[r][i], r, p2, u2)
    <2>1. Valid(bx[r][i], r, ps, u)
      BY <1>4 DEF Post, Boxes
    <2>2. CASE bx[r][i].from = p
      BY <2>1, <2>2, <1>2, <1>4 DEF Valid, Left
    <2>3. CASE bx[r][i].from # p
      BY <2>1, <2>3, <1>2, <1>4 DEF Valid, Left
    <2> QED  BY <2>2, <2>3
  <1>6. ASSUME NEW r \in Procs, NEW i \in 1..Len(b2[r]),
               b2[r][i].what = "sv", u2[b2[r][i].from] = "on"
        PROVE  Announced(b2[r], i, r, b2[r][i].from, p2)
    <2>1. bx[r][i].from # p /\ u[bx[r][i].from] = "on" /\ bx[r][i].what = "sv"
      BY <1>2, <1>4, <1>6
    <2>2. Announced(bx[r], i, r, bx[r][i].from, ps)
      BY <2>1, <1>4 DEF Post, Introduced
    <2> QED  BY <2>2, <1>2, <1>4 DEF Announced
  <1>7. Boxes(b2, p2, u2) /\ Introduced(b2, p2, u2)
    BY <1>2, <1>3, <1>5, <1>6 DEF Boxes, Introduced
  <1> QED  BY <1>2, <1>7 DEF Post, Types, b2, p2, u2

\* p has subscribed.
LEMMA JoinPost ==
    ASSUME NEW bx, NEW ps, NEW u, Post(bx, ps, u), NEW p \in Procs, u[p] = "off"
    PROVE  Post(bx, ps, [u EXCEPT ![p] = "on"])
  <1> DEFINE u2 == [u EXCEPT ![p] = "on"]
  <1>1. /\ ps \in [Procs -> SUBSET Procs] /\ bx \in [Procs -> Seq(Message)]
        /\ u \in [Procs -> {"off", "on", "gone", "dead"}]
    BY DEF Post, Types, Boxes
  <1>2. /\ u2 \in [Procs -> {"off", "on", "gone", "dead"}]
        /\ \A r \in Procs : r # p => u2[r] = u[r]
        /\ u2[p] = "on"
    BY <1>1
  <1> HIDE DEF u2
  <1>3. \A r \in Procs : bx[r] # << >> => u2[r] = "on"
    BY <1>2 DEF Post, Boxes
  <1>4. ASSUME NEW r \in Procs, NEW i \in 1..Len(bx[r])
        PROVE  /\ Valid(bx[r][i], r, ps, u) /\ bx[r][i].from \in Procs
               /\ bx[r][i].from # p
    <2>1. Valid(bx[r][i], r, ps, u) /\ bx[r][i] \in Message
      BY DEF Post, Boxes
    <2> QED  BY <2>1 DEF Message, Valid
  <1>5. ASSUME NEW r \in Procs, NEW i \in 1..Len(bx[r])
        PROVE  Valid(bx[r][i], r, ps, u2)
    BY <1>2, <1>4 DEF Valid, Left
  <1>6. Introduced(bx, ps, u2)
    BY <1>2, <1>4 DEF Post, Introduced
  <1> QED  BY <1>1, <1>2, <1>3, <1>5, <1>6 DEF Post, Types, Boxes, u2

\* MQTT_info::send: nothing is sent to a process that is not there.
LEMMA ToProcPost ==
    ASSUME NEW bx, NEW ps, Post(bx, ps, up), NEW p \in Procs, NEW q \in Procs,
           NEW what \in {"mqtt/dy", "callback", "sv"},
           On(q) => Valid([what |-> what, from |-> p], q, ps, up),
           On(q) /\ what = "sv" => Announced(bx[q], Len(bx[q]) + 1, q, p, ps)
    PROVE  Post(ToProc(bx, p, q, what), ps, up)
  <1> DEFINE m == [what |-> what, from |-> p]
             S == {q}
             b2 == [r \in Procs |-> IF r \in S THEN Append(bx[r], m) ELSE bx[r]]
  <1>1. CASE ~On(q)
    BY <1>1 DEF ToProc
  <1>2. CASE On(q)
    <2>1. bx \in [Procs -> Seq(Message)] /\ m \in Message
      BY DEF Post, Boxes, Message
    <2>2. ToProc(bx, p, q, what) = b2
      BY <1>2, <2>1 DEF ToProc
    <2>3. up[q] = "on" /\ m.what = what /\ m.from = p
      BY <1>2 DEF On
    <2> HIDE DEF m, b2
    <2>4. S \in SUBSET Procs /\ \A r \in S : up[r] = "on" /\ Valid(m, r, ps, up)
      BY <1>2, <2>3 DEF m
    <2>5. \A r \in S : m.what = "sv" /\ up[m.from] = "on"
                            => Announced(bx[r], Len(bx[r]) + 1, r, m.from, ps)
      BY <1>2, <2>3
    <2>6. Post(b2, ps, up)
      <3>1. b2 = [r \in Procs |-> IF r \in S THEN Append(bx[r], m) ELSE bx[r]]
        BY DEF b2
      <3> HIDE DEF S
      <3> QED  BY <3>1, <2>1, <2>4, <2>5, SendPost
    <2> QED  BY <2>2, <2>6
  <1> QED  BY <1>1, <1>2

\* A step establishes the parts of the invariant in terms of the old addresses.
LEMMA StepIInv ==
    ASSUME IInv, net' = net, Post(inbox', Fresh(procs', expired'), up'), Known(procs', expired', up'),
           \A pair \in tcp' : \E p, q \in Procs : p # q /\ pair = {p, q} /\ ByTcp(p, q),
           checking' \subseteq {p \in Procs : up'[p] = "on"},
           \A o \in orphans' : o \in Procs \X Procs /\ Left(up', o[2])
    PROVE  IInv'
  <1>1. Post(inbox, Fresh(procs, expired), up)'
    <2> DEFINE F == Fresh(procs, expired)
    <2>0. F' = Fresh(procs', expired')
      BY DEF Fresh
    <2> HIDE DEF F
    <2>1. Types(F, up)'
      BY <2>0 DEF Post, Types
    <2>2. Boxes(inbox, F, up)'
      <3>1. Boxes(inbox', F', up')
        BY <2>0 DEF Post
      <3>2. ASSUME NEW p \in Procs, NEW i \in 1..Len(inbox'[p])
            PROVE  Valid(inbox[p][i], p, F, up)'
        <4>1. Valid(inbox'[p][i], p, F', up')
          BY <3>1 DEF Boxes
        <4> QED  BY <4>1 DEF Valid, ByTcp, Left, Unrefreshed
      <3> QED  BY <3>1, <3>2 DEF Boxes, Message
    <2>3. Introduced(inbox, F, up)'
      <3>1. Introduced(inbox', F', up')
        BY <2>0 DEF Post
      <3> QED  BY <3>1 DEF Introduced, Announced
    <2> QED  BY <2>1, <2>2, <2>3 DEF Post, F
  <1>2. Known(procs, expired, up)'
    BY DEF Known, ByTcp, Left, Unrefreshed
  <1>3. Pairs'
    BY DEF Pairs, ByTcp
  <1>4. (checking \subseteq {p \in Procs : On(p)})'
    BY DEF On
  <1>5. (\A o \in orphans : o \in Procs \X Procs /\ Left(up, o[2]))'
    BY DEF Left
  <1> QED  BY <1>1, <1>2, <1>3, <1>4, <1>5 DEF IInv

\* No process has subscribed yet.
LEMMA InitIInv == Init => IInv
  <1> SUFFICES ASSUME Init  PROVE IInv
    OBVIOUS
  <1>1. Types(Fresh(procs, expired), up) /\ inbox \in [Procs -> Seq(Message)]
    BY DEF Init, Types, Fresh
  <1>2. \A p \in Procs : inbox[p] = << >> /\ procs[p] = {} /\ expired[p] = {}
    BY DEF Init
  <1>3. Post(inbox, Fresh(procs, expired), up)
    BY <1>1, <1>2 DEF Post, Boxes, Introduced
  <1>4. Known(procs, expired, up)
    BY <1>2 DEF Init, Known
  <1> QED  BY <1>3, <1>4 DEF Init, IInv, Pairs

\* What a process knows when a message comes to it.
LEMMA HeadFacts ==
    ASSUME IInv, NEW p \in Procs, inbox[p] # << >>
    PROVE  /\ Head(inbox[p]) \in Message /\ Valid(Head(inbox[p]), p, Fresh(procs, expired), up)
           /\ up[p] = "on" /\ Head(inbox[p]).from \in Procs
           /\ Head(inbox[p]).what = "sv" /\ up[Head(inbox[p]).from] = "on"
                  => Head(inbox[p]).from \in procs[p]
  <1>1. inbox[p] \in Seq(Message) /\ up[p] = "on"
    BY DEF IInv, Post, Boxes
  <1>2. 1 \in 1..Len(inbox[p]) /\ Head(inbox[p]) = inbox[p][1] /\ inbox[p][1] \in Message
    BY <1>1, TailFacts
  <1>3. Valid(inbox[p][1], p, Fresh(procs, expired), up)
    BY <1>2 DEF IInv, Post, Boxes
  <1>4. inbox[p][1].what = "sv" /\ up[inbox[p][1].from] = "on"
            => inbox[p][1].from \in Fresh(procs, expired)[p]
    BY <1>2 DEF IInv, Post, Introduced, Announced
  <1>5. Fresh(procs, expired)[p] \subseteq procs[p]
    BY DEF Fresh
  <1> QED  BY <1>1, <1>2, <1>3, <1>4, <1>5 DEF Message

\* Processes that use the broker are not joined by TCP.
LEMMA NotJoined ==
    ASSUME IInv, NEW p \in Procs, NEW q \in Procs, ~ByTcp(p, q)
    PROVE  ~Joined(p, q)
  <1> SUFFICES ASSUME {p, q} \in tcp  PROVE FALSE
    BY DEF Joined
  <1>1. PICK a \in Procs, b \in Procs : a # b /\ {p, q} = {a, b} /\ ByTcp(a, b)
    BY DEF IInv, Pairs
  <1>2. \/ a = p /\ b = q
        \/ a = q /\ b = p
    BY <1>1
  <1> QED  BY <1>1, <1>2, ByTcpSymmetric

\* create_mqtt_connection, for a discovery message or for !_o2/mqtt/dy.
LEMMA CreateStep ==
    ASSUME IInv, NEW p \in Procs, inbox[p] # << >>, NEW from_disc \in BOOLEAN,
           Head(inbox[p]).what = IF from_disc THEN "disc" ELSE "mqtt/dy",
           Head(inbox[p]).from # p, ~ByTcp(p, Head(inbox[p]).from),
           from_disc => ~Unrefreshed(p, Head(inbox[p]).from),
           create_mqtt_connection([inbox EXCEPT ![p] = Tail(@)], p,
                                  Head(inbox[p]).from, from_disc),
           UNCHANGED <<net, up, checking, orphans>>
    PROVE  IInv'
  <1> DEFINE q == Head(inbox[p]).from
             box == [inbox EXCEPT ![p] = Tail(@)]
             F == Fresh(procs, expired)
             ps == [F EXCEPT ![p] = @ \cup {q}]
  <1>1. /\ q \in Procs /\ up[p] = "on" /\ Valid(Head(inbox[p]), p, F, up)
    BY HeadFacts
  <1>2. ~Joined(p, q)
    BY <1>1, NotJoined
  <1>3. Post(inbox, F, up) /\ Known(procs, expired, up)
    BY DEF IInv
  <1>4. /\ procs \in [Procs -> SUBSET Procs] /\ expired \in [Procs -> SUBSET Procs]
        /\ F \in [Procs -> SUBSET Procs] /\ expired[p] \subseteq procs[p]
        /\ up \in [Procs -> {"off", "on", "gone", "dead"}]
        /\ inbox \in [Procs -> Seq(Message)]
    BY <1>3 DEF Post, Types, Boxes, Known
  <1>a. /\ Post(inbox, ps, up) /\ q \in ps[p]
        /\ \A r \in Procs : r # p => ps[r] = F[r]
    <2> HIDE DEF q, F
    <2> QED  BY <1>1, <1>3, <1>4, AddPost
  <1>n. /\ q # p /\ ~ByTcp(p, q) /\ up[q] # "off" /\ (from_disc => ~Unrefreshed(p, q))
    BY <1>1 DEF Valid
  <1>b. Post(box, ps, up)
    <2> HIDE DEF ps
    <2> QED  BY <1>a, TakePost
  <1>f. CASE q \in procs[p]
    <2>1. /\ expired' = [expired EXCEPT ![p] = @ \ {q}] /\ inbox' = box
          /\ procs' = procs /\ tcp' = tcp
      BY <1>f DEF create_mqtt_connection
    <2> HIDE DEF q, box
    <2>2. Fresh(procs', expired') = ps
      <3>1. \A r \in Procs : procs'[r] \ expired'[r]
                               = IF r = p THEN F[p] \cup {q} ELSE F[r]
        BY <1>4, <1>f, <2>1 DEF Fresh
      <3>2. ps = [r \in Procs |-> IF r = p THEN F[p] \cup {q} ELSE F[r]]
        BY <1>4
      <3> QED  BY <3>1, <3>2 DEF Fresh
    <2> HIDE DEF F, ps
    <2>3. Known(procs', expired', up)
      BY <1>3, <1>4, <2>1 DEF Known
    <2>4. Post(inbox', Fresh(procs', expired'), up')
      BY <1>b, <2>1, <2>2
    <2> QED  BY <2>1, <2>3, <2>4, StepIInv DEF IInv, Pairs, On
  <1>g. CASE q \notin procs[p]
    <2> DEFINE b1 == IF from_disc THEN ToProc(box, p, q, "mqtt/dy") ELSE box
               b2 == ToProc(b1, p, q, "sv")
    <2>1. /\ procs' = [procs EXCEPT ![p] = @ \cup {q}] /\ inbox' = b2
          /\ expired' = expired /\ tcp' = tcp
      BY <1>2, <1>g DEF create_mqtt_connection
    <2>t. ~from_disc /\ On(q) => p \in F[q]
      BY <1>1 DEF Valid, On
    <2> HIDE DEF q, box
    <2>2. Fresh(procs', expired') = ps
      <3>1. \A r \in Procs : procs'[r] \ expired'[r]
                               = IF r = p THEN F[p] \cup {q} ELSE F[r]
        BY <1>1, <1>4, <1>g, <2>1 DEF Fresh
      <3>2. ps = [r \in Procs |-> IF r = p THEN F[p] \cup {q} ELSE F[r]]
        BY <1>4
      <3> QED  BY <3>1, <3>2 DEF Fresh
    <2> HIDE DEF F, ps
    <2>5. /\ p # q /\ up[p] # "off" /\ ~ByTcp(q, p) /\ q \in ps[p]
          /\ up[p] \notin {"gone", "dead"}
      BY <1>1, <1>a, <1>n, ByTcpSymmetric
    <2>6. Post(b1, ps, up)
      <3>1. CASE from_disc
        <4>1. Valid([what |-> "mqtt/dy", from |-> p], q, ps, up)
          BY <2>5, <1>n, <3>1 DEF Valid
        <4> QED  BY <3>1, <4>1, <1>b, <1>1, ToProcPost
      <3>2. CASE ~from_disc
        BY <3>2, <1>b
      <3> QED  BY <3>1, <3>2
    <2>7. On(q) => Announced(b1[q], Len(b1[q]) + 1, q, p, ps)
      <3> SUFFICES ASSUME On(q)  PROVE Announced(b1[q], Len(b1[q]) + 1, q, p, ps)
        OBVIOUS
      <3>1. CASE ~from_disc
        <4>1. p \in ps[q]
          BY <3>1, <2>t, <1>a, <1>1, <2>5
        <4> QED  BY <4>1 DEF Announced
      <3>2. CASE from_disc
        <4>1. box \in [Procs -> Seq(Message)]
          BY <1>b DEF Post, Boxes
        <4>2. [what |-> "mqtt/dy", from |-> p] \in Message /\ box[q] \in Seq(Message)
          BY <4>1, <1>1 DEF Message
        <4>3. b1[q] = Append(box[q], [what |-> "mqtt/dy", from |-> p])
          BY <3>2, <4>1, <1>1 DEF ToProc
        <4> HIDE DEF b1
        <4>4. /\ Len(b1[q]) = Len(box[q]) + 1 /\ Len(box[q]) \in Nat
              /\ b1[q][Len(box[q]) + 1] = [what |-> "mqtt/dy", from |-> p]
          BY <4>2, <4>3, AppendFacts
        <4>5. Len(box[q]) + 1 \in 1..((Len(b1[q]) + 1) - 1)
          BY <4>4
        <4> QED  BY <4>4, <4>5 DEF Announced
      <3> QED  BY <3>1, <3>2
    <2> HIDE DEF b1
    <2>8. Post(b2, ps, up)
      <3>1. Valid([what |-> "sv", from |-> p], q, ps, up)
        BY <2>5 DEF Valid
      <3> QED  BY <3>1, <2>6, <2>7, <1>1, ToProcPost
    <2>9. Known(procs', expired', up)
      <3>1. /\ procs' \in [Procs -> SUBSET Procs]
            /\ \A r \in Procs : \A s \in procs'[r] : s \in procs[r] \/ (r = p /\ s = q)
            /\ \A r \in Procs : procs[r] \subseteq procs'[r]
        BY <1>1, <1>4, <2>1
      <3> QED  BY <1>3, <1>n, <2>1, <3>1 DEF Known
    <2> HIDE DEF b2
    <2>10. Post(inbox', Fresh(procs', expired'), up')
      BY <2>1, <2>2, <2>8
    <2> QED  BY <2>1, <2>9, <2>10, StepIInv DEF IInv, Pairs, On
  <1> QED  BY <1>f, <1>g

\* A message is taken that changes nothing here but the TCP connections, or makes
\* discovery send a callback.
LEMMA TakeStep ==
    ASSUME IInv, NEW p \in Procs, inbox[p] # << >>, Head(inbox[p]).what # "mqtt/dy",
           inbox' = [inbox EXCEPT ![p] = Tail(@)],
           UNCHANGED <<net, up, procs, expired, checking>>,
           \A pair \in tcp' : \E a, b \in Procs : a # b /\ pair = {a, b} /\ ByTcp(a, b),
           \A o \in orphans' : o \in Procs \X Procs /\ Left(up, o[2])
    PROVE  IInv'
  <1>1. Post(inbox, Fresh(procs, expired), up) /\ Known(procs, expired, up)
        /\ checking \subseteq {r \in Procs : up[r] = "on"}
    BY DEF IInv, On
  <1>2. Post(inbox', Fresh(procs, expired), up)
    BY <1>1, TakePost
  <1> QED  BY <1>1, <1>2, StepIInv

\* Discovery joins the two by TCP, after a name or an O2_DY_CALLBACK was received.
LEMMA DiscoveredStep ==
    ASSUME IInv, NEW p \in Procs, inbox[p] # << >>, Head(inbox[p]).what # "mqtt/dy",
           Head(inbox[p]).from # p, ByTcp(p, Head(inbox[p]).from),
           discovered([inbox EXCEPT ![p] = Tail(@)], p, Head(inbox[p]).from),
           UNCHANGED <<net, up, checking, orphans>>
    PROVE  IInv'
  <1> DEFINE q == Head(inbox[p]).from
  <1>1. q \in Procs /\ q # p /\ ByTcp(p, q)
    BY HeadFacts
  <1>2. /\ tcp' \subseteq tcp \cup {{p, q}}
        /\ inbox' = [inbox EXCEPT ![p] = Tail(@)] /\ procs' = procs /\ expired' = expired
    BY DEF discovered
  <1> HIDE DEF q
  <1>3. \A pair \in tcp' : \E a, b \in Procs : a # b /\ pair = {a, b} /\ ByTcp(a, b)
    <2> SUFFICES ASSUME NEW pair \in tcp'
                 PROVE  \E a, b \in Procs : a # b /\ pair = {a, b} /\ ByTcp(a, b)
      OBVIOUS
    <2>1. CASE pair \in tcp
      BY <2>1 DEF IInv, Pairs
    <2>2. CASE pair = {p, q}
      BY <2>2, <1>1
    <2> QED  BY <2>1, <2>2, <1>2
  <1>4. \A o \in orphans' : o \in Procs \X Procs /\ Left(up, o[2])
    BY DEF IInv
  <1> QED  BY <1>2, <1>3, <1>4, TakeStep

\* send_callback_via_mqtt: the other process is to make the TCP connection.
LEMMA CallbackStep ==
    ASSUME IInv, NEW p \in Procs, inbox[p] # << >>, Head(inbox[p]).what # "mqtt/dy",
           Head(inbox[p]).from # p, ByTcp(p, Head(inbox[p]).from),
           send_callback_via_mqtt([inbox EXCEPT ![p] = Tail(@)], p, Head(inbox[p]).from),
           UNCHANGED <<net, up, checking, orphans>>
    PROVE  IInv'
  <1> DEFINE q == Head(inbox[p]).from
             box == [inbox EXCEPT ![p] = Tail(@)]
  <1>1. q \in Procs /\ q # p /\ ByTcp(q, p) /\ up[p] = "on"
    BY HeadFacts, ByTcpSymmetric
  <1>2. /\ tcp' = tcp /\ inbox' = ToProc(box, p, q, "callback")
        /\ procs' = procs /\ expired' = expired
    BY DEF send_callback_via_mqtt
  <1> DEFINE F == Fresh(procs, expired)
  <1>3. Post(box, F, up) /\ Known(procs, expired, up)
    BY TakePost DEF IInv
  <1> HIDE DEF q, box, F
  <1>4. Valid([what |-> "callback", from |-> p], q, F, up)
    BY <1>1 DEF Valid
  <1>5. Post(inbox', Fresh(procs', expired'), up)
    BY <1>1, <1>2, <1>3, <1>4, ToProcPost DEF F
  <1> QED  BY <1>2, <1>3, <1>5, StepIInv DEF IInv, Pairs, On

\* A name on the discovery topic: whichever case of disc_handler applies, the way it
\* takes is the one the two addresses and names determine.
LEMMA DiscStep ==
    ASSUME IInv, NEW p \in Procs, inbox[p] # << >>, Head(inbox[p]).what = "disc",
           disc_handler([inbox EXCEPT ![p] = Tail(@)], p, Head(inbox[p]).from)
    PROVE  IInv'
  <1> DEFINE q == Head(inbox[p]).from
             box == [inbox EXCEPT ![p] = Tail(@)]
  <1>1. q \in Procs /\ p \in Int /\ q \in Int
    BY HeadFacts, MqttAssumption
  <1>2. UNCHANGED <<net, up, checking, orphans>>
    BY DEF disc_handler
  <1>3. \A o \in orphans : o \in Procs \X Procs /\ Left(up, o[2])
    BY DEF IInv
  <1>t. \A pair \in tcp : \E a, b \in Procs : a # b /\ pair = {a, b} /\ ByTcp(a, b)
    BY DEF IInv, Pairs
  <1>4. ASSUME inbox' = box, UNCHANGED <<procs, expired, tcp>>
        PROVE  IInv'
    BY <1>2, <1>3, <1>t, <1>4, TakeStep
  <1>5. CASE p = q
    BY <1>4, <1>5 DEF disc_handler
  <1>6. CASE p # q
    <2>1. disc_cases(box, p, q)
      BY <1>6 DEF disc_handler
    <2> HIDE DEF q, box
    <2>o. ~(p < q /\ p > q)
      BY <1>1
    <2>2. CASE net[q] = "open" /\ p < q
      <3>1. discovered(box, p, q)
        BY <2>1, <2>2, <2>o DEF disc_cases, Unrefreshed
      <3>2. ByTcp(p, q)
        BY <2>2 DEF ByTcp
      <3> QED  BY <1>2, <1>6, <3>1, <3>2, DiscoveredStep DEF q, box
    <2>3. CASE net[q] = "open" /\ p > q /\ net[p] = "open"
      <3>1. discovered(box, p, q)
        BY <2>1, <2>3, <2>o DEF disc_cases, Unrefreshed
      <3>2. ByTcp(p, q)
        BY <2>3 DEF ByTcp
      <3> QED  BY <1>2, <1>6, <3>1, <3>2, DiscoveredStep DEF q, box
    <2>4. CASE net[q] = "open" /\ p > q /\ net[p] # "open"
      <3>1. create_mqtt_connection(box, p, q, TRUE)
        BY <2>1, <2>4, <2>o DEF disc_cases, Unrefreshed
      <3>2. ~ByTcp(p, q) /\ ~Unrefreshed(p, q)
        BY <2>4, <1>1 DEF ByTcp, Unrefreshed
      <3> QED  BY <1>2, <1>6, <3>1, <3>2, CreateStep DEF q, box
    <2>5. CASE net[q] # "open" /\ net[p] = net[q] /\ p > q
      <3>1. send_callback_via_mqtt(box, p, q)
        BY <2>1, <2>5, <2>o DEF disc_cases, Unrefreshed
      <3>2. ByTcp(p, q)
        BY <2>5 DEF ByTcp
      <3> QED  BY <1>2, <1>6, <3>1, <3>2, CallbackStep DEF q, box
    <2>6. CASE net[q] # "open" /\ net[p] = net[q] /\ p < q
      <3>1. discovered(box, p, q)
        BY <2>1, <2>6, <2>o DEF disc_cases, Unrefreshed
      <3>2. ByTcp(p, q)
        BY <2>6 DEF ByTcp
      <3> QED  BY <1>2, <1>6, <3>1, <3>2, DiscoveredStep DEF q, box
    <2>7. CASE net[q] # "open" /\ net[p] # net[q] /\ p < q
      <3>1. create_mqtt_connection(box, p, q, TRUE)
        BY <2>1, <2>7, <2>o DEF disc_cases, Unrefreshed
      <3>2. ~ByTcp(p, q) /\ ~Unrefreshed(p, q)
        BY <2>7, <1>1, <2>o DEF ByTcp, Unrefreshed
      <3> QED  BY <1>2, <1>6, <3>1, <3>2, CreateStep DEF q, box
    <2>8. CASE net[q] # "open" /\ net[p] = "open" /\ p > q
      <3>1. send_callback_via_mqtt(box, p, q)
        BY <2>1, <2>8, <2>o DEF disc_cases, Unrefreshed
      <3>2. ByTcp(p, q)
        BY <2>8, <1>1 DEF ByTcp
      <3> QED  BY <1>2, <1>6, <3>1, <3>2, CallbackStep DEF q, box
    <2>9. CASE net[q] # "open" /\ net[p] # "open" /\ net[p] # net[q] /\ p > q
      <3>1. inbox' = box /\ UNCHANGED <<procs, expired, tcp>>
        BY <2>1, <2>9, <2>o DEF disc_cases, Unrefreshed
      <3> QED  BY <3>1, <1>4 DEF q, box
    <2> QED  BY <1>1, <1>6, <2>2, <2>3, <2>4, <2>5, <2>6, <2>7, <2>8, <2>9
  <1> QED  BY <1>5, <1>6

\* Processes that have left or were given up are forgotten, by a timeout or a /bye.
LEMMA DeleteStep ==
    ASSUME IInv, NEW p \in Procs, NEW gone \in SUBSET Procs,
           \A q \in gone : Left(up, q) \/ q \in expired[p], delete_procs(p, gone),
           UNCHANGED <<net, up, tcp, orphans>>,
           checking' \subseteq {r \in Procs : up[r] = "on"},
           \/ inbox' = inbox
           \/ /\ inbox[p] # << >> /\ Head(inbox[p]).what # "mqtt/dy"
              /\ inbox' = [inbox EXCEPT ![p] = Tail(@)]
    PROVE  IInv'
  <1> DEFINE F == Fresh(procs, expired)
             left == gone \ expired[p]
  <1>1. Post(inbox, F, up) /\ Known(procs, expired, up)
    BY DEF IInv
  <1>2. Post(inbox', F, up)
    <2> HIDE DEF F
    <2> QED  BY <1>1, TakePost
  <1>3. /\ procs' = [procs EXCEPT ![p] = @ \ gone]
        /\ expired' = [expired EXCEPT ![p] = @ \ gone]
    BY DEF delete_procs
  <1>5. procs \in [Procs -> SUBSET Procs] /\ expired \in [Procs -> SUBSET Procs]
    BY <1>1 DEF Known
  <1>6. Known(procs', expired', up)
    BY <1>1, <1>3, <1>5 DEF Known
  <1>7. Fresh(procs', expired') = [F EXCEPT ![p] = @ \ left]
    <2>1. \A r \in Procs : procs'[r] \ expired'[r] = IF r = p THEN F[p] \ left ELSE F[r]
      BY <1>3, <1>5 DEF Fresh
    <2>2. [F EXCEPT ![p] = @ \ left]
              = [r \in Procs |-> IF r = p THEN F[p] \ left ELSE F[r]]
      BY DEF Fresh
    <2> QED  BY <2>1, <2>2 DEF Fresh
  <1>8. left \in SUBSET Procs /\ \A q \in left : Left(up, q)
    OBVIOUS
  <1>4. Post(inbox', Fresh(procs', expired'), up)
    <2> HIDE DEF F, left
    <2>1. Post(inbox', [F EXCEPT ![p] = @ \ left], up)
      BY <1>2, <1>8, ForgetPost
    <2> QED  BY <2>1, <1>7
  <1> QED  BY <1>4, <1>6, StepIInv DEF IInv, Pairs, On

\* p publishes m on the discovery topic; u is the state in which it is received.
LEMMA ToDiscPost ==
    ASSUME NEW bx, NEW ps, NEW u, Post(bx, ps, u), NEW p \in Procs,
           NEW what \in {"disc", "bye"}, u[p] # "off", what = "bye" => Left(u, p),
           NEW b2, b2 = [q \in Procs |->
                            IF u[q] = "on" THEN Append(bx[q], [what |-> what, from |-> p])
                            ELSE bx[q]]
    PROVE  Post(b2, ps, u)
  <1> DEFINE m == [what |-> what, from |-> p]
             S == {q \in Procs : u[q] = "on"}
  <1>1. m \in Message /\ m.what = what /\ m.from = p /\ S \in SUBSET Procs
    BY DEF Message
  <1>2. b2 = [q \in Procs |-> IF q \in S THEN Append(bx[q], m) ELSE bx[q]]
    OBVIOUS
  <1>3. \A q \in S : u[q] = "on"
    OBVIOUS
  <1> HIDE DEF m, S
  <1>4. \A q \in S : u[q] = "on" /\ Valid(m, q, ps, u)
    BY <1>1, <1>3 DEF Valid
  <1>5. \A q \in S : m.what = "sv" /\ u[m.from] = "on"
                         => Announced(bx[q], Len(bx[q]) + 1, q, m.from, ps)
    BY <1>1
  <1>6. S \in SUBSET Procs /\ m \in Message
    BY <1>1
  <1> QED  BY <1>2, <1>4, <1>5, <1>6, SendPost, ZenonT(60)

\* A process subscribes and sends its first discovery message.
LEMMA InitializeStep ==
    ASSUME IInv, NEW p \in Procs, o2_mqtt_initialize(p)
    PROVE  IInv'
  <1>1. /\ Post(inbox, Fresh(procs, expired), up) /\ Known(procs, expired, up) /\ up[p] = "off"
        /\ up' = [up EXCEPT ![p] = "on"] /\ checking' = checking \cup {p}
        /\ UNCHANGED <<net, procs, expired, tcp, orphans>>
    BY DEF IInv, o2_mqtt_initialize
  <1>2. Post(inbox, Fresh(procs, expired), up')
    BY <1>1, JoinPost
  <1>3. /\ up \in [Procs -> {"off", "on", "gone", "dead"}]
        /\ up'[p] = "on" /\ \A q \in Procs : q # p => up'[q] = up[q]
    BY <1>1 DEF Post, Types
  <1>4. inbox' = [q \in Procs |-> IF up'[q] = "on"
                                   THEN Append(inbox[q], [what |-> "disc", from |-> p])
                                   ELSE inbox[q]]
    BY <1>3 DEF o2_mqtt_initialize, ToDisc, On
  <1>5. Post(inbox', Fresh(procs, expired), up')
    BY <1>2, <1>3, <1>4, ToDiscPost
  <1>6. Known(procs, expired, up')
    <2> QED  BY <1>1, <1>3 DEF Known, Left
  <1>7. checking' \subseteq {r \in Procs : up'[r] = "on"}
    BY <1>1, <1>3 DEF IInv, On
  <1>8. \A o \in orphans : o \in Procs \X Procs /\ Left(up', o[2])
    BY <1>1, <1>3 DEF IInv, Left
  <1> QED  BY <1>1, <1>5, <1>6, <1>7, <1>8, StepIInv DEF IInv, Pairs

\* A process publishes that it is there.
LEMMA PingStep ==
    ASSUME IInv, NEW p \in Procs, mqtt_ping_send(p)
    PROVE  IInv'
  <1>1. /\ Post(inbox, Fresh(procs, expired), up) /\ Known(procs, expired, up) /\ up[p] = "on"
        /\ UNCHANGED <<net, up, procs, expired, tcp, checking, orphans>>
    BY DEF IInv, mqtt_ping_send, On
  <1>2. inbox' = [q \in Procs |-> IF up[q] = "on"
                                   THEN Append(inbox[q], [what |-> "disc", from |-> p])
                                   ELSE inbox[q]]
    BY <1>1 DEF mqtt_ping_send, ToDisc, On
  <1>3. Post(inbox', Fresh(procs, expired), up)
    BY <1>1, <1>2, ToDiscPost
  <1> QED  BY <1>1, <1>3, StepIInv DEF IInv, Pairs, On

\* A process ends; what remains is consistent without it.
LEMMA GonePost ==
    ASSUME IInv, NEW p \in Procs, NEW s \in {"gone", "dead"},
           up' = [up EXCEPT ![p] = s], procs' = [procs EXCEPT ![p] = {}],
           expired' = [expired EXCEPT ![p] = {}], checking' = checking \ {p},
           tcp' = {pair \in tcp : p \notin pair}, UNCHANGED orphans
    PROVE  /\ Post([inbox EXCEPT ![p] = << >>], Fresh(procs', expired'), up')
           /\ Known(procs', expired', up')
           /\ \A pair \in tcp' : \E a, b \in Procs : a # b /\ pair = {a, b} /\ ByTcp(a, b)
           /\ checking' \subseteq {r \in Procs : up'[r] = "on"}
           /\ \A o \in orphans' : o \in Procs \X Procs /\ Left(up', o[2])
           /\ up'[p] = s /\ \A q \in Procs : q # p => up'[q] = up[q]
           /\ inbox \in [Procs -> Seq(Message)]
  <1>1. Post(inbox, Fresh(procs, expired), up) /\ Known(procs, expired, up)
    BY DEF IInv
  <1>2. Post([inbox EXCEPT ![p] = << >>], Fresh(procs', expired'), up')
    <2> DEFINE F == Fresh(procs, expired)
    <2>1. Fresh(procs', expired') = [F EXCEPT ![p] = {}]
      <3>1. procs \in [Procs -> SUBSET Procs] /\ expired \in [Procs -> SUBSET Procs]
        BY <1>1 DEF Known
      <3>2. \A r \in Procs : procs'[r] \ expired'[r] = IF r = p THEN {} ELSE F[r]
        BY <3>1 DEF Fresh
      <3>3. [F EXCEPT ![p] = {}] = [r \in Procs |-> IF r = p THEN {} ELSE F[r]]
        BY DEF Fresh
      <3> QED  BY <3>2, <3>3 DEF Fresh
    <2> HIDE DEF F
    <2>2. Post([inbox EXCEPT ![p] = << >>], [F EXCEPT ![p] = {}], [up EXCEPT ![p] = s])
      BY <1>1, LeavePost DEF F
    <2> QED  BY <2>1, <2>2
  <1>3. /\ up \in [Procs -> {"off", "on", "gone", "dead"}]
        /\ procs \in [Procs -> SUBSET Procs] /\ expired \in [Procs -> SUBSET Procs]
        /\ inbox \in [Procs -> Seq(Message)]
    BY <1>1 DEF Post, Types, Known, Boxes
  <1>4. /\ up'[p] = s /\ procs'[p] = {} /\ expired'[p] = {}
        /\ expired' \in [Procs -> SUBSET Procs]
        /\ \A q \in Procs : q # p => /\ up'[q] = up[q] /\ procs'[q] = procs[q]
                                     /\ expired'[q] = expired[q]
    BY <1>3
  <1>5. \A q \in Procs : /\ Left(up, q) => Left(up', q)
                         /\ up[q] # "off" => up'[q] # "off"
    BY <1>4 DEF Left
  <1>6. Known(procs', expired', up')
    <2>1. ASSUME NEW r \in Procs
          PROVE  /\ procs'[r] \subseteq procs[r] /\ expired'[r] \subseteq expired[r]
                 /\ expired'[r] \subseteq procs'[r]
      BY <1>1, <1>4 DEF Known
    <2>2. \A r \in Procs : procs[r] \subseteq Procs /\ expired[r] \subseteq Procs
      BY <1>3
    <2>3. \A r \in Procs : \A q \in procs'[r] : q # r /\ ~ByTcp(r, q) /\ up'[q] # "off"
      BY <1>1, <1>5, <2>1, <2>2 DEF Known
    <2>4. \A r \in Procs : \A q \in expired'[r] : Left(up', q) \/ Unrefreshed(r, q)
      BY <1>1, <1>5, <2>1, <2>2 DEF Known
    <2>5. procs' \in [Procs -> SUBSET Procs]
      BY <1>3
    <2> QED  BY <1>4, <2>1, <2>3, <2>4, <2>5 DEF Known
  <1>7. checking' \subseteq {r \in Procs : up'[r] = "on"}
    BY <1>4 DEF IInv, On
  <1>8. \A o \in orphans' : o \in Procs \X Procs /\ Left(up', o[2])
    BY <1>5 DEF IInv
  <1> QED  BY <1>2, <1>3, <1>4, <1>6, <1>7, <1>8 DEF IInv, Pairs

\* o2_finish: the others get a /bye.
LEMMA FinishStep ==
    ASSUME IInv, NEW p \in Procs, o2_mqtt_finish(p)
    PROVE  IInv'
  <1> DEFINE b1 == [inbox EXCEPT ![p] = << >>]
             m == [what |-> "bye", from |-> p]
  <1>1. /\ up' = [up EXCEPT ![p] = "gone"] /\ procs' = [procs EXCEPT ![p] = {}]
        /\ expired' = [expired EXCEPT ![p] = {}] /\ checking' = checking \ {p}
        /\ tcp' = {pair \in tcp : p \notin pair} /\ UNCHANGED <<net, orphans>>
        /\ inbox' = [ToDisc(inbox, p, "bye") EXCEPT ![p] = << >>]
    BY DEF o2_mqtt_finish
  <1>2. /\ Post(b1, Fresh(procs', expired'), up') /\ Known(procs', expired', up')
        /\ \A pair \in tcp' : \E a, b \in Procs : a # b /\ pair = {a, b} /\ ByTcp(a, b)
        /\ checking' \subseteq {r \in Procs : up'[r] = "on"}
        /\ \A o \in orphans' : o \in Procs \X Procs /\ Left(up', o[2])
        /\ up'[p] = "gone" /\ \A q \in Procs : q # p => up'[q] = up[q]
        /\ inbox \in [Procs -> Seq(Message)]
    BY <1>1, GonePost
  <1>3. inbox' = [q \in Procs |-> IF up'[q] = "on" THEN Append(b1[q], m) ELSE b1[q]]
    BY <1>1, <1>2 DEF ToDisc, On
  <1> HIDE DEF b1
  <1>4. Post(inbox', Fresh(procs', expired'), up')
    <2>1. up'[p] # "off" /\ Left(up', p) /\ Post(b1, Fresh(procs', expired'), up')
      BY <1>2 DEF Left
    <2>2. "bye" \in {"disc", "bye"}
      OBVIOUS
    <2> QED  BY <1>3, <2>1, <2>2, ToDiscPost
  <1> QED  BY <1>1, <1>2, <1>4, StepIInv

\* A process ends without a /bye, by itself or in the handler of one.
LEMMA CrashStep ==
    ASSUME IInv, NEW p \in Procs, Crash(p)
    PROVE  IInv'
  <1>1. /\ up' = [up EXCEPT ![p] = "dead"] /\ procs' = [procs EXCEPT ![p] = {}]
        /\ expired' = [expired EXCEPT ![p] = {}] /\ checking' = checking \ {p}
        /\ tcp' = {pair \in tcp : p \notin pair} /\ UNCHANGED <<net, orphans>>
        /\ inbox' = [inbox EXCEPT ![p] = << >>]
    BY DEF Crash
  <1>2. /\ Post(inbox', Fresh(procs', expired'), up') /\ Known(procs', expired', up')
        /\ \A pair \in tcp' : \E a, b \in Procs : a # b /\ pair = {a, b} /\ ByTcp(a, b)
        /\ checking' \subseteq {r \in Procs : up'[r] = "on"}
        /\ \A o \in orphans' : o \in Procs \X Procs /\ Left(up', o[2])
    BY <1>1, GonePost
  <1> QED  BY <1>1, <1>2, StepIInv

\* A /bye comes from a process that has left.
LEMMA ByeStep ==
    ASSUME IInv, NEW p \in Procs, inbox[p] # << >>, Head(inbox[p]).what = "bye",
           bye_handler([inbox EXCEPT ![p] = Tail(@)], p, Head(inbox[p]).from)
    PROVE  IInv'
  <1> DEFINE q == Head(inbox[p]).from
             box == [inbox EXCEPT ![p] = Tail(@)]
  <1>1. q \in Procs /\ Left(up, q) /\ up[p] = "on"
    BY HeadFacts DEF Valid
  <1>2. /\ checking \subseteq {r \in Procs : up[r] = "on"} /\ Known(procs, expired, up)
        /\ \A o \in orphans : o \in Procs \X Procs /\ Left(up, o[2])
        /\ \A pair \in tcp : \E a, b \in Procs : a # b /\ pair = {a, b} /\ ByTcp(a, b)
    BY DEF IInv, On, Pairs
  <1> HIDE DEF q
  <1>3. CASE /\ delete_procs(p, {q} \cup expired[p]) /\ checking' = checking \cup {p}
             /\ inbox' = box /\ UNCHANGED <<net, up, tcp, orphans>>
    <2> DEFINE gone == {q} \cup expired[p]
    <2>1. gone \in SUBSET Procs /\ \A r \in gone : Left(up, r) \/ r \in expired[p]
      BY <1>1, <1>2 DEF Known
    <2>2. checking' \subseteq {r \in Procs : up[r] = "on"}
      BY <1>1, <1>2, <1>3
    <2> HIDE DEF gone
    <2>3. delete_procs(p, gone)
      BY <1>3 DEF gone
    <2> QED  BY <1>3, <2>1, <2>2, <2>3, DeleteStep
  <1>4. CASE /\ inbox' = box
             /\ UNCHANGED <<net, up, procs, expired, tcp, checking, orphans>>
    BY <1>2, <1>4, TakeStep
  <1>5. CASE Crash(p)
    BY <1>5, CrashStep
  <1> QED  BY <1>3, <1>4, <1>5 DEF bye_handler, q

\* Services that arrive find their sender known, unless it has left.
LEMMA ServicesStep ==
    ASSUME IInv, NEW p \in Procs, inbox[p] # << >>, Head(inbox[p]).what = "sv",
           services_handler([inbox EXCEPT ![p] = Tail(@)], p, Head(inbox[p]).from)
    PROVE  IInv'
  <1> DEFINE q == Head(inbox[p]).from
  <1>1. /\ q \in Procs /\ up[q] # "off" /\ (up[q] = "on" => q \in procs[p])
    BY HeadFacts DEF Valid
  <1>2. up[q] \in {"off", "on", "gone", "dead"}
    BY <1>1 DEF IInv, Post, Types
  <1>3. /\ inbox' = [inbox EXCEPT ![p] = Tail(@)]
        /\ UNCHANGED <<net, up, procs, expired, tcp, checking>>
        /\ orphans' = orphans \/ (q \notin procs[p] /\ orphans' = orphans \cup {<<p, q>>})
    BY DEF services_handler
  <1> HIDE DEF q
  <1>4. \A o \in orphans' : o \in Procs \X Procs /\ Left(up, o[2])
    <2>1. \A o \in orphans : o \in Procs \X Procs /\ Left(up, o[2])
      BY DEF IInv
    <2>2. q \notin procs[p] => Left(up, q)
      BY <1>1, <1>2 DEF Left
    <2>3. <<p, q>> \in Procs \X Procs /\ <<p, q>>[2] = q
      BY <1>1
    <2> QED  BY <1>3, <2>1, <2>2, <2>3
  <1>5. \A pair \in tcp' : \E a, b \in Procs : a # b /\ pair = {a, b} /\ ByTcp(a, b)
    BY <1>3 DEF IInv, Pairs
  <1> QED  BY <1>3, <1>4, <1>5, TakeStep

\* The handler of whatever message comes next.
LEMMA DeliverStep ==
    ASSUME IInv, NEW p \in Procs, deliver_mqtt_msg(p)
    PROVE  IInv'
  <1> DEFINE m == Head(inbox[p])
             box == [inbox EXCEPT ![p] = Tail(@)]
  <1>1. inbox[p] # << >>
    BY DEF deliver_mqtt_msg
  <1>2. m \in Message /\ m.from \in Procs /\ Valid(m, p, Fresh(procs, expired), up)
    BY <1>1, HeadFacts
  <1>3. CASE m.what = "disc" /\ disc_handler(box, p, m.from)
    BY <1>1, <1>3, DiscStep
  <1>4. CASE m.what = "bye" /\ bye_handler(box, p, m.from)
    BY <1>1, <1>4, ByeStep
  <1>5. CASE m.what = "mqtt/dy" /\ o2_mqtt_discovery_handler(box, p, m.from)
    <2>1. m.from # p /\ ~ByTcp(p, m.from)
      BY <1>2, <1>5 DEF Valid
    <2>2. /\ create_mqtt_connection(box, p, m.from, FALSE)
          /\ UNCHANGED <<net, up, checking, orphans>>
      BY <1>5 DEF o2_mqtt_discovery_handler
    <2> QED  BY <1>1, <1>5, <2>1, <2>2, CreateStep
  <1>6. CASE m.what = "callback" /\ callback_handler(box, p, m.from)
    <2>1. m.from # p /\ ByTcp(p, m.from)
      BY <1>2, <1>6 DEF Valid
    <2>2. discovered(box, p, m.from) /\ UNCHANGED <<net, up, checking, orphans>>
      BY <1>6 DEF callback_handler
    <2> QED  BY <1>1, <1>6, <2>1, <2>2, DiscoveredStep
  <1>7. CASE m.what = "sv" /\ services_handler(box, p, m.from)
    BY <1>1, <1>7, ServicesStep
  <1> QED  BY <1>3, <1>4, <1>5, <1>6, <1>7 DEF deliver_mqtt_msg

\* p gives up q, which lives and would not send its services without a !_o2/mqtt/dy:
\* no message of q is waiting, and those from p to q do not say that q is known.
LEMMA ExpirePost ==
    ASSUME NEW bx, NEW ps, NEW u, Post(bx, ps, u), NEW p \in Procs, NEW q \in Procs,
           Unrefreshed(p, q), \A i \in 1..Len(bx[p]) : bx[p][i].from # q
    PROVE  Post(bx, [ps EXCEPT ![p] = @ \ {q}], u)
  <1> DEFINE p2 == [ps EXCEPT ![p] = @ \ {q}]
  <1>1. ps \in [Procs -> SUBSET Procs] /\ u \in [Procs -> {"off", "on", "gone", "dead"}]
    BY DEF Post, Types
  <1>2. /\ p2 \in [Procs -> SUBSET Procs]
        /\ \A r, t \in Procs : t \in ps[r] => t \in p2[r] \/ (r = p /\ t = q)
    BY <1>1
  <1> HIDE DEF p2
  <1>m. ASSUME NEW r \in Procs, NEW i \in 1..Len(bx[r])
        PROVE  Valid(bx[r][i], r, ps, u) /\ bx[r][i].from \in Procs
    <2>1. Valid(bx[r][i], r, ps, u) /\ bx[r][i] \in Message
      BY DEF Post, Boxes
    <2> QED  BY <2>1 DEF Message
  <1>3. ASSUME NEW r \in Procs, NEW i \in 1..Len(bx[r])
        PROVE  Valid(bx[r][i], r, p2, u)
    BY <1>m, <1>2 DEF Valid
  <1>4. Boxes(bx, p2, u)
    BY <1>3 DEF Post, Boxes
  <1>5. Introduced(bx, p2, u)
    BY <1>m, <1>2 DEF Post, Introduced, Announced
  <1> QED  BY <1>1, <1>2, <1>4, <1>5 DEF Post, Types, p2

\* Time passes for a process that has left, or in case 2C2 for one that lives.
LEMMA TimeoutStep ==
    ASSUME IInv, NEW p \in Procs, NEW q \in Procs, TimeoutPasses(p, q)
    PROVE  IInv'
  <1> DEFINE F == Fresh(procs, expired)
  <1>1. /\ Post(inbox, F, up) /\ Known(procs, expired, up)
        /\ q \in procs[p] /\ (up[q] = "on" => Unrefreshed(p, q))
        /\ \A i \in DOMAIN inbox[p] : inbox[p][i].from # q
        /\ expired' = [expired EXCEPT ![p] = @ \cup {q}]
        /\ UNCHANGED <<net, up, inbox, procs, tcp, checking, orphans>>
    BY DEF IInv, TimeoutPasses, On
  <1>2. /\ up[q] \in {"off", "on", "gone", "dead"}
        /\ procs \in [Procs -> SUBSET Procs] /\ expired \in [Procs -> SUBSET Procs]
        /\ inbox[p] \in Seq(Message)
    BY <1>1 DEF Post, Types, Boxes, Known
  <1>3. Left(up, q) \/ Unrefreshed(p, q)
    BY <1>1, <1>2 DEF Known, Left
  <1>4. Known(procs', expired', up)
    <2>1. expired' \in [Procs -> SUBSET Procs]
      BY <1>1, <1>2
    <2>2. \A r \in Procs : \A s \in expired'[r] : s \in expired[r] \/ (r = p /\ s = q)
      BY <1>1, <1>2
    <2> QED  BY <1>1, <1>3, <2>1, <2>2 DEF Known
  <1>5. Fresh(procs', expired') = [F EXCEPT ![p] = @ \ {q}]
    <2>1. \A r \in Procs : procs'[r] \ expired'[r] = IF r = p THEN F[p] \ {q} ELSE F[r]
      BY <1>1, <1>2 DEF Fresh
    <2>2. [F EXCEPT ![p] = @ \ {q}]
              = [r \in Procs |-> IF r = p THEN F[p] \ {q} ELSE F[r]]
      BY DEF Fresh
    <2> QED  BY <2>1, <2>2 DEF Fresh
  <1>6. Post(inbox, [F EXCEPT ![p] = @ \ {q}], up)
    <2>1. \A i \in 1..Len(inbox[p]) : inbox[p][i].from # q
      BY <1>1, <1>2
    <2> HIDE DEF F
    <2>2. CASE Left(up, q)
      <3>1. {q} \in SUBSET Procs /\ \A r \in {q} : Left(up, r)
        BY <2>2
      <3> QED  BY <3>1, <1>1, ForgetPost
    <2>3. CASE Unrefreshed(p, q)
      BY <2>1, <2>3, <1>1, ExpirePost
    <2> QED  BY <2>2, <2>3, <1>3
  <1>7. Post(inbox', Fresh(procs', expired'), up')
    BY <1>1, <1>5, <1>6
  <1> QED  BY <1>1, <1>4, <1>7, StepIInv DEF IInv, Pairs, On

-----------------------------------------------------------------------------
(* The theorem.                                                            *)

\* Every step of the specification preserves the invariant.
LEMMA NextIInv == IInv /\ [Next]_vars => IInv'
  <1> SUFFICES ASSUME IInv, [Next]_vars  PROVE IInv'
    OBVIOUS
  <1>1. ASSUME NEW p \in Procs, o2_mqtt_initialize(p)  PROVE IInv'
    BY <1>1, InitializeStep
  <1>2. ASSUME NEW p \in Procs, mqtt_ping_send(p)  PROVE IInv'
    BY <1>2, PingStep
  <1>3. ASSUME NEW p \in Procs, o2_mqtt_finish(p)  PROVE IInv'
    BY <1>3, FinishStep
  <1>4. ASSUME NEW p \in Procs, deliver_mqtt_msg(p)  PROVE IInv'
    BY <1>4, DeliverStep
  <1>5. ASSUME NEW p \in Procs, mqtt_check_timeouts(p)  PROVE IInv'
    <2>1. /\ delete_procs(p, expired[p]) /\ UNCHANGED <<net, up, inbox, tcp, orphans>>
          /\ checking' \subseteq checking
      BY <1>5 DEF mqtt_check_timeouts
    <2>2. /\ expired[p] \in SUBSET Procs
          /\ checking \subseteq {r \in Procs : up[r] = "on"}
      BY DEF IInv, Known, On
    <2> QED  BY <2>1, <2>2, DeleteStep
  <1>6. ASSUME NEW p \in Procs, Crash(p)  PROVE IInv'
    BY <1>6, CrashStep
  <1>7. ASSUME NEW p \in Procs, NEW q \in Procs, TimeoutPasses(p, q)  PROVE IInv'
    BY <1>7, TimeoutStep
  <1>8. CASE UNCHANGED vars
    <2>1. /\ net' = net /\ inbox' = inbox /\ procs' = procs /\ up' = up
          /\ expired' = expired /\ tcp' = tcp /\ checking' = checking
          /\ orphans' = orphans
      BY <1>8 DEF vars
    <2>2. Post(inbox', Fresh(procs', expired'), up') /\ Known(procs', expired', up')
      BY <2>1 DEF IInv
    <2> QED  BY <2>1, <2>2, StepIInv DEF IInv, Pairs, On
  <1> QED  BY <1>1, <1>2, <1>3, <1>4, <1>5, <1>6, <1>7, <1>8 DEF Next

\* The invariant gives the property.
LEMMA IInvJoined == IInv => JoinedOnce
  <1> SUFFICES ASSUME IInv  PROVE JoinedOnce
    OBVIOUS
  <1>1. Post(inbox, Fresh(procs, expired), up) /\ Known(procs, expired, up)
    BY DEF IInv
  <1>2. TypeOK
    <2>1. \A p \in Procs : procs[p] \subseteq Procs \ {p} /\ expired[p] \subseteq procs[p]
      BY <1>1 DEF Post, Types, Known
    <2> QED  BY <1>1, <2>1 DEF TypeOK, IInv, Pairs, Post, Types
  <1>3. OneTransport
    BY <1>1, NotJoined DEF OneTransport, Known
  <1>4. NoOrphans
    BY DEF IInv, NoOrphans, Left, On
  <1> QED  BY <1>2, <1>3, <1>4 DEF JoinedOnce

\* Whatever the order in which messages of the broker arrive, and whoever crashes or
\* leaves, two processes are joined in one way only, the one both their disc_handlers
\* decide on, and services that the broker brings find their sender known.
THEOREM OneWayOnly == Spec => []JoinedOnce
  <1>1. Init => IInv
    BY InitIInv
  <1>2. IInv /\ [Next]_vars => IInv'
    BY NextIInv
  <1>3. IInv => JoinedOnce
    BY IInvJoined
  <1> QED  BY <1>1, <1>2, <1>3, PTL DEF Spec
=============================================================================
