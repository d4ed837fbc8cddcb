--------------------------- MODULE DiscoveryProofs ---------------------------
(***************************************************************************)
(* Proofs about discovery, for any number of processes, hosts, ports and   *)
(* connections: however broadcasts, requests for a connection and          *)
(* introductions by hubs cross each other, and whoever ends or restarts,   *)
(* two processes never have two connections (OneConnection).               *)
(***************************************************************************)
EXTENDS Discovery, FiniteSetTheorems, WellFoundedInduction, TLAPS

-----------------------------------------------------------------------------
(* The inductive invariant.                                                *)

\* A connection is a record with the fields of NoConn.
Shape(r) ==
    r = [cl |-> r.cl, sv |-> r.sv, tag |-> r.tag, ends |-> r.ends, named |-> r.named,
         refused |-> r.refused, wire |-> r.wire]

\* Only running processes have it open, and only those have a name for the other.
Owned(r) == /\ r.tag \in {"free", "temp", "proc"}
            /\ r.ends \subseteq {p \in Procs : Up(p)}
            /\ r.named \subseteq r.ends

\* It was made by the process with the lesser name, which knows the other by its
\* name as long as it has the connection open.
Proper(r) == /\ r.cl # r.sv /\ ~(Rank[r.cl] > Rank[r.sv])
             /\ \A p \in r.ends : /\ Name(p) \in {r.cl, r.sv}
                                  /\ Name(p) = r.cl => p \in r.named

\* No two connections join the same processes.
Unique(cs) ==
    \A c, d \in Conns : \A p, q \in Procs :
        (/\ p # q /\ cs[c].tag = "proc" /\ cs[d].tag = "proc"
         /\ cs[c].ends = {p, q} /\ cs[d].ends = {p, q}) => c = d

Good(cs) ==
    /\ DOMAIN cs = Conns
    /\ \A c \in Conns : /\ Shape(cs[c]) /\ Owned(cs[c])
                        /\ cs[c].tag = "proc" => Proper(cs[c])
    /\ Unique(cs)

\* Processes that run have different names.
Distinct == \A p, q \in Procs : (Up(p) /\ Up(q) /\ Name(p) = Name(q)) => p = q

\* The types of everything but the connections.
Types ==
    /\ port \in [Procs -> Ports \cup {-1}] /\ idx \in [Procs -> Ports \cup {-1}]
    /\ count \in [Procs -> 0 .. MaxCount]
    /\ lr \in [Procs -> [Ports -> SUBSET Both]]
    /\ hub \in [Procs -> Names \cup {None}]
    /\ udp \subseteq [to : Names, from : Names]
    /\ ended \in 0 .. MaxEnd /\ reinit \subseteq Procs /\ fault \in BOOLEAN

IInv == Types /\ Distinct /\ Good(conn)
-----------------------------------------------------------------------------
(* Arithmetic and ports.                                                   *)

\* A set of naturals that is not empty has a least element.
LEMMA MinIs ==
    ASSUME NEW S \in SUBSET Nat, S # {}
    PROVE  Min(S) \in S
<1> DEFINE R == {ss \in Nat \X Nat : ss[1] < ss[2]}
<1>1. IsWellFoundedOn(R, Nat)
  BY NatLessThanWellFounded, Zenon DEF OpToRel
<1>2. \A j, k \in Nat : j < k => <<j, k>> \in R
  OBVIOUS
<1> HIDE DEF R
<1>3. PICK k \in S : \A j \in S : ~(<<j, k>> \in R)
  BY <1>1, WFMin
<1>4. ASSUME NEW j \in S
      PROVE  k =< j
  <2>1. ~(j < k)
    BY <1>2, <1>3
  <2>2. k \in Nat /\ j \in Nat
    OBVIOUS
  <2>3. QED
    BY <2>1, <2>2
<1>5. \E x \in S : \A y \in S : x =< y
  BY <1>4
<1>6. QED
  BY <1>5 DEF Min

\* disc_msg_count stops where it no longer matters.
LEMMA CountStays ==
    ASSUME NEW n \in 0 .. MaxCount
    PROVE  Min({n + 1, MaxCount}) \in 0 .. MaxCount
<1>1. MaxCount \in Nat
  BY DiscoveryAssumption DEF MaxCount
<1>2. {n + 1, MaxCount} \subseteq Nat
  BY <1>1
<1>3. Min({n + 1, MaxCount}) \in {n + 1, MaxCount}
  BY <1>2, MinIs
<1>4. CASE n = MaxCount
  <2>1. Min({n + 1, MaxCount}) =< MaxCount
    <3>1. \E x \in {n + 1, MaxCount} : \A y \in {n + 1, MaxCount} : x =< y
      BY <1>1, <1>4
    <3>2. QED
      BY <3>1 DEF Min
  <2>2. QED
    BY <1>1, <1>3, <1>4, <2>1
<1>5. CASE n # MaxCount
  BY <1>1, <1>3, <1>5
<1>6. QED
  BY <1>4, <1>5

\* The index of the next port is that of a port.
LEMMA NextIndexIs ==
    ASSUME Types, NEW p \in Procs, Up(p)
    PROVE  NextIndex(p) \in Ports
<1> DEFINE i == idx[p] + 1
           b == port[p] + 1
<1>1. PortMax \in Nat \ {0} /\ port[p] \in 0 .. (PortMax - 1)
  BY DiscoveryAssumption DEF Types, Up, Ports
<1>2. i \in Nat /\ b \in Nat \ {0} /\ 0 .. (b - 1) \subseteq 0 .. (PortMax - 1)
  BY <1>1, DiscoveryAssumption DEF Types, Ports
<1>3. NextIndex(p) \in {i % PortMax, (i % PortMax) % b}
  BY DEF NextIndex
<1> HIDE DEF i, b
<1>4. ASSUME NEW k \in Nat, NEW m \in Nat \ {0}
      PROVE  k % m \in Nat /\ k % m \in 0 .. (m - 1)
  BY <1>4
<1>5. i % PortMax \in Nat /\ i % PortMax \in 0 .. (PortMax - 1)
  BY <1>1, <1>2, <1>4
<1>6. (i % PortMax) % b \in 0 .. (b - 1)
  <2> DEFINE k == i % PortMax
  <2>1. k \in Nat
    BY <1>5
  <2> HIDE DEF k
  <2>2. k % b \in 0 .. (b - 1)
    BY <1>2, <1>4, <2>1
  <2>3. QED
    BY <2>2 DEF k
<1>7. QED
  BY <1>2, <1>3, <1>5, <1>6 DEF Ports

\* A process that runs has a name; nobody has two.
LEMMA NameIs ==
    ASSUME Types, NEW p \in Procs, Up(p)
    PROVE  Name(p) \in Names
  BY DEF Types, Up, Name, Names, Hosts

-----------------------------------------------------------------------------
(* What opening, closing and writing do to the connections.                *)

\* A connection with other messages, names or ends.
WithWire(r, x) == [r EXCEPT !.wire = x]
WithNamed(r, x) == [r EXCEPT !.named = x]
WithEnds(r, x) == [r EXCEPT !.ends = x]

\* What is not replaced stays, and the shape stays.
LEMMA Fields ==
    ASSUME NEW r, Shape(r), NEW x
    PROVE  /\ Shape(WithWire(r, x)) /\ WithWire(r, x).wire = x
           /\ WithWire(r, x).cl = r.cl /\ WithWire(r, x).sv = r.sv
           /\ WithWire(r, x).tag = r.tag /\ WithWire(r, x).ends = r.ends
           /\ WithWire(r, x).named = r.named
           /\ Shape(WithNamed(r, x)) /\ WithNamed(r, x).named = x
           /\ WithNamed(r, x).cl = r.cl /\ WithNamed(r, x).sv = r.sv
           /\ WithNamed(r, x).tag = r.tag /\ WithNamed(r, x).ends = r.ends
           /\ Shape(WithEnds(r, x)) /\ WithEnds(r, x).ends = x
           /\ WithEnds(r, x).cl = r.cl /\ WithEnds(r, x).sv = r.sv
           /\ WithEnds(r, x).tag = r.tag /\ WithEnds(r, x).named = r.named
  BY DEF Shape, WithWire, WithNamed, WithEnds

\* The parts of a connection that the invariant is about.
Same(r, s) == /\ s.cl = r.cl /\ s.sv = r.sv /\ s.tag = r.tag
              /\ s.ends = r.ends /\ s.named = r.named

\* Reading and writing messages changes nothing else.
LEMMA WireGood ==
    ASSUME NEW cs, Good(cs), NEW ds, DOMAIN ds = Conns,
           \A c \in Conns : Shape(ds[c]) /\ Same(cs[c], ds[c])
    PROVE  Good(ds)
  BY DEF Good, Owned, Proper, Unique, Same

\* What p knows in cs it knows now.
Remembers(cs, p) == \A c \in Conns : p \in cs[c].named =>
                        /\ p \in conn[c].named
                        /\ cs[c].cl = conn[c].cl /\ cs[c].sv = conn[c].sv

\* p gets a name for the other end of a connection that it has open.
LEMMA NamedGood ==
    ASSUME NEW cs, Good(cs), NEW c \in Conns, NEW p \in cs[c].ends
    PROVE  Good([cs EXCEPT ![c].named = @ \cup {p}])
<1> DEFINE ds == [cs EXCEPT ![c].named = @ \cup {p}]
<1>1. /\ DOMAIN ds = Conns /\ \A d \in Conns \ {c} : ds[d] = cs[d]
      /\ ds[c] = WithNamed(cs[c], cs[c].named \cup {p})
  BY DEF Good, WithNamed
<1>2. /\ Shape(ds[c]) /\ ds[c].named = cs[c].named \cup {p} /\ ds[c].ends = cs[c].ends
      /\ ds[c].tag = cs[c].tag /\ ds[c].cl = cs[c].cl /\ ds[c].sv = cs[c].sv
  BY <1>1, Fields DEF Good
<1> HIDE DEF ds
<1>3. ASSUME NEW d \in Conns
      PROVE  /\ Shape(ds[d]) /\ ds[d].ends = cs[d].ends /\ ds[d].tag = cs[d].tag
             /\ ds[d].cl = cs[d].cl /\ ds[d].sv = cs[d].sv
             /\ cs[d].named \subseteq ds[d].named /\ ds[d].named \subseteq ds[d].ends
  <2>1. Shape(cs[d]) /\ cs[d].named \subseteq cs[d].ends
    BY DEF Good, Owned
  <2>2. CASE d = c
    BY <1>2, <2>1, <2>2
  <2>3. CASE d # c
    BY <1>1, <2>1, <2>3
  <2>4. QED
    BY <2>2, <2>3
<1>4. ASSUME NEW d \in Conns
      PROVE  Owned(ds[d]) /\ (ds[d].tag = "proc" => Proper(ds[d]))
  <2>1. Owned(cs[d]) /\ (cs[d].tag = "proc" => Proper(cs[d]))
    BY DEF Good
  <2>2. Owned(ds[d])
    BY <1>3, <2>1 DEF Owned
  <2>3. ASSUME ds[d].tag = "proc"
        PROVE  Proper(ds[d])
    BY <1>3, <2>1, <2>3 DEF Proper
  <2>4. QED
    BY <2>2, <2>3
<1>5. Unique(ds)
  <2>1. Unique(cs)
    BY DEF Good
  <2>2. QED
    BY <1>3, <2>1 DEF Unique
<1>6. QED
  BY <1>1, <1>3, <1>4, <1>5 DEF Good, ds

\* p closes its end of a connection; nobody learns anything new by that.
LEMMA CloseGood ==
    ASSUME Distinct, NEW cs, Good(cs), NEW c \in Conns, NEW p \in Procs
    PROVE  /\ Good(Close(cs, c, p))
           /\ \A d \in Conns : \A q \in Procs :
                 q \in Close(cs, c, p)[d].named =>
                    /\ q \in cs[d].named
                    /\ Close(cs, c, p)[d].cl = cs[d].cl /\ Close(cs, c, p)[d].sv = cs[d].sv
           /\ \A d \in Conns : cs[d].tag = "free" => Close(cs, c, p)[d].tag = "free"
           /\ \A d \in Conns \ {c} : Close(cs, c, p)[d] = cs[d]
           /\ p \notin Close(cs, c, p)[c].ends
           /\ \A a, b \in Procs :
                 (/\ a # b /\ Close(cs, c, p)[c].tag = "proc"
                  /\ Close(cs, c, p)[c].ends = {a, b})
                 => cs[c].tag = "proc" /\ cs[c].ends = {a, b}
<1> DEFINE ds == Close(cs, c, p)
<1>1. CASE cs[c].ends \subseteq {p}
  <2>1. /\ DOMAIN ds = Conns /\ ds[c] = NoConn /\ \A d \in Conns \ {c} : ds[d] = cs[d]
    BY <1>1 DEF Good, Close
  <2>2. /\ Shape(NoConn) /\ NoConn.tag = "free" /\ NoConn.ends = {} /\ NoConn.named = {}
    BY DEF NoConn, Shape
  <2> HIDE DEF ds
  <2>3. Good(ds)
    BY <2>1, <2>2 DEF Good, Owned, Proper, Unique
  <2>4. QED
    BY <2>1, <2>2, <2>3 DEF ds
<1>2. CASE ~(cs[c].ends \subseteq {p})
  <2> DEFINE r1 == WithEnds(cs[c], cs[c].ends \ {p})
             r2 == WithNamed(r1, r1.named \ {p})
             r3 == WithWire(r2, [r2.wire EXCEPT ![p] = << >>])
  <2>1. /\ DOMAIN ds = Conns /\ ds[c] = r3 /\ \A d \in Conns \ {c} : ds[d] = cs[d]
    BY <1>2 DEF Good, Close, WithEnds, WithNamed, WithWire
  <2>2. /\ Shape(r3) /\ r3.ends = cs[c].ends \ {p} /\ r3.named = cs[c].named \ {p}
        /\ r3.cl = cs[c].cl /\ r3.sv = cs[c].sv /\ r3.tag = cs[c].tag
    <3>1. Shape(cs[c])
      BY DEF Good
    <3>2. /\ Shape(r1) /\ r1.ends = cs[c].ends \ {p} /\ r1.named = cs[c].named
          /\ r1.cl = cs[c].cl /\ r1.sv = cs[c].sv /\ r1.tag = cs[c].tag
      BY <3>1, Fields
    <3>3. /\ Shape(r2) /\ r2.ends = cs[c].ends \ {p} /\ r2.named = cs[c].named \ {p}
          /\ r2.cl = cs[c].cl /\ r2.sv = cs[c].sv /\ r2.tag = cs[c].tag
      <4> HIDE DEF r1
      <4>1. QED
        BY <3>2, Fields
    <3> HIDE DEF r2
    <3>4. QED
      BY <3>3, Fields
  <2> HIDE DEF ds, r1, r2, r3
  <2>3. \A d \in Conns : /\ Shape(ds[d]) /\ Owned(ds[d])
                         /\ ds[d].tag = "proc" => Proper(ds[d])
    BY <2>1, <2>2 DEF Good, Owned, Proper
  <2>4. ASSUME NEW q \in Procs, NEW o \in Procs, q # o,
               ds[c].tag = "proc", ds[c].ends = {q, o}
        PROVE  cs[c].tag = "proc" /\ cs[c].ends = {q, o}
    <3>1. cs[c].tag = "proc" /\ cs[c].ends \ {p} = {q, o}
      BY <2>2, <2>1, <2>4
    <3>2. Proper(cs[c]) /\ Owned(cs[c])
      BY <3>1 DEF Good
    <3>3. p \notin cs[c].ends
      <4>1. SUFFICES ASSUME p \in cs[c].ends
                     PROVE  FALSE
        OBVIOUS
      <4>2. p # q /\ p # o /\ q \in cs[c].ends /\ o \in cs[c].ends
        BY <3>1
      <4>3. /\ Name(p) # Name(q) /\ Name(p) # Name(o) /\ Name(q) # Name(o)
        BY <3>2, <4>1, <4>2, <2>4 DEF Owned, Distinct
      <4>4. QED
        BY <3>2, <4>1, <4>2, <4>3 DEF Proper
    <3>4. QED
      BY <3>1, <3>3
  <2>5. Unique(ds)
    BY <2>1, <2>4 DEF Good, Unique
  <2>6. QED
    BY <2>1, <2>2, <2>3, <2>4, <2>5 DEF Good, ds
<1>3. QED
  BY <1>1, <1>2

\* Names of processes that run are ordered by Rank.
LEMMA RankOrders ==
    ASSUME Types, Distinct, NEW p \in Procs, Up(p), NEW q \in Procs, Up(q), p # q,
           ~(Rank[Name(p)] > Rank[Name(q)])
    PROVE  Rank[Name(q)] > Rank[Name(p)]
<1>1. Name(p) \in Names /\ Name(q) \in Names /\ Name(p) # Name(q)
  BY NameIs DEF Distinct
<1>2. /\ Rank[Name(p)] \in Int /\ Rank[Name(q)] \in Int
      /\ Rank[Name(p)] # Rank[Name(q)]
  BY <1>1, DiscoveryAssumption
<1>3. QED
  BY <1>2

\* A new connection to a process that p does not know is the only one with it: p
\* knows those it made, and the other process made none, as its name is greater.
LEMMA OpenGood ==
    ASSUME Types, Distinct, NEW cs, Good(cs), NEW p \in Procs, Up(p), Remembers(cs, p),
           NEW n, n # Name(p), n \notin known(p), NEW tag \in {"temp", "proc"},
           tag = "proc" => ~(Rank[Name(p)] > Rank[n]),
           NEW msg, {k \in Conns : cs[k].tag = "free"} # {}
    PROVE  Good(Open(cs, p, n, tag, msg))
<1> DEFINE q == At(n)
           c == Min({k \in Conns : cs[k].tag = "free"})
           r == [cl |-> Name(p), sv |-> n, tag |-> tag, ends |-> {p} \cup q,
                 named |-> IF tag = "proc" THEN {p} ELSE {}, refused |-> q = {},
                 wire |-> [o \in Procs |-> IF o \in q THEN <<msg>> ELSE << >>]]
           ds == [cs EXCEPT ![c] = r]
<1>1. CASE q = {} /\ tag = "temp"
  BY <1>1 DEF Open
<1>2. CASE ~(q = {} /\ tag = "temp")
  <2>1. Open(cs, p, n, tag, msg) = ds
    BY <1>2 DEF Open
  <2>2. c \in Conns
    <3>1. {k \in Conns : cs[k].tag = "free"} \in SUBSET Nat
      BY DEF Conns
    <3>2. QED
      BY <3>1, MinIs
  <2>3. /\ Shape(r) /\ r.cl = Name(p) /\ r.sv = n /\ r.tag = tag /\ r.ends = {p} \cup q
        /\ r.named \subseteq {p} /\ (tag = "proc" => r.named = {p})
    BY DEF Shape
  <2>4. \A o \in q : o \in Procs /\ Up(o) /\ Name(o) = n
    BY DEF At
  <2> HIDE DEF c, r, q
  <2>5. DOMAIN ds = Conns /\ ds[c] = r /\ \A d \in Conns \ {c} : ds[d] = cs[d]
    BY <2>2 DEF Good
  <2> HIDE DEF ds
  <2>6. Owned(r) /\ (r.tag = "proc" => Proper(r))
    <3>1. Owned(r)
      BY <2>3, <2>4 DEF Owned
    <3>2. ASSUME r.tag = "proc"
          PROVE  Proper(r)
      BY <2>3, <2>4, <3>2 DEF Proper
    <3>3. QED
      BY <3>1, <3>2
  <2>7. ASSUME NEW d \in Conns \ {c}, NEW a \in Procs, NEW b \in Procs, a # b,
               cs[d].tag = "proc", cs[d].ends = {a, b}, r.tag = "proc", r.ends = {a, b}
        PROVE  FALSE
    <3>1. PICK o \in Procs : o \in q /\ o # p /\ {a, b} = {p, o}
      BY <2>3, <2>4, <2>7
    <3>2. Up(o) /\ Name(o) = n
      BY <2>4, <3>1
    <3>3. Proper(cs[d])
      BY <2>7 DEF Good
    <3>4. /\ Name(p) \in {cs[d].cl, cs[d].sv} /\ (Name(p) = cs[d].cl => p \in cs[d].named)
          /\ Name(o) \in {cs[d].cl, cs[d].sv} /\ ~(Rank[cs[d].cl] > Rank[cs[d].sv])
      BY <2>7, <3>1, <3>3 DEF Proper
    <3>5. CASE Name(p) = cs[d].cl
      <4>1. cs[d].sv = n /\ p \in cs[d].named
        BY <3>2, <3>4, <3>5
      <4>2. p \in conn[d].named /\ conn[d].cl = Name(p) /\ conn[d].sv = n
        BY <3>5, <4>1 DEF Remembers
      <4>3. Peer(d, p) = n
        BY <4>2 DEF Peer
      <4>4. n \in known(p)
        BY <4>2, <4>3 DEF known
      <4>5. QED
        BY <4>4
    <3>6. CASE Name(p) # cs[d].cl
      <4>1. ~(Rank[Name(o)] > Rank[Name(p)]) /\ ~(Rank[Name(p)] > Rank[Name(o)])
        BY <2>3, <2>7, <3>2, <3>4, <3>6
      <4>2. QED
        BY <3>1, <3>2, <4>1, RankOrders
    <3>7. QED
      BY <3>5, <3>6
  <2>8. Unique(ds)
    BY <2>5, <2>7 DEF Good, Unique
  <2>9. QED
    BY <2>1, <2>3, <2>5, <2>6, <2>8 DEF Good
<1>3. QED
  BY <1>1, <1>2

\* A process that hears of another connects to it only if it may.
LEMMA DiscoveredGood ==
    ASSUME Types, Distinct, NEW cs, Good(cs), NEW p \in Procs, Up(p), Remembers(cs, p),
           NEW n, n \in known(p) \/ {k \in Conns : cs[k].tag = "free"} # {}
    PROVE  Good(Discovered(cs, p, n))
<1>1. CASE n \in {Name(p)} \cup known(p)
  BY <1>1 DEF Discovered
<1>2. CASE n \notin {Name(p)} \cup known(p) /\ Rank[Name(p)] > Rank[n]
  <2>1. Good(Open(cs, p, n, "temp", [dy |-> "CALLBACK", name |-> Name(p)]))
    BY <1>2, OpenGood
  <2>2. QED
    BY <1>2, <2>1 DEF Discovered
<1>3. CASE n \notin {Name(p)} \cup known(p) /\ ~(Rank[Name(p)] > Rank[n])
  <2> DEFINE m == [dy |-> IF n = hub[p] THEN "HUB" ELSE "CONNECT", name |-> Name(p)]
  <2>1. Discovered(cs, p, n) = Open(cs, p, n, "proc", m)
    BY <1>3 DEF Discovered
  <2> HIDE DEF m
  <2>2. Good(Open(cs, p, n, "proc", m))
    BY <1>3, OpenGood
  <2>3. QED
    BY <2>1, <2>2
<1>4. QED
  BY <1>1, <1>2, <1>3

\* A message to the other ends.
LEMMA SendGood ==
    ASSUME NEW cs, Good(cs), NEW c \in Conns, NEW p, NEW msg
    PROVE  Good(Send(cs, c, p, msg))
<1> DEFINE ds == Send(cs, c, p, msg)
           w == [r \in Procs |-> IF r \in cs[c].ends \ {p} THEN Append(cs[c].wire[r], msg)
                                 ELSE cs[c].wire[r]]
<1>1. /\ DOMAIN ds = Conns /\ ds[c] = WithWire(cs[c], w)
      /\ \A d \in Conns \ {c} : ds[d] = cs[d]
  BY DEF Good, Send, WithWire
<1> HIDE DEF ds, w
<1>2. \A d \in Conns : Shape(cs[d])
  BY DEF Good
<1>3. Shape(ds[c]) /\ Same(cs[c], ds[c])
  BY <1>1, <1>2, Fields DEF Same
<1>4. \A d \in Conns : Shape(ds[d]) /\ Same(cs[d], ds[d])
  BY <1>1, <1>2, <1>3 DEF Same
<1>5. QED
  BY <1>1, <1>4, WireGood DEF ds

\* The hub writes to connections, and does nothing else to them.
LEMMA IntroducedGood ==
    ASSUME NEW cs, Good(cs), NEW c \in Conns, NEW p
    PROVE  Good(Introduced(cs, p, c))
<1> DEFINE ds == Introduced(cs, p, c)
<1>1. DOMAIN ds = Conns
  BY DEF Introduced
<1>2. ASSUME NEW k \in Conns
      PROVE  \E w : ds[k] = WithWire(cs[k], w)
  BY DEF Introduced, WithWire
<1> HIDE DEF ds
<1>3. \A k \in Conns : Shape(cs[k])
  BY DEF Good
<1>4. ASSUME NEW k \in Conns
      PROVE  Shape(ds[k]) /\ Same(cs[k], ds[k])
  <2>1. PICK w : ds[k] = WithWire(cs[k], w)
    BY <1>2
  <2>2. QED
    BY <1>3, <2>1, Fields DEF Same
<1>5. QED
  BY <1>1, <1>4, WireGood DEF ds
-----------------------------------------------------------------------------
(* Every step.                                                             *)

\* As long as nobody starts or ends, what was shown of new connections holds.
LEMMA Carry ==
    ASSUME Distinct, port' = port, NEW cs, Good(cs), conn' = cs
    PROVE  Distinct' /\ Good(conn)'
<1>1. Distinct'
  BY DEF Distinct, Up, Name
<1>2. \A c \in Conns : Shape(conn[c])' /\ Owned(conn[c])'
  BY DEF Good, Shape, Owned, Up
<1>3. \A c \in Conns : conn'[c].tag = "proc" => Proper(conn[c])'
  BY DEF Good, Proper, Name
<1>4. QED
  BY <1>1, <1>2, <1>3 DEF Good, Unique

\* There is room only if some connection is free.
LEMMA RoomIs ==
    ASSUME NEW k \in {1, 2}, Room(k)
    PROVE  {c \in Conns : conn[c].tag = "free"} # {}
  BY FS_EmptySet DEF Room

\* Initially nobody runs.
LEMMA InitGood == Init => IInv
<1> SUFFICES ASSUME Init
             PROVE  IInv
  OBVIOUS
<1>1. \A p \in Procs : ~Up(p)
  BY DEF Init, Up
<1>2. Types
  <2>1. MaxCount \in Nat /\ MaxEnd \in Nat
    BY DiscoveryAssumption DEF MaxCount
  <2>2. port \in [Procs -> Ports \cup {-1}] /\ idx \in [Procs -> Ports \cup {-1}]
    BY DEF Init
  <2>3. count \in [Procs -> 0 .. MaxCount]
    BY <2>1 DEF Init
  <2>4. lr \in [Procs -> [Ports -> SUBSET Both]]
    BY DEF Init
  <2>5. hub \in [Procs -> Names \cup {None}]
    BY DEF Init
  <2>6. /\ udp \subseteq [to : Names, from : Names]
        /\ ended \in 0 .. MaxEnd /\ reinit \subseteq Procs
    BY <2>1 DEF Init
  <2>7. fault \in BOOLEAN
    BY Zenon DEF Init
  <2>8. QED
    BY <2>2, <2>3, <2>4, <2>5, <2>6, <2>7 DEF Types
<1>3. Distinct
  BY <1>1 DEF Distinct
<1>4. \A c \in Conns : conn[c] = NoConn
  BY DEF Init
<1>5. /\ Shape(NoConn) /\ NoConn.tag = "free" /\ NoConn.ends = {} /\ NoConn.named = {}
  BY DEF NoConn, Shape
<1>6. DOMAIN conn = Conns
  BY DEF Init
<1>7. Good(conn)
  BY <1>4, <1>5, <1>6 DEF Good, Owned, Unique
<1>8. QED
  BY <1>2, <1>3, <1>7 DEF IInv

\* A process that starts takes a port that nobody on its host has.
LEMMA StartStep ==
    ASSUME IInv, NEW p \in Procs, o2_discovery_initialize(p)
    PROVE  IInv'
<1> DEFINE free == {i \in Ports : At(<<Host[p], i>>) = {}}
           i == Min(free)
<1>1. i \in free
  <2>1. free \in SUBSET Nat
    BY DiscoveryAssumption DEF Ports
  <2>2. free # {}
    BY DEF o2_discovery_initialize
  <2>3. QED
    BY <2>1, <2>2, MinIs
<1>2. /\ ~Up(p) /\ port' = [port EXCEPT ![p] = i] /\ idx' = [idx EXCEPT ![p] = -1]
      /\ lr' = [lr EXCEPT ![p][i] = @ \ {"local"}]
      /\ hub' = [hub EXCEPT ![p] = None]
      /\ UNCHANGED <<count, conn, udp, ended, reinit, fault>>
  BY DEF o2_discovery_initialize
<1>3. i \in Ports /\ At(<<Host[p], i>>) = {}
  BY <1>1
<1> HIDE DEF i, free
<1>4. Types'
  <2>1. port' \in [Procs -> Ports \cup {-1}] /\ idx' \in [Procs -> Ports \cup {-1}]
    BY <1>2, <1>3 DEF IInv, Types
  <2>2. lr' \in [Procs -> [Ports -> SUBSET Both]]
    <3>1. lr[p] \in [Ports -> SUBSET Both]
      BY DEF IInv, Types
    <3>2. [lr[p] EXCEPT ![i] = @ \ {"local"}] \in [Ports -> SUBSET Both]
      BY <1>3, <3>1
    <3>3. QED
      BY <1>2, <3>2 DEF IInv, Types
  <2>3. hub' \in [Procs -> Names \cup {None}]
    BY <1>2 DEF IInv, Types
  <2>4. QED
    BY <1>2, <2>1, <2>2, <2>3 DEF IInv, Types
<1>5. \A r \in Procs \ {p} : port'[r] = port[r]
  BY <1>2 DEF IInv, Types
<1>6. port'[p] = i /\ Up(p)' /\ Name(p)' = <<Host[p], i>>
  BY <1>2, <1>3, DiscoveryAssumption DEF IInv, Types, Up, Name, Ports
<1>7. \A r \in Procs \ {p} : (Up(r)' <=> Up(r)) /\ Name(r)' = Name(r)
  BY <1>5 DEF Up, Name
<1>8. Distinct'
  <2>1. ASSUME NEW r \in Procs \ {p}, Up(r)'
        PROVE  Name(r)' # Name(p)'
    BY <1>3, <1>6, <1>7, <2>1 DEF At
  <2>2. ASSUME NEW r \in Procs, NEW s \in Procs, Up(r)', Up(s)', Name(r)' = Name(s)'
        PROVE  r = s
    <3>1. CASE r = p \/ s = p
      BY <2>1, <2>2, <3>1
    <3>2. CASE r # p /\ s # p
      BY <1>7, <2>2, <3>2 DEF IInv, Distinct
    <3>3. QED
      BY <3>1, <3>2
  <2>3. QED
    BY <2>2 DEF Distinct
<1>9. Good(conn)'
  <2>1. \A c \in Conns : p \notin conn[c].ends
    BY <1>2 DEF IInv, Good, Owned
  <2>2. \A c \in Conns : Owned(conn[c])'
    BY <1>2, <1>7, <2>1 DEF IInv, Good, Owned
  <2>3. ASSUME NEW c \in Conns, conn[c].tag = "proc"
        PROVE  Proper(conn[c])'
    <3>1. Proper(conn[c]) /\ conn[c].ends \subseteq Procs \ {p}
      BY <2>1, <2>3 DEF IInv, Good, Owned
    <3>2. QED
      BY <1>2, <1>7, <3>1 DEF Proper
  <2>4. QED
    BY <1>2, <2>2, <2>3 DEF IInv, Good, Shape, Unique
<1>10. QED
  BY <1>4, <1>8, <1>9 DEF IInv

\* Broadcasts say the sender's name.
LEMMA SendStep ==
    ASSUME IInv, NEW p \in Procs, o2_discovery_send_handler(p)
    PROVE  IInv'
<1> DEFINE i == NextIndex(p)
           there == IF "remote" \in lr[p][i] THEN Hosts \ {Host[p]} ELSE {}
           here == IF "local" \in lr[p][i] THEN {Host[p]} ELSE {}
           msgs == {[to |-> <<h, i>>, from |-> Name(p)] : h \in here \cup there}
<1>1. /\ Up(p) /\ UNCHANGED <<port, hub, conn, ended, reinit, fault>>
      /\ idx' = [idx EXCEPT ![p] = i]
      /\ count' = [count EXCEPT ![p] = Min({@ + 1, MaxCount})]
      /\ lr' = lr \/ lr' = [lr EXCEPT ![p][i] = @ \ {"remote"}]
      /\ udp' = udp \/ \E m \in SUBSET msgs : udp' = udp \cup m
  <2>1. CASE "remote" \in lr[p][i] /\ Host[p] \notin Broadcasts
    BY <2>1 DEF o2_discovery_send_handler
  <2>2. CASE ~("remote" \in lr[p][i] /\ Host[p] \notin Broadcasts)
    BY <2>2 DEF o2_discovery_send_handler
  <2>3. QED
    BY <2>1, <2>2
<1>2. i \in Ports
  BY <1>1, NextIndexIs DEF IInv
<1>3. msgs \subseteq [to : Names, from : Names]
  <2>1. Name(p) \in Names
    BY <1>1, NameIs DEF IInv
  <2>2. here \cup there \subseteq Hosts
    BY DEF Hosts
  <2>3. QED
    BY <1>2, <2>1, <2>2 DEF Names
<1> HIDE DEF i, msgs
<1>4. Types'
  <2>1. idx' \in [Procs -> Ports \cup {-1}]
    BY <1>1, <1>2 DEF IInv, Types
  <2>2. count' \in [Procs -> 0 .. MaxCount]
    <3>1. Min({count[p] + 1, MaxCount}) \in 0 .. MaxCount
      BY CountStays DEF IInv, Types
    <3>2. QED
      BY <1>1, <3>1 DEF IInv, Types
  <2>3. lr' \in [Procs -> [Ports -> SUBSET Both]]
    <3>1. lr \in [Procs -> [Ports -> SUBSET Both]] /\ lr[p] \in [Ports -> SUBSET Both]
      BY DEF IInv, Types
    <3>2. [lr[p] EXCEPT ![i] = @ \ {"remote"}] \in [Ports -> SUBSET Both]
      BY <1>2, <3>1
    <3>3. QED
      BY <1>1, <3>1, <3>2
  <2>4. udp' \subseteq [to : Names, from : Names]
    BY <1>1, <1>3 DEF IInv, Types
  <2>5. QED
    BY <1>1, <2>1, <2>2, <2>3, <2>4 DEF IInv, Types
<1>5. Distinct' /\ Good(conn)'
  BY <1>1, Carry DEF IInv
<1>6. QED
  BY <1>4, <1>5 DEF IInv

\* A datagram leads to a connection at most.
LEMMA ReceiveStep ==
    ASSUME IInv, NEW d \in udp, Receive(d)
    PROVE  IInv'
<1>1. /\ udp' = udp \ {d}
      /\ UNCHANGED <<port, idx, count, lr, hub, ended, reinit, fault>>
  BY DEF Receive, static
<1>2. Types'
  BY <1>1 DEF IInv, Types
<1>3. PICK cs : Good(cs) /\ conn' = cs
  <2>1. CASE conn' = conn
    BY <2>1 DEF IInv
  <2>2. ASSUME NEW p \in At(d.to), d.from \in known(p) \/ Room(2),
               conn' = Discovered(conn, p, d.from)
        PROVE  Good(conn')
    <3>1. p \in Procs /\ Up(p)
      BY DEF At
    <3>2. d.from \in known(p) \/ {k \in Conns : conn[k].tag = "free"} # {}
      BY <2>2, RoomIs
    <3>3. Remembers(conn, p)
      BY DEF Remembers
    <3>4. Good(Discovered(conn, p, d.from))
      BY <3>1, <3>2, <3>3, DiscoveredGood DEF IInv
    <3>5. QED
      BY <2>2, <3>4
  <2>3. QED
    BY <2>1, <2>2 DEF Receive
<1>4. QED
  BY <1>1, <1>2, <1>3, Carry DEF IInv

\* Reading a message leaves the ends and names; what it does next keeps them right.
LEMMA HandleGood ==
    ASSUME Types, Distinct, NEW cs, Good(cs), NEW c \in Conns, NEW p \in cs[c].ends,
           Remembers(cs, p), NEW m,
           m.dy \in {"CALLBACK", "INFO"} =>
               m.name \in known(p) \/ {k \in Conns : cs[k].tag = "free"} # {}
    PROVE  Good(Handle(cs, c, p, m))
<1> DEFINE named == [cs EXCEPT ![c].named = @ \cup {p}]
           ask == [dy |-> "hub", name |-> Name(p)]
<1>1. p \in Procs /\ Up(p)
  BY DEF Good, Owned
<1>2. Good(named)
  BY NamedGood
<1>3. \A msg : Good(Send(named, c, p, msg))
  <2> HIDE DEF named
  <2>1. QED
    BY <1>2, SendGood
<1>4. CASE m.dy = "CALLBACK"
  <2> DEFINE ds == Close(cs, c, p)
  <2>1. /\ Good(ds) /\ \A k \in Conns : cs[k].tag = "free" => ds[k].tag = "free"
        /\ \A k \in Conns : p \in ds[k].named =>
              p \in cs[k].named /\ ds[k].cl = cs[k].cl /\ ds[k].sv = cs[k].sv
    BY <1>1, CloseGood
  <2> HIDE DEF ds
  <2>2. Remembers(ds, p)
    BY <2>1 DEF Remembers
  <2>3. m.name \in known(p) \/ {k \in Conns : ds[k].tag = "free"} # {}
    BY <1>4, <2>1
  <2>4. Good(Discovered(ds, p, m.name))
    BY <1>1, <2>1, <2>2, <2>3, DiscoveredGood
  <2>5. QED
    BY <1>4, <2>4 DEF Handle, ds
<1>5. CASE m.dy = "INFO"
  <2>1. Good(Discovered(cs, p, m.name))
    BY <1>1, <1>5, DiscoveredGood
  <2>2. QED
    BY <1>5, <2>1 DEF Handle
<1>6. CASE m.dy = "HUB"
  <2>1. Handle(cs, c, p, m) = Send(named, c, p, [dy |-> "REPLY", name |-> Name(p)])
    BY <1>6 DEF Handle
  <2>2. QED
    BY <1>3, <2>1
<1>7. CASE m.dy = "CONNECT"
  <2>1. \/ Handle(cs, c, p, m) = Send(named, c, p, ask)
        \/ Handle(cs, c, p, m) = named
    BY <1>7 DEF Handle
  <2>2. QED
    BY <1>2, <1>3, <2>1
<1>8. CASE m.dy = "REPLY"
  <2>1. \/ Handle(cs, c, p, m) = Send(named, c, p, ask)
        \/ Handle(cs, c, p, m) = Close(named, c, p)
    BY <1>8 DEF Handle
  <2>2. Good(Close(named, c, p))
    <3> HIDE DEF named
    <3>1. QED
      BY <1>1, <1>2, CloseGood
  <2>3. QED
    BY <1>3, <2>1, <2>2
<1>9. CASE m.dy \notin {"CALLBACK", "INFO", "HUB", "CONNECT", "REPLY"}
  <2>1. Handle(cs, c, p, m) = Introduced(cs, p, c)
    BY <1>9 DEF Handle
  <2>2. QED
    BY <2>1, IntroducedGood
<1>10. QED
  BY <1>4, <1>5, <1>6, <1>7, <1>8, <1>9

\* A message on a connection.
LEMMA HandlerStep ==
    ASSUME IInv, NEW c \in Conns, NEW p \in Procs, o2_discovery_handler(c, p)
    PROVE  IInv'
<1> DEFINE m == Head(conn[c].wire[p])
           cs == [conn EXCEPT ![c].wire[p] = Tail(@)]
<1>1. /\ p \in conn[c].ends /\ conn' = Handle(cs, c, p, m)
      /\ m.dy \in {"CALLBACK", "INFO"} => m.name \in known(p) \/ Room(1)
      /\ UNCHANGED <<port, idx, count, lr, hub, udp, ended, reinit>>
  BY DEF o2_discovery_handler, static
<1>2. fault' \in BOOLEAN
  BY Zenon DEF o2_discovery_handler
<1>3. Types'
  BY <1>1, <1>2 DEF IInv, Types
<1>4. /\ DOMAIN cs = Conns /\ \A d \in Conns \ {c} : cs[d] = conn[d]
      /\ cs[c] = WithWire(conn[c], [conn[c].wire EXCEPT ![p] = Tail(@)])
  BY DEF IInv, Good, WithWire
<1> HIDE DEF cs, m
<1>5. \A d \in Conns : Shape(conn[d])
  BY DEF IInv, Good
<1>6. Shape(cs[c]) /\ Same(conn[c], cs[c])
  BY <1>4, <1>5, Fields DEF Same
<1>7. \A d \in Conns : Shape(cs[d]) /\ Same(conn[d], cs[d])
  BY <1>4, <1>5, <1>6 DEF Same
<1>8. Good(cs)
  BY <1>4, <1>7, WireGood DEF IInv
<1>9. p \in cs[c].ends /\ Remembers(cs, p)
  BY <1>1, <1>7 DEF Same, Remembers
<1>10. m.dy \in {"CALLBACK", "INFO"} =>
          m.name \in known(p) \/ {k \in Conns : cs[k].tag = "free"} # {}
  <2>1. Room(1) => {k \in Conns : conn[k].tag = "free"} # {}
    BY RoomIs
  <2>2. \A k \in Conns : cs[k].tag = conn[k].tag
    BY <1>7 DEF Same
  <2>3. QED
    BY <1>1, <2>1, <2>2
<1>11. Good(Handle(cs, c, p, m))
  BY <1>8, <1>9, <1>10, HandleGood DEF IInv
<1>12. QED
  BY <1>1, <1>3, <1>11, Carry DEF IInv

\* The other end is gone.
LEMMA HangUpStep ==
    ASSUME IInv, NEW c \in Conns, NEW p \in Procs, HangUp(c, p)
    PROVE  IInv'
<1>1. /\ conn' = Close(conn, c, p)
      /\ UNCHANGED <<port, idx, count, lr, hub, udp, ended, reinit, fault>>
  BY DEF HangUp, static
<1>2. Good(Close(conn, c, p))
  BY CloseGood DEF IInv
<1>3. Types'
  BY <1>1 DEF IInv, Types
<1>4. QED
  BY <1>1, <1>2, <1>3, Carry DEF IInv

\* A hub is connected to, or asked to connect.
LEMMA HubStep ==
    ASSUME IInv, NEW p \in Procs, o2_hub(p)
    PROVE  IInv'
<1>1. /\ Up(p) /\ HubOf[p] # None /\ Room(2) /\ hub' = [hub EXCEPT ![p] = HubOf[p]]
      /\ UNCHANGED <<port, idx, count, lr, udp, ended, reinit, fault>>
  BY DEF o2_hub, static
<1>2. Types'
  <2>1. hub' \in [Procs -> Names \cup {None}]
    BY <1>1, DiscoveryAssumption DEF IInv, Types
  <2>2. QED
    BY <1>1, <2>1 DEF IInv, Types
<1>3. {k \in Conns : conn[k].tag = "free"} # {} /\ Remembers(conn, p)
  BY <1>1, RoomIs DEF Remembers
<1>4. PICK cs : Good(cs) /\ conn' = cs
  <2> DEFINE n == HubOf[p]
             back == [dy |-> "CALLBACK", name |-> Name(p)]
             first == [dy |-> "HUB", name |-> Name(p)]
  <2>1. CASE n \in {Name(p)} \cup known(p)
    BY <2>1 DEF o2_hub, IInv
  <2>2. CASE n \notin {Name(p)} \cup known(p) /\ Rank[Name(p)] > Rank[n]
    <3>1. Good(Open(conn, p, n, "temp", back))
      BY <1>1, <1>3, <2>2, OpenGood DEF IInv
    <3>2. QED
      BY <2>2, <3>1 DEF o2_hub
  <2>3. CASE n \notin {Name(p)} \cup known(p) /\ ~(Rank[Name(p)] > Rank[n])
    <3>1. Good(Open(conn, p, n, "proc", first))
      BY <1>1, <1>3, <2>3, OpenGood DEF IInv
    <3>2. QED
      BY <2>3, <3>1 DEF o2_hub
  <2>4. QED
    BY <2>1, <2>2, <2>3
<1>5. QED
  BY <1>1, <1>2, <1>4, Carry DEF IInv

\* A process that ends closes everything it has open.
LEMMA EndsGood ==
    ASSUME IInv, NEW p \in Procs, Ends(p)
    PROVE  Distinct' /\ Good(conn)'
<1>1. /\ port' = [port EXCEPT ![p] = -1]
      /\ conn' = [c \in Conns |-> IF p \in conn[c].ends THEN Close(conn, c, p)[c]
                                  ELSE conn[c]]
  BY DEF Ends
<1>2. ~Up(p)' /\ \A r \in Procs \ {p} : (Up(r)' <=> Up(r)) /\ Name(r)' = Name(r)
  BY <1>1 DEF IInv, Types, Up, Name
<1>3. Distinct'
  BY <1>2 DEF IInv, Distinct
<1>4. ASSUME NEW c \in Conns
      PROVE  /\ Shape(conn'[c]) /\ Owned(conn'[c]) /\ p \notin conn'[c].ends
             /\ conn'[c].tag = "proc" => Proper(conn'[c])
             /\ \A a, b \in Procs : (a # b /\ conn'[c].tag = "proc" /\ conn'[c].ends = {a, b})
                   => conn[c].tag = "proc" /\ conn[c].ends = {a, b}
  <2>1. CASE p \in conn[c].ends
    <3> DEFINE ds == Close(conn, c, p)
    <3>1. conn'[c] = ds[c]
      BY <1>1, <2>1
    <3>2. /\ Good(ds) /\ p \notin ds[c].ends
          /\ \A a, b \in Procs : (a # b /\ ds[c].tag = "proc" /\ ds[c].ends = {a, b})
                => conn[c].tag = "proc" /\ conn[c].ends = {a, b}
      BY CloseGood DEF IInv
    <3> HIDE DEF ds
    <3>3. QED
      BY <3>1, <3>2 DEF Good
  <2>2. CASE p \notin conn[c].ends
    <3>1. conn'[c] = conn[c]
      BY <1>1, <2>2
    <3>2. QED
      BY <3>1, <2>2 DEF IInv, Good
  <2>3. QED
    BY <2>1, <2>2
<1>5. \A c \in Conns : Owned(conn[c])'
  BY <1>2, <1>4 DEF Owned
<1>6. ASSUME NEW c \in Conns, conn'[c].tag = "proc"
      PROVE  Proper(conn[c])'
  <2>1. Proper(conn'[c]) /\ conn'[c].ends \subseteq Procs \ {p}
    BY <1>4, <1>6 DEF Owned
  <2>2. QED
    BY <1>2, <2>1 DEF Proper
<1>7. Unique(conn)'
  BY <1>4 DEF IInv, Good, Unique
<1>8. DOMAIN conn' = Conns /\ \A c \in Conns : Shape(conn[c])'
  BY <1>1, <1>4 DEF Shape
<1>9. QED
  BY <1>3, <1>5, <1>6, <1>7, <1>8 DEF Good

\* What is remembered after an end has its type.
LEMMA EndsTypes ==
    ASSUME IInv, NEW p \in Procs, Ends(p), Exit(p) \/ o2_finish(p)
    PROVE  Types'
<1>1. /\ port' = [port EXCEPT ![p] = -1] /\ hub' = [hub EXCEPT ![p] = None]
      /\ ended < MaxEnd /\ ended' = ended + 1 /\ UNCHANGED <<udp, fault>>
  BY DEF Ends
<1>2. MaxEnd \in Nat /\ MaxCount \in Nat
  BY DiscoveryAssumption DEF MaxCount
<1>3. /\ port' \in [Procs -> Ports \cup {-1}] /\ hub' \in [Procs -> Names \cup {None}]
      /\ ended' \in 0 .. MaxEnd
  BY <1>1, <1>2 DEF IInv, Types
<1>4. CASE Exit(p)
  <2>1. /\ count' = [count EXCEPT ![p] = 0]
        /\ lr' = [lr EXCEPT ![p] = [i \in Ports |-> Both]] /\ UNCHANGED <<idx, reinit>>
    BY <1>4 DEF Exit
  <2>2. count' \in [Procs -> 0 .. MaxCount]
    BY <1>2, <2>1 DEF IInv, Types
  <2>3. lr' \in [Procs -> [Ports -> SUBSET Both]]
    BY <2>1 DEF IInv, Types
  <2>4. QED
    BY <1>1, <1>3, <2>1, <2>2, <2>3 DEF IInv, Types
<1>5. CASE o2_finish(p)
  BY <1>1, <1>3, <1>5 DEF o2_finish, static, IInv, Types
<1>6. QED
  BY <1>4, <1>5

\* A process exits, or calls o2_finish.
LEMMA EndStep ==
    ASSUME IInv, NEW p \in Procs, Exit(p) \/ o2_finish(p)
    PROVE  IInv'
<1>1. Ends(p)
  BY DEF Exit, o2_finish
<1>2. QED
  BY <1>1, EndsGood, EndsTypes DEF IInv

\* No step breaks the invariant.
LEMMA StepGood == IInv /\ [Next]_vars => IInv'
<1> SUFFICES ASSUME IInv, [Next]_vars
             PROVE  IInv'
  OBVIOUS
<1>1. CASE UNCHANGED vars
  <2>1. UNCHANGED <<port, idx, count, lr, hub, conn, udp, ended, reinit, fault>>
    BY <1>1 DEF vars
  <2>2. Types'
    BY <2>1 DEF IInv, Types
  <2>3. QED
    BY <2>1, <2>2, Carry DEF IInv
<1>2. ASSUME NEW p \in Procs,
             \/ o2_discovery_initialize(p) \/ o2_discovery_send_handler(p)
             \/ o2_hub(p) \/ Exit(p) \/ o2_finish(p)
      PROVE  IInv'
  BY <1>2, StartStep, SendStep, HubStep, EndStep
<1>3. ASSUME NEW d \in udp, Receive(d)
      PROVE  IInv'
  BY <1>3, ReceiveStep
<1>4. ASSUME NEW c \in Conns, NEW p \in Procs, o2_discovery_handler(c, p) \/ HangUp(c, p)
      PROVE  IInv'
  BY <1>4, HandlerStep, HangUpStep
<1>5. QED
  BY <1>1, <1>2, <1>3, <1>4 DEF Next

\* In every reachable state running processes have different names, a connection
\* was made by the process with the lesser name, which knows the other by its name
\* as long as it has it open, and no two connections join the same processes.
THEOREM DiscoveryInvariant == Spec => []IInv
<1>1. QED
  BY InitGood, StepGood, PTL DEF Spec

\* The variables of discovery have their types.
THEOREM DiscoveryTypes == Spec => []TypeOK
<1>1. IInv => TypeOK
  BY DEF IInv, Types, Good, Owned, TypeOK
<1>2. QED
  BY <1>1, DiscoveryInvariant, PTL

\* However broadcasts, requests for a connection and introductions by the hub
\* cross each other, and whoever ends or starts again, two processes never have
\* two connections (o2_discovered_a_remote_process_name, create_tcp_proc).
THEOREM NeverTwoConnections == Spec => []OneConnection
<1>1. ASSUME IInv, NEW p \in Procs, NEW q \in Procs, p # q
      PROVE  Cardinality({c \in Conns : /\ conn[c].tag = "proc"
                                        /\ conn[c].ends = {p, q}}) <= 1
  <2> DEFINE S == {c \in Conns : conn[c].tag = "proc" /\ conn[c].ends = {p, q}}
  <2>1. CASE S = {}
    <3>1. Cardinality(S) = 0
      BY <2>1, FS_EmptySet
    <3>2. QED
      BY <3>1
  <2>2. CASE S # {}
    <3>1. PICK c : c \in S
      BY <2>2
    <3>2. S = {c}
      BY <1>1, <3>1 DEF IInv, Good, Unique
    <3>3. Cardinality(S) = 1
      BY <3>2, FS_Singleton
    <3>4. QED
      BY <3>3
  <2>3. QED
    BY <2>1, <2>2
<1>2. IInv => OneConnection
  BY <1>1 DEF OneConnection
<1>3. QED
  BY <1>2, DiscoveryInvariant, PTL
=============================================================================
