----------------------------- MODULE Discovery -----------------------------
(***************************************************************************)
(* How processes of an ensemble find each other, from                      *)
(* src/src/discovery.cpp and src/src/processes.cpp: the choice of a        *)
(* discovery port, the broadcasts, the /_o2/dy messages that lead from a   *)
(* broadcast to one TCP connection between two processes, and the hub.     *)
(* What is exchanged over a connection afterwards is in Services.          *)
(*                                                                         *)
(* The name of a process is its host and its port; names are ordered by    *)
(* Rank as the text "@public:internal:port" is.                            *)
(***************************************************************************)
EXTENDS Integers, Sequences, FiniteSets, FiniteSetsExt

CONSTANTS Procs, Host, Rank,
          PortMax,       \* PORT_MAX, the length of o2_port_map
          o2lite,        \* o2lite_protocol is enabled
          Broadcasts,    \* hosts on which a broadcast can be sent
          HubOf,         \* the name each process passes to o2_hub, or None
          MaxConn, MaxUdp, MaxEnd   \* bounds: sockets, datagrams, processes ended

None == <<"none", 0>>  \* no name
Hosts == {Host[p] : p \in Procs}
Ports == 0..(PortMax - 1)
Names == Hosts \X Ports
Conns == 1..MaxConn
MaxCount == IF o2lite THEN 2 * PortMax ELSE 0

\* Names of processes are different texts, and strcmp orders them.
ASSUME DiscoveryAssumption ==
    /\ PortMax \in Nat \ {0} /\ MaxConn \in Nat /\ MaxUdp \in Nat /\ MaxEnd \in Nat
    /\ o2lite \in BOOLEAN
    /\ \A n \in Names : Rank[n] \in Int /\ \A m \in Names : Rank[m] = Rank[n] => m = n
    /\ \A p \in Procs : HubOf[p] \in Names \cup {None}

VARIABLES port,    \* disc_port_index of each process, -1 when it does not run
          idx,     \* next_disc_index
          count,   \* disc_msg_count as far as it matters: up to MaxCount
          lr,      \* o2_local_remote
          hub,     \* o2_hub_addr
          conn,    \* TCP connections
          udp,     \* broadcasts on their way
          ended,   \* processes that ended so far
          reinit,  \* processes that called o2_finish and then o2_initialize
          fault    \* a NULL key was compared

vars == <<port, idx, count, lr, hub, conn, udp, ended, reinit, fault>>
static == <<idx, count, lr>>

\* ends: who has the socket open; named: who has a Service_provider for it under
\* the name of the other; wire[p]: what p has yet to read; refused: by nobody.
NoConn == [cl |-> None, sv |-> None, tag |-> "free", ends |-> {}, named |-> {},
           refused |-> FALSE, wire |-> [p \in Procs |-> << >>]]
Both == {"local", "remote"}

Init == /\ port = [p \in Procs |-> -1]
        /\ idx = [p \in Procs |-> -1]
        /\ count = [p \in Procs |-> 0]
        /\ lr = [p \in Procs |-> [i \in Ports |-> Both]]
        /\ hub = [p \in Procs |-> None]
        /\ conn = [c \in Conns |-> NoConn]
        /\ udp = {} /\ ended = 0 /\ reinit = {} /\ fault = FALSE

Up(p) == port[p] >= 0
Name(p) == <<Host[p], port[p]>>
At(n) == {p \in Procs : Up(p) /\ Name(p) = n}
Peer(c, p) == IF conn[c].cl = Name(p) THEN conn[c].sv ELSE conn[c].cl
known(p) == {Peer(c, p) : c \in {k \in Conns : p \in conn[k].named}}

\* The first port of the map that is free.
o2_discovery_initialize(p) ==
    LET free == {i \in Ports : At(<<Host[p], i>>) = {}}
    IN /\ ~Up(p) /\ free # {}
       /\ port' = [port EXCEPT ![p] = Min(free)]
       /\ idx' = [idx EXCEPT ![p] = -1]
       /\ lr' = [lr EXCEPT ![p][Min(free)] = @ \ {"local"}]
       /\ hub' = [hub EXCEPT ![p] = None]
       /\ UNCHANGED <<count, conn, udp, ended, reinit, fault>>

\* Mutant: in the end only the own port is sent to.
NextOwnIndex(p) ==
    IF count[p] >= 2 * PortMax \/ ~o2lite THEN port[p]
    ELSE (idx[p] + 1) % PortMax

\* After two rounds only the ports up to our own are sent to.
NextIndex(p) ==
    LET i == (idx[p] + 1) % PortMax
    IN IF count[p] >= 2 * PortMax \/ ~o2lite THEN i % (port[p] + 1) ELSE i

\* A broadcast that fails is not tried again on that port.  Datagrams may be lost.
o2_discovery_send_handler(p) ==
    LET i == NextIndex(p)
        fails == "remote" \in lr[p][i] /\ Host[p] \notin Broadcasts
        there == IF "remote" \in lr[p][i] THEN Hosts \ {Host[p]} ELSE {}
        here == IF "local" \in lr[p][i] THEN {Host[p]} ELSE {}
        msgs == {[to |-> <<h, i>>, from |-> Name(p)] : h \in here \cup there}
    IN /\ ~fault /\ Up(p) /\ hub[p] = None
       /\ idx' = [idx EXCEPT ![p] = i]
       /\ count' = [count EXCEPT ![p] = Min({@ + 1, MaxCount})]
       /\ IF fails THEN /\ lr' = [lr EXCEPT ![p][i] = @ \ {"remote"}]
                        /\ UNCHANGED udp
          ELSE /\ \E m \in SUBSET msgs : /\ Cardinality(udp \cup m) <= MaxUdp
                                        /\ udp' = udp \cup m
               /\ UNCHANGED lr
       /\ UNCHANGED <<port, hub, conn, ended, reinit, fault>>

-----------------------------------------------------------------------------
(* The dy messages.                                                        *)

\* create_tcp_proc and the first message.  A connection nobody accepts is never
\* closed (see Network); a temporary one is of no further use.
Open(cs, p, n, tag, msg) ==
    LET c == Min({k \in Conns : cs[k].tag = "free"})
        q == At(n)
    IN IF q = {} /\ tag = "temp" THEN cs
       ELSE [cs EXCEPT ![c] =
               [cl |-> Name(p), sv |-> n, tag |-> tag, ends |-> {p} \cup q,
                named |-> IF tag = "proc" THEN {p} ELSE {}, refused |-> q = {},
                wire |-> [r \in Procs |-> IF r \in q THEN <<msg>> ELSE << >>]]]

\* Room for the connection and for the one a CALLBACK asks for.
Room(k) == Cardinality({c \in Conns : conn[c].tag = "free"}) >= k

\* Mutant: whoever hears of the other connects.
DiscoveredByAll(cs, p, n) ==
    IF n \in {Name(p)} \cup known(p) THEN cs
    ELSE Open(cs, p, n, "proc", [dy |-> "CONNECT", name |-> Name(p)])

\* o2_discovered_a_remote_process_name with O2_DY_INFO: the process with the
\* greater name asks for a connection, the other one makes it.
Discovered(cs, p, n) ==
    IF n \in {Name(p)} \cup known(p) THEN cs
    ELSE IF Rank[Name(p)] > Rank[n]
    THEN Open(cs, p, n, "temp", [dy |-> "CALLBACK", name |-> Name(p)])
    ELSE Open(cs, p, n, "proc", [dy |-> IF n = hub[p] THEN "HUB" ELSE "CONNECT",
                                 name |-> Name(p)])

\* o2_discovery_handler for a datagram.
Receive(d) ==
    /\ ~fault /\ d \in udp
    /\ \/ At(d.to) = {} /\ UNCHANGED conn
       \/ \E p \in At(d.to) : /\ d.from \in known(p) \/ Room(2)
                             /\ conn' = Discovered(conn, p, d.from)
    /\ udp' = udp \ {d}
    /\ UNCHANGED <<port, static, hub, ended, reinit, fault>>

Send(cs, c, p, msg) ==
    [cs EXCEPT ![c].wire = [r \in Procs |->
        IF r \in cs[c].ends \ {p} THEN Append(@[r], msg) ELSE @[r]]]

\* p closes its end; when both ends are closed nothing is left.
Close(cs, c, p) ==
    IF cs[c].ends \subseteq {p} THEN [cs EXCEPT ![c] = NoConn]
    ELSE [cs EXCEPT ![c].ends = @ \ {p}, ![c].named = @ \ {p},
                    ![c].wire[p] = << >>]

\* Mutant: only the new client is told, even where it may not connect.
IntroducedToNew(cs, p, c) ==
    LET others == {Peer(k, p) : k \in {j \in Conns : /\ cs[j].tag # "free"
                                                    /\ p \in cs[j].named}}
        News == {n \in others : Rank[n] > Rank[Peer(c, p)]}
        Add(w) == FoldSet(LAMBDA n, s : Append(s, [dy |-> "INFO", name |-> n]),
                          w, News)
    IN [cs EXCEPT ![c].wire = [r \in Procs |->
           IF r \in cs[c].ends \ {p} THEN Add(@[r]) ELSE @[r]]]

\* hub_has_new_client: of each pair the one with the lesser name hears of the
\* other.
Introduced(cs, p, c) ==
    LET new == Peer(c, p)
        Told(k) == /\ cs[k].tag # "free" /\ p \in cs[k].named /\ Peer(k, p) # new
        Hears(k) == Told(k) /\ Rank[Peer(k, p)] < Rank[new]
        News == {Peer(k, p) : k \in {j \in Conns : Told(j) /\ ~Hears(j)}}
        Info(n) == [dy |-> "INFO", name |-> n]
        Add(w, r, k) ==
            IF Hears(k) THEN Append(w, Info(new))
            ELSE IF k = c
            THEN FoldSet(LAMBDA n, s : Append(s, Info(n)), w, News)
            ELSE w
    IN [k \in Conns |->
          [cs[k] EXCEPT !.wire = [r \in Procs |->
             IF r \in cs[k].ends \ {p} THEN Add(@[r], r, k) ELSE @[r]]]]

\* A message on a connection.  CALLBACK comes on a temporary connection, which is
\* closed before the sender is treated as discovered.
Handle(cs, c, p, m) ==
    LET named == [cs EXCEPT ![c].named = @ \cup {p}]
        ask == [dy |-> "hub", name |-> Name(p)]
    IN CASE m.dy = "CALLBACK" -> Discovered(Close(cs, c, p), p, m.name)
         [] m.dy = "INFO" -> Discovered(cs, p, m.name)
         [] m.dy = "HUB" ->
                Send(named, c, p, [dy |-> "REPLY", name |-> Name(p)])
         [] m.dy = "CONNECT" ->
                IF m.name = hub[p] THEN Send(named, c, p, ask) ELSE named
         [] m.dy = "REPLY" ->
                IF m.name = hub[p] THEN Send(named, c, p, ask)
                ELSE Close(named, c, p)
         [] OTHER -> Introduced(cs, p, c)

\* The socket has been accepted but its owner has no key yet.
Unnamed(p) == \E k \in Conns : /\ conn[k].tag # "free" /\ p \in conn[k].ends
                               /\ p \notin conn[k].named /\ conn[k].sv = Name(p)

o2_discovery_handler(c, p) ==
    LET m == Head(conn[c].wire[p])
        read == [conn EXCEPT ![c].wire[p] = Tail(@)]
    IN /\ ~fault /\ p \in conn[c].ends /\ conn[c].wire[p] # << >>
       /\ m.dy \in {"CALLBACK", "INFO"} => m.name \in known(p) \/ Room(1)
       /\ conn' = Handle(read, c, p, m)
       /\ fault' = (m.dy = "hub" /\ Unnamed(p))
       /\ UNCHANGED <<port, static, hub, udp, ended, reinit>>

\* The other end is closed: the socket, the Proc_info and its name go.
HangUp(c, p) ==
    /\ ~fault
    /\ conn[c].ends = {p} /\ ~conn[c].refused
    /\ conn' = Close(conn, c, p)
    /\ UNCHANGED <<port, static, hub, udp, ended, reinit, fault>>

\* o2_hub after the public address is known; broadcasts end.
o2_hub(p) ==
    /\ ~fault /\ Up(p) /\ hub[p] = None /\ HubOf[p] # None /\ Room(2)
    /\ hub' = [hub EXCEPT ![p] = HubOf[p]]
    /\ conn' = IF HubOf[p] \in {Name(p)} \cup known(p) THEN conn
               ELSE IF Rank[Name(p)] > Rank[HubOf[p]]
               THEN Open(conn, p, HubOf[p], "temp",
                         [dy |-> "CALLBACK", name |-> Name(p)])
               ELSE Open(conn, p, HubOf[p], "proc",
                         [dy |-> "HUB", name |-> Name(p)])
    /\ UNCHANGED <<port, static, udp, ended, reinit, fault>>

Ends(p) ==
    /\ ~fault /\ Up(p) /\ ended < MaxEnd
    /\ ended' = ended + 1
    /\ port' = [port EXCEPT ![p] = -1]
    /\ conn' = [c \in Conns |-> IF p \in conn[c].ends THEN Close(conn, c, p)[c]
                                ELSE conn[c]]
    /\ hub' = [hub EXCEPT ![p] = None]
    /\ UNCHANGED <<udp, fault>>

\* The process exits, and is started again with fresh statics; or it calls
\* o2_finish, and o2_initialize later: disc_msg_count and o2_local_remote stay.
Exit(p) == /\ Ends(p)
           /\ count' = [count EXCEPT ![p] = 0]
           /\ lr' = [lr EXCEPT ![p] = [i \in Ports |-> Both]]
           /\ UNCHANGED <<idx, reinit>>
o2_finish(p) == /\ Ends(p)
                /\ reinit' = reinit \cup {p}
                /\ UNCHANGED static

Next == \/ \E p \in Procs : \/ o2_discovery_initialize(p)
                            \/ o2_discovery_send_handler(p)
                            \/ o2_hub(p) \/ Exit(p) \/ o2_finish(p)
        \/ \E d \in udp : Receive(d)
        \/ \E c \in Conns, p \in Procs : o2_discovery_handler(c, p) \/ HangUp(c, p)

Spec == Init /\ [][Next]_vars

\* o2_poll serves every socket and every timer; a broadcast that is repeated for
\* ever is not lost for ever.
Fairness ==
    \A p \in Procs :
        /\ WF_vars(o2_discovery_initialize(p))
        /\ WF_vars(o2_discovery_send_handler(p))
        /\ SF_vars(o2_discovery_send_handler(p) /\ udp' # udp)
        /\ SF_vars(\E d \in udp : Receive(d) /\ d.to = Name(p))
        /\ \A c \in Conns : WF_vars(o2_discovery_handler(c, p) \/ HangUp(c, p))

FairSpec == Spec /\ Fairness

-----------------------------------------------------------------------------
(* Properties.                                                             *)

TypeOK ==
    /\ port \in [Procs -> Ports \cup {-1}] /\ idx \in [Procs -> Ports \cup {-1}]
    /\ count \in [Procs -> 0..MaxCount]
    /\ lr \in [Procs -> [Ports -> SUBSET Both]]
    /\ hub \in [Procs -> Names \cup {None}]
    /\ \A c \in Conns : /\ conn[c].tag \in {"free", "temp", "proc"}
                        /\ conn[c].ends \subseteq {p \in Procs : Up(p)}
                        /\ conn[c].named \subseteq conn[c].ends
    /\ udp \subseteq [to : Names, from : Names]
    /\ ended \in 0..MaxEnd /\ reinit \subseteq Procs /\ fault \in BOOLEAN

\* However broadcasts, requests for a connection and introductions by the hub
\* cross each other, two processes are never connected twice: only one of the two
\* may connect, and it remembers that it did.
OneConnection ==
    \A p, q \in Procs : p # q =>
        Cardinality({c \in Conns : /\ conn[c].tag = "proc"
                                   /\ conn[c].ends = {p, q}}) <= 1

\* The connection that carries a request is closed by the process that gets it;
\* none is left over.
TempsClose == \A c \in Conns : []<>(conn[c].tag # "temp" \/ fault)

\* p and q run, their hosts can broadcast, neither has left broadcasting to a hub
\* or has called o2_initialize twice, and none has tried to connect to the other
\* when that was not running.
Stable(p, q) ==
    /\ ~fault /\ Up(p) /\ Up(q) /\ {p, q} \cap reinit = {}
    /\ hub[p] = None /\ hub[q] = None
    /\ {Host[p], Host[q]} \subseteq Broadcasts
    /\ \A c \in Conns : ~conn[c].refused

\* Two processes find each other and stay connected, whichever of them was first
\* and whatever ports they got, though each one sends only to the ports up to its
\* own after a while.
AllMeet ==
    \A p, q \in Procs : p # q =>
        (<>[]Stable(p, q) => <>[](Name(q) \in known(p)))

\* Where nothing can be broadcast, two processes that are connected to the same
\* hub have been introduced to each other when all messages are handled.
HubIntroduces ==
    \A h, p, q \in Procs :
        (/\ Cardinality({h, p, q}) = 3 /\ ~fault
         /\ \A r \in {p, q} : hub[r] = Name(h) /\ Name(h) \in known(r)
         /\ \A c \in Conns : /\ conn[c].tag # "temp" /\ ~conn[c].refused
                             /\ \A r \in Procs : conn[c].wire[r] = << >>)
        => Name(q) \in known(p)
=============================================================================
