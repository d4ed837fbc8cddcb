------------------------------ MODULE Services ------------------------------
(***************************************************************************)
(* The distributed services database of O2: every process keeps an index   *)
(* from service names to providers and taps (services.cpp), tells all      *)
(* connected processes about its own changes (o2_notify_others in o2.cpp), *)
(* sends its whole list when a connection is made and applies what it is   *)
(* sent (discovery.cpp), and forgets a process when its connection is lost *)
(* (~Proc_info in processes.cpp).                                          *)
(*                                                                         *)
(* A process is a number: the order of the numbers is the strcmp order of  *)
(* the process names "@pip:iip:port".  A service name is a number that is  *)
(* not a process; the index is over Entries, since "@q" is an entry too.   *)
(* A provider (Proxy_info pointer) is Local or the number of a connection. *)
(* Connection numbers are reused once nobody holds the connection, as the  *)
(* allocator reuses the memory of a deleted Proc_info.                     *)
(***************************************************************************)
EXTENDS Integers, Sequences, FiniteSets, SequencesExt

CONSTANTS Procs, Names,
          Props,        \* property values a service may be given
          Taps,         \* the <<tappee, tapper>> pairs a process may assert
          Freeable,     \* the names o2_service_free may be called for
          MaxConn,      \* bound on simultaneous connections
          MaxOps,       \* bound on the number of API calls
          MaxCrash,     \* bound on the number of crashes
          LateHangUp    \* may a new connection overtake the old one's hangup?

ASSUME NamingAssumption ==
    /\ Procs \subseteq Nat \ {0}
    /\ Names \subseteq Nat \ {0}
    /\ Procs \cap Names = {}
    /\ Props \subseteq Nat \ {0}
    /\ Taps \subseteq Names \X Names
    /\ Freeable \subseteq Names
    /\ MaxConn \in Nat /\ MaxOps \in Nat /\ MaxCrash \in Nat
    /\ LateHangUp \in BOOLEAN

Local == 0      \* o2_ctx->proc, or a node owned by it
NoProp == 0     \* properties == NULL, sent as "" or ";"
NoName == 0     \* the empty string in the tappee field
Entries == Names \cup Procs
Conns == 1..MaxConn

VARIABLES alive,      \* the running processes
          tab,        \* tab[p][n]: the Services_entry of n in p's path_tree
          link,       \* link[c]: the TCP connections
          ops, crashes

vars == <<alive, tab, link, ops, crashes>>

\* An entry with neither providers nor taps is not in the tree.
NoEntry == [services |-> << >>, taps |-> << >>]
EmptyTree == [n \in Entries |-> NoEntry]

\* wire[p] is what p has sent and the other end has not yet handled; ends are
\* the processes holding the connection; pending: not yet accepted.
NoLink == [client |-> Local, server |-> Local, ends |-> {}, pending |-> FALSE,
           wire |-> [p \in Procs |-> << >>]]

Init ==
    /\ alive = Procs
    /\ tab = [p \in Procs |-> EmptyTree]
    /\ link = [c \in Conns |-> NoLink]
    /\ ops = 0
    /\ crashes = 0

Other(c, p) == IF link[c].client = p THEN link[c].server ELSE link[c].client

\* The other end of c is closed: p will read end-of-file or an error.
Gone(c, p) ==
    /\ ~(p = link[c].client /\ link[c].pending)
    /\ Other(c, p) \notin link[c].ends

-----------------------------------------------------------------------------
(* Vec::remove fills the hole with the last element.                       *)
VecRemove(s, i) ==
    [j \in 1..(Len(s) - 1) |-> IF j = i THEN s[Len(s)] ELSE s[j]]

\* get_proc_name(): "_o2" for a local node, which is above every "@..." name.
ProcName(p, who) ==
    IF who = Local THEN 1 + CHOOSE m \in Procs : \A q \in Procs : q <= m
    ELSE Other(who, p)

proc_service_index(e, who) ==
    SelectInSeq(e.services, LAMBDA x : x.who = who)

\* Mutant: the hole is filled by Vec::remove and nobody picks.
pick_nobody(p, s) == s

pick_service_provider(p, s) ==
    IF s = << >> THEN s
    ELSE LET Name(i) == ProcName(p, s[i].who)
             top == CHOOSE i \in DOMAIN s : \A j \in DOMAIN s :
                        /\ Name(j) <= Name(i)
                        /\ j < i => Name(j) < Name(i)
         IN  [s EXCEPT ![1] = s[top], ![top] = s[1]]

\* Mutant: the newest provider is always the active one.
add_service_first(p, s, key, x) == <<x>> \o s

\* key is the process name of the new provider, p's own name for Local.
add_service(p, s, key, x) ==
    IF s # << >> /\ key > ProcName(p, Head(s).who)
    THEN <<x>> \o Tail(s) \o <<Head(s)>>
    ELSE Append(s, x)

\* service_provider_new for a remote provider: a known provider is updated.
service_provider_new(p, e, key, who, v) ==
    LET i == proc_service_index(e, who)
        x == [who |-> who, prop |-> v]
    IN  [e EXCEPT !.services = IF i > 0 THEN [@ EXCEPT ![i] = x]
                                        ELSE add_service(p, @, key, x)]

o2_tap_new(e, who, tapper) ==
    LET x == [tapper |-> tapper, who |-> who]
    IN  IF Contains(e.taps, x) THEN e ELSE [e EXCEPT !.taps = Append(@, x)]

\* remove_tap with a tapper: at most one tap.
remove_tap(e, who, tapper) ==
    LET i == SelectInSeq(e.taps,
                         LAMBDA x : x = [tapper |-> tapper, who |-> who])
    IN  IF i = 0 THEN e ELSE [e EXCEPT !.taps = VecRemove(@, i)]

\* remove_tap with tapper == NULL: the index advances after a removal too, so
\* the tap that filled the hole is not looked at.
remove_taps_by(e, who) ==
    [e EXCEPT !.taps = FoldLeftDomain(
        LAMBDA s, i : IF i <= Len(s) /\ s[i].who = who THEN VecRemove(s, i)
                      ELSE s, @, @)]

\* remove_service: the provider goes, a new active one is picked if it was the
\* active one, and the name stops tapping.  When the entry was the last use of
\* its key the name is compared after it was freed; intact says whether the
\* memory still spells it.
remove_service(t, p, n, who, intact) ==
    LET i == proc_service_index(t[n], who)
        s == VecRemove(t[n].services, i)
        u == [t EXCEPT ![n].services =
                           IF i = 1 THEN pick_service_provider(p, s) ELSE s]
    IN  IF intact \/ u[n] # NoEntry
        THEN [k \in Entries |-> remove_tap(u[k], who, n)]
        ELSE u

\* Mutant: the taps that are not by an offered service stay.
remove_services_only(p, who, order, intact) ==
    LET Visit(t, n) == IF proc_service_index(t[n], who) > 0
                       THEN remove_service(t, p, n, who, intact) ELSE t
    IN  FoldLeft(Visit, tab[p], order)

\* remove_services_by walks over a list of the entries made beforehand, in the
\* order of the hash table.  An entry that was freed meanwhile is taken to
\* read as an empty one.
remove_services_by(p, who, order, intact) ==
    LET Visit(t, n) ==
            LET u == IF proc_service_index(t[n], who) > 0
                     THEN remove_service(t, p, n, who, intact) ELSE t
            IN  IF t[n].taps = << >> THEN u
                ELSE [u EXCEPT ![n] = remove_taps_by(@, who)]
    IN  FoldLeft(Visit, tab[p], order)

-----------------------------------------------------------------------------
(* Messages.  An item is one group of arguments of !_o2/sv.                *)
Dy == [type |-> "dy", items |-> << >>]
Sv(items) == [type |-> "sv", items |-> items]

\* send_one_sv_msg: whatever is not the addition of a service is marked as a
\* tap, the removal of a service included.
SvItem(n, added, tappee, v) ==
    LET service == added /\ tappee = NoName
    IN  [name |-> n, added |-> added, service |-> service,
         prop |-> IF service THEN v ELSE NoProp, tappee |-> tappee]

\* o2_notify_others: p sends each item on every connection it holds.  What is
\* sent to a process that has closed its end is read by nobody.
o2_notify_others(p, items) ==
    [c \in Conns |->
        IF p \in link[c].ends /\ ~Gone(c, p)
        THEN [link[c] EXCEPT !.wire[p] =
                  @ \o [i \in DOMAIN items |-> Sv(<<items[i]>>)]]
        ELSE link[c]]

\* o2_send_services: p's own services and taps, in one message.
o2_send_services(p) ==
    LET Offered(n) ==
            LET i == proc_service_index(tab[p][n], Local)
            IN  IF i = 0 THEN << >>
                ELSE <<SvItem(n, TRUE, NoName, tab[p][n].services[i].prop)>>
        Tapped(n) ==
            LET own == SelectSeq(tab[p][n].taps, LAMBDA x : x.who = Local)
            IN  [i \in DOMAIN own |-> SvItem(own[i].tapper, TRUE, n, NoProp)]
    IN  Sv(FlattenSeq([i \in 1..Cardinality(Names) |->
               LET n == SetToSeq(Names)[i] IN Offered(n) \o Tapped(n)]))

\* One turn of the loop of o2_services_handler at p; who is the provider found
\* under the sender's name.  There is no entry named "".
ApplyItem(p, t, who, key, x) ==
    IF x.added /\ x.service
    THEN [t EXCEPT ![x.name] = service_provider_new(p, @, key, who, x.prop)]
    ELSE IF x.added
    THEN [t EXCEPT ![x.tappee] = o2_tap_new(@, who, x.name)]
    ELSE IF x.service
    THEN IF proc_service_index(t[x.name], who) = 0 THEN t
         ELSE remove_service(t, p, x.name, who, TRUE)
    ELSE IF x.tappee = NoName THEN t
    ELSE [t EXCEPT ![x.tappee] = remove_tap(@, who, x.name)]

-----------------------------------------------------------------------------
(* API calls of process p.                                                 *)
Call(p) ==
    /\ p \in alive
    /\ ops < MaxOps
    /\ ops' = ops + 1
    /\ UNCHANGED <<alive, crashes>>

o2_service_new(p, n) ==
    /\ Call(p)
    /\ proc_service_index(tab[p][n], Local) = 0     \* else O2_SERVICE_EXISTS
    /\ tab' = [tab EXCEPT ![p][n] =
                   service_provider_new(p, @, p, Local, NoProp)]
    /\ link' = o2_notify_others(p, <<SvItem(n, TRUE, NoName, NoProp)>>)

\* o2_service_free: others are told that the service is gone, and that each
\* tap by the service is.
o2_service_free(p, n) ==
    /\ Call(p)
    /\ proc_service_index(tab[p][n], Local) > 0     \* else O2_FAIL
    /\ tab' = [tab EXCEPT ![p] = remove_service(@, p, n, Local, TRUE)]
    /\ link' =
        LET tap == [tapper |-> n, who |-> Local]
            tapped == {k \in Names : Contains(tab[p][k].taps, tap)}
        IN  o2_notify_others(p,
                <<SvItem(n, FALSE, NoName, NoProp)>>
                \o [i \in 1..Cardinality(tapped) |->
                        SvItem(n, FALSE, SetToSeq(tapped)[i], NoProp)])

\* o2_service_set_property and, with NoProp, o2_service_property_free.
o2_service_set_property(p, n, v) ==
    LET i == proc_service_index(tab[p][n], Local)
    IN  /\ Call(p)
        /\ i > 0                                    \* else O2_FAIL
        /\ v = NoProp => tab[p][n].services[i].prop # NoProp
        /\ tab' = [tab EXCEPT ![p][n].services[i].prop = v]
        /\ link' = o2_notify_others(p, <<SvItem(n, TRUE, NoName, v)>>)

o2_tap(p, tappee, tapper) ==
    /\ Call(p)
    /\ ~Contains(tab[p][tappee].taps, [tapper |-> tapper, who |-> Local])
    /\ tab' = [tab EXCEPT ![p][tappee] = o2_tap_new(@, Local, tapper)]
    /\ link' = o2_notify_others(p, <<SvItem(tapper, TRUE, tappee, NoProp)>>)

o2_untap(p, tappee, tapper) ==
    /\ Call(p)
    /\ Contains(tab[p][tappee].taps, [tapper |-> tapper, who |-> Local])
    /\ tab' = [tab EXCEPT ![p][tappee] = remove_tap(@, Local, tapper)]
    /\ link' = o2_notify_others(p, <<SvItem(tapper, FALSE, tappee, NoProp)>>)

-----------------------------------------------------------------------------
(* Connections.  The process with the lower name is the client.  It learns *)
(* the name of the server from a discovery message, which may be out of    *)
(* date: then the connection is refused.                                   *)

\* What the client sends first: O2_DY_CONNECT, then its services.
Greet(p) == <<Dy, o2_send_services(p)>>

Connect(c, p, q) ==
    /\ p \in alive /\ p < q
    /\ tab[p][q] = NoEntry      \* else "process already discovered"
    /\ link[c] = NoLink /\ \A d \in Conns : link[d] = NoLink => c <= d
    /\ tab' = [tab EXCEPT ![p][q].services = <<[who |-> c, prop |-> NoProp]>>]
    /\ link' = [link EXCEPT ![c] =
                   [client |-> p, server |-> q, ends |-> {p},
                    pending |-> q \in alive,
                    wire |-> [NoLink.wire EXCEPT
                                 ![p] = IF q \in alive THEN Greet(p)
                                        ELSE << >>]]]
    /\ UNCHANGED <<alive, ops, crashes>>

Accept(c) ==
    /\ link[c].pending
    /\ link' = [link EXCEPT ![c].pending = FALSE,
                            ![c].ends = @ \cup {link[c].server}]
    /\ UNCHANGED <<alive, tab, ops, crashes>>

\* Unless LateHangUp, the end of an earlier connection from the same process
\* is noticed before anything that the new connection brings.
Readable(c, p) ==
    /\ p \in link[c].ends
    /\ link[c].wire[Other(c, p)] # << >>
    /\ LateHangUp \/ \A d \in Conns \ {c} :
           ~(/\ p = link[d].server /\ link[d].client = Other(c, p)
             /\ link[d].client \notin link[d].ends)

Message(c, p) == Head(link[c].wire[Other(c, p)])
Received(c, p) == [link EXCEPT ![c].wire[Other(c, p)] = Tail(@)]

\* Mutant: the server does not send its services in return.
DiscoveryNoReply(c, p) ==
    /\ Readable(c, p)
    /\ Message(c, p).type = "dy"
    /\ LET q == Other(c, p)
       IN  tab' = [tab EXCEPT ![p][q] =
                      service_provider_new(p, @, q, c, NoProp)]
    /\ link' = Received(c, p)
    /\ UNCHANGED <<alive, ops, crashes>>

\* O2_DY_CONNECT at the server: the connection gets a name and is answered
\* with the services of p.
o2_discovery_handler(c, p) ==
    /\ Readable(c, p)
    /\ Message(c, p).type = "dy"
    /\ LET q == Other(c, p)
       IN  tab' = [tab EXCEPT ![p][q] =
                      service_provider_new(p, @, q, c, NoProp)]
    /\ link' = [Received(c, p) EXCEPT ![c].wire[p] =
                    Append(@, o2_send_services(p))]
    /\ UNCHANGED <<alive, ops, crashes>>

\* !_o2/sv: the sender is looked up by its name.
o2_services_handler(c, p) ==
    /\ Readable(c, p)
    /\ Message(c, p).type = "sv"
    /\ LET q == Other(c, p)
           found == tab[p][q].services
       IN  tab' = IF found = << >> THEN tab
                  ELSE [tab EXCEPT ![p] =
                           FoldLeft(LAMBDA t, x :
                                       ApplyItem(p, t, Head(found).who, q, x),
                                    @, Message(c, p).items)]
    /\ link' = Received(c, p)
    /\ UNCHANGED <<alive, ops, crashes>>

\* p closes its end of c; a connection that nobody can use any more is gone.
Closed(l, c, p) ==
    LET ends == l[c].ends \ {p}
        pending == l[c].pending /\ p # l[c].server
    IN  IF ends = {} /\ ~pending THEN [l EXCEPT ![c] = NoLink]
        ELSE [l EXCEPT ![c].ends = ends, ![c].pending = pending,
                       ![c].wire[IF l[c].client = p THEN l[c].server
                                 ELSE l[c].client] = << >>]

\* A hangup deletes the Proc_info, with the services and taps it provides.
\* Data that was still to be read may be lost with it.
HangUp(c, p) ==
    /\ p \in link[c].ends
    /\ Gone(c, p)
    /\ \E order \in SetToSeqs({n \in Entries : tab[p][n] # NoEntry}),
          intact \in BOOLEAN :
           tab' = [tab EXCEPT ![p] = remove_services_by(p, c, order, intact)]
    /\ link' = Closed(link, c, p)
    /\ UNCHANGED <<alive, ops, crashes>>

\* The process ends; the system closes its sockets.
Crash(p) ==
    /\ p \in alive
    /\ crashes < MaxCrash
    /\ crashes' = crashes + 1
    /\ alive' = alive \ {p}
    /\ tab' = [tab EXCEPT ![p] = EmptyTree]
    /\ link' = [c \in Conns |->
                   IF p \in {link[c].client, link[c].server}
                   THEN Closed(link, c, p)[c] ELSE link[c]]
    /\ UNCHANGED ops

\* The process is started again on the same port, hence under the same name.
Restart(p) ==
    /\ p \notin alive
    /\ alive' = alive \cup {p}
    /\ UNCHANGED <<tab, link, ops, crashes>>

Next ==
    \/ \E p \in Procs, n \in Names :
           \/ o2_service_new(p, n)
           \/ \E v \in Props \cup {NoProp} : o2_service_set_property(p, n, v)
    \/ \E p \in Procs, n \in Freeable : o2_service_free(p, n)
    \/ \E p \in Procs, t \in Taps : \/ o2_tap(p, t[1], t[2])
                                    \/ o2_untap(p, t[1], t[2])
    \/ \E c \in Conns, p, q \in Procs : Connect(c, p, q)
    \/ \E c \in Conns : Accept(c)
    \/ \E c \in Conns, p \in Procs :
           \/ o2_discovery_handler(c, p)
           \/ o2_services_handler(c, p)
           \/ HangUp(c, p)
    \/ \E p \in Procs : Crash(p) \/ Restart(p)

Spec == Init /\ [][Next]_vars

\* A state reached from Init without an API call: the processes of each of the
\* pairs have found each other and all messages were handled.  Some runs start from
\* here.
JoinedInit(pairs) ==
    LET Conn(p, q) == CHOOSE c \in DOMAIN pairs : {p, q} = Range(pairs[c])
    IN  /\ alive = Procs
        /\ tab = [p \in Procs |-> [n \in Entries |->
                     IF \E x \in Range(pairs) : n # p /\ Range(x) = {n, p}
                     THEN [NoEntry EXCEPT !.services =
                              <<[who |-> Conn(p, n), prop |-> NoProp]>>]
                     ELSE NoEntry]]
        /\ link = [c \in Conns |->
                      IF c \in DOMAIN pairs
                      THEN [NoLink EXCEPT !.client = pairs[c][1],
                                          !.server = pairs[c][2],
                                          !.ends = Range(pairs[c])]
                      ELSE NoLink]
        /\ ops = 0
        /\ crashes = 0

\* What o2n_recv does at p for the socket of c.
Poll(c, p) ==
    \/ o2_discovery_handler(c, p)
    \/ o2_services_handler(c, p)
    \/ HangUp(c, p)

\* The poll loop serves every socket that is ready and accepts every connection;
\* discovery messages are repeated until the process is known.
Fairness ==
    /\ \A x \in {y \in Procs \X Procs : y[1] < y[2]} :
           WF_vars(\E c \in Conns : Connect(c, x[1], x[2]))
    /\ \A c \in Conns : WF_vars(Accept(c))
    /\ \A c \in Conns, p \in Procs : WF_vars(Poll(c, p))

FairSpec == Spec /\ Fairness

-----------------------------------------------------------------------------
(* Properties                                                              *)

Item == [name : Names, added : BOOLEAN, service : BOOLEAN,
         prop : Props \cup {NoProp}, tappee : Names \cup {NoName}]
IsEntry(e) ==
    /\ e.services \in Seq([who : {Local} \cup Conns, prop : Props \cup {NoProp}])
    /\ e.taps \in Seq([tapper : Names, who : {Local} \cup Conns])
IsLink(l) ==
    /\ {l.client, l.server} \subseteq Procs \cup {Local}
    /\ l.ends \subseteq {l.client, l.server} \cap alive
    /\ l.pending \in BOOLEAN
    /\ \A p \in Procs : \A i \in DOMAIN l.wire[p] :
           /\ l.wire[p][i].type \in {"dy", "sv"}
           /\ Range(l.wire[p][i].items) \subseteq Item

\* Type invariant.  In particular only running processes hold connections, and
\* every sv argument group is one that o2_services_handler can parse.
TypeOK ==
    /\ alive \subseteq Procs
    /\ \A p \in Procs, n \in Entries : IsEntry(tab[p][n])
    /\ \A c \in Conns : IsLink(link[c])
    /\ ops \in 0..MaxOps
    /\ crashes \in 0..MaxCrash

\* Every remote provider in an entry is a connection the process still holds:
\* deleting a Proc_info leaves no provider behind that points to it.
NoDanglingProvider ==
    \A p \in Procs, n \in Entries : \A x \in Range(tab[p][n].services) :
        x.who # Local => p \in link[x.who].ends

\* Likewise for taps, as the comment on ~Proc_info says: "We also remove any
\* taps for proc, because they also would become dangling pointers."
NoDanglingTap ==
    \A p \in Procs, n \in Entries : \A x \in Range(tab[p][n].taps) :
        x.who # Local => p \in link[x.who].ends

\* A provider is in an entry once, however often the service was announced (in
\* the list sent on connection and again by o2_notify_others).
OneProviderPerProcess ==
    \A p \in Procs, n \in Entries :
        LET s == tab[p][n].services
        IN  \A i, j \in DOMAIN s : s[i].who = s[j].who => i = j

Offers(q, n) == proc_service_index(tab[q][n], Local) > 0

\* The name of the process that gets p's messages to service n.
ActiveName(p, n) == LET x == Head(tab[p][n].services)
                    IN  IF x.who = Local THEN p ELSE Other(x.who, p)

\* p and q are connected, and all that either sent by that connection is handled.
Settled(p, q) ==
    \E c \in Conns : /\ link[c].ends = {p, q} /\ ~link[c].pending
                     /\ \A r \in Procs : link[c].wire[r] = << >>

GoesToNoLower(p, q, n) ==
    Settled(p, q) /\ Offers(q, n) =>
        tab[p][n].services # << >> /\ ActiveName(p, n) >= q

\* The messages of p do not go to a process with a lower name than that of another
\* process q which offers the service and has told p, in whatever order providers
\* came and went at p and elsewhere.  That is what o2.cpp and o2.h promise, but for
\* one case, which NeverLower includes: where p offers the service itself, the code
\* goes by the name "_o2" of local nodes.
ServedByHighest ==
    \A p, q \in Procs, n \in Names :
        p # q /\ ~Offers(p, n) => GoesToNoLower(p, q, n)

\* "If matching service names are defined in two different processes, the process
\* with the highest IP and port number (lexicographically) will provide the
\* service" (o2.h): the same without exception, p being one of the two.
NeverLower ==
    \A p, q \in Procs, n \in Names : p # q => GoesToNoLower(p, q, n)

\* The active provider changes only if it is gone or a higher one came: a
\* message stream is not redirected by changes to other providers.
NoNeedlessSwitch ==
    \A p \in Procs, n \in Names :
        LET s == tab[p][n].services
            t == tab'[p][n].services
        IN  s # << >> /\ t # << >> /\ t[1].who # s[1].who =>
                \/ \A x \in Range(t) : x.who # s[1].who
                \/ /\ \A x \in Range(s) : x.who # t[1].who
                   /\ ProcName(p, s[1].who) <
                         IF t[1].who = Local THEN p ELSE ProcName(p, t[1].who)

\* o2_services_handler finds the sender of every sv message under its name,
\* and what it finds is the connection that the message came by.
SenderKnown ==
    \A c \in Conns, p \in Procs :
        Readable(c, p) /\ Message(c, p).type = "sv" =>
            LET s == tab[p][Other(c, p)].services
            IN  s # << >> /\ s[1].who = c

\* q's index agrees with p's on p's own services, properties and taps.
Knows(q, p) ==
    LET From(s) == {x \in Range(s) : x.who # Local /\ Other(x.who, q) = p}
        Own(s) == {x \in Range(s) : x.who = Local}
    IN  \A n \in Names :
            /\ {x.prop : x \in From(tab[q][n].services)} =
                   {x.prop : x \in Own(tab[p][n].services)}
            /\ {x.tapper : x \in From(tab[q][n].taps)} =
                   {x.tapper : x \in Own(tab[p][n].taps)}

Consistent == \A p, q \in alive : p # q => Knows(q, p)

\* "if there are no new changes, all processes will *eventually* acquire
\* consistent information" (o2.cpp); the calls and crashes are bounded, so
\* every behaviour is one in which the changes stop.
EventuallyConsistent == <>[]Consistent
=============================================================================
