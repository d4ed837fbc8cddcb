------------------------------- MODULE O2lite -------------------------------
(***************************************************************************)
(* The session between o2lite clients (src/src/o2lite.c) and their host    *)
(* (src/src/bridge.cpp): connecting, ids, registration of services, clock  *)
(* synchronization over UDP, connections that break and clients that       *)
(* connect again or restart.                                               *)
(***************************************************************************)
EXTENDS Integers, Sequences, FiniteSets, SequencesExt

CONSTANTS Clients,
          Wanted,      \* Wanted[c]: sequence of service names in o2l_services
          MaxConn,     \* bound: connections
          MaxPing,     \* bound: clock_sync_id
          MaxBreak,    \* bound: broken connections and restarts
          MaxOwn,      \* bound: services the host makes itself
          History,     \* CLOCK_SYNC_HISTORY_LEN
          MaxProtocol, \* bound: other bridge protocols made by the host
          LateProtocol \* BOOLEAN: also after clients have connected

ASSUME LiteAssumption ==
    /\ Wanted \in [Clients -> Seq(STRING)]
    /\ "none" \notin Clients
    /\ MaxConn \in Nat /\ History \in Nat
    /\ LateProtocol \in BOOLEAN

Services == UNION {ToSet(Wanted[c]) : c \in Clients}
Conns == 1..MaxConn
None == 0
HOST == -1

VARIABLES tcp_sock,     \* of each client: its connection, or None
          bridge_id,    \* o2l_bridge_id, or -1
          services,     \* o2l_services were set
          sync,         \* pings on, clock_sync_id, ping_reply_count and
                        \* clock_synchronized
          port,         \* udp_recv_port, new for each start of the client
          conn,         \* owner, port, open, info, id, synced, toHost, toClient
          next_id,      \* o2_bridge_next_id
          provider,     \* of each service at the host: None, HOST or connection
          udp,          \* datagrams on their way
          hostsync,     \* o2_clock_is_synchronized
          breaks, own, protocols

client == <<tcp_sock, bridge_id, services, sync, port>>
vars == <<client, conn, next_id, provider, udp, hostsync, breaks, own, protocols>>

\* info is what owns the socket at the host: "none", "proc" or "o2lite".
NoConn == [owner |-> "none", port |-> 0, open |-> FALSE, info |-> "none", id |-> 0,
           synced |-> FALSE, toHost |-> << >>, toClient |-> << >>]
NoSync == [on |-> FALSE, id |-> 0, replies |-> 0, synced |-> FALSE]

Init == /\ tcp_sock = [c \in Clients |-> None]
        /\ bridge_id = [c \in Clients |-> -1]
        /\ services = [c \in Clients |-> FALSE]
        /\ sync = [c \in Clients |-> NoSync]
        /\ port = [c \in Clients |-> 0]
        /\ conn = [k \in Conns |-> NoConn]
        /\ next_id = 1
        /\ provider = [s \in Services |-> None]
        /\ udp = {} /\ hostsync = FALSE
        /\ breaks = 0 /\ own = 0 /\ protocols = 0

instances == {k \in Conns : conn[k].info = "o2lite"}

\* Bridge_protocol::find_loc: the instance with this id, or None.
find(id) == IF \E k \in instances : conn[k].id = id
            THEN CHOOSE k \in instances : conn[k].id = id ELSE None

ToHost(cs, k, msgs) ==
    IF k # None /\ cs[k].open THEN [cs EXCEPT ![k].toHost = @ \o msgs] ELSE cs
ToClient(cs, k, msg) ==
    IF cs[k].open THEN [cs EXCEPT ![k].toClient = Append(@, msg)] ELSE cs

-----------------------------------------------------------------------------
(* The client.                                                             *)

\* The host accepts and makes a Proc_info for the socket.
o2l_network_connect(c) ==
    /\ tcp_sock[c] = None
    /\ \E k \in Conns :
        /\ conn[k] = NoConn /\ \A j \in 1..(k - 1) : conn[j] # NoConn
        /\ tcp_sock' = [tcp_sock EXCEPT ![c] = k]
        /\ conn' = [conn EXCEPT ![k] = [NoConn EXCEPT
               !.owner = c, !.port = port[c], !.open = TRUE, !.info = "proc",
               !.toHost = <<[type |-> "con"]>>]]
    /\ UNCHANGED <<bridge_id, services, sync, port, next_id, provider, udp,
                   hostsync, breaks, own, protocols>>

\* Mutant: only the first name of the list is sent.
send_first_service(c) == <<[type |-> "sv", name |-> Wanted[c][1]]>>

o2l_send_services(c) ==
    [i \in DOMAIN Wanted[c] |-> [type |-> "sv", name |-> Wanted[c][i]]]

o2l_set_services(c) ==
    /\ ~services[c]
    /\ services' = [services EXCEPT ![c] = TRUE]
    /\ conn' = IF bridge_id[c] < 0 THEN conn
               ELSE ToHost(conn, tcp_sock[c], o2l_send_services(c))
    /\ UNCHANGED <<tcp_sock, bridge_id, sync, port, next_id, provider, udp,
                   hostsync, breaks, own, protocols>>

o2l_id_handler(c) ==
    LET k == tcp_sock[c]
    IN /\ k # None /\ conn[k].toClient # << >>
       /\ bridge_id' = [bridge_id EXCEPT ![c] = Head(conn[k].toClient)]
       /\ conn' = ToHost([conn EXCEPT ![k].toClient = Tail(@)], k,
                         IF services[c] THEN o2l_send_services(c) ELSE << >>)
       /\ sync' = [sync EXCEPT ![c].on = TRUE]
       /\ UNCHANGED <<tcp_sock, services, port, next_id, provider, udp, hostsync,
                      breaks, own, protocols>>

disconnect(c) ==
    /\ tcp_sock' = [tcp_sock EXCEPT ![c] = None]
    /\ bridge_id' = [bridge_id EXCEPT ![c] = -1]

\* read_from_tcp finds that the connection is closed, after what was received.
read_from_tcp_closed(c) ==
    LET k == tcp_sock[c]
    IN /\ k # None /\ ~conn[k].open /\ conn[k].toClient = << >>
       /\ disconnect(c)
       /\ UNCHANGED <<services, sync, port, conn, next_id, provider, udp, hostsync,
                      breaks, own, protocols>>

\* A ping is made when its time has come, first after an id was received, also
\* while there is no connection; then o2l_send sends nothing.
clock_ping(c) ==
    /\ sync[c].on /\ sync[c].id < MaxPing
    /\ sync' = [sync EXCEPT ![c].id = @ + 1]
    /\ udp' = IF tcp_sock[c] = None THEN udp
              ELSE udp \cup {[type |-> "get", id |-> bridge_id[c], from |-> c,
                              seqno |-> sync[c].id + 1]}
    /\ UNCHANGED <<tcp_sock, bridge_id, services, port, conn, next_id, provider,
                   hostsync, breaks, own, protocols>>

\* What ping_reply_handler makes of a reply; ping_reply_count is capped.
ping_reply_handler(c, d) ==
    LET s == [sync[c] EXCEPT !.replies = IF @ < History THEN @ + 1 ELSE @]
    IN IF d.seqno # sync[c].id THEN sync[c]
       ELSE [s EXCEPT !.synced = @ \/ s.replies = History]

\* A datagram is only read while there is a connection.
read_from_udp(c, d) ==
    LET s == ping_reply_handler(c, d)
    IN /\ tcp_sock[c] # None /\ d \in udp /\ d.type = "put"
       /\ d.to = c /\ d.port = port[c]
       /\ udp' = udp \ {d}
       /\ sync' = [sync EXCEPT ![c] = s]
       /\ conn' = IF s.synced /\ ~sync[c].synced
                  THEN ToHost(conn, tcp_sock[c], <<[type |-> "cs"]>>) ELSE conn
       /\ UNCHANGED <<tcp_sock, bridge_id, services, port, next_id, provider,
                      hostsync, breaks, own, protocols>>

-----------------------------------------------------------------------------
(* The host.                                                               *)

\* o2lite_con_handler: the socket gets an O2lite_info with a new id.
o2lite_con_handler(k) ==
    /\ IF conn[k].info # "proc"
       THEN conn' = [conn EXCEPT ![k].toHost = Tail(@)] /\ UNCHANGED next_id
       ELSE /\ conn' = ToClient([conn EXCEPT ![k].toHost = Tail(@),
                                             ![k].info = "o2lite",
                                             ![k].id = next_id], k, next_id)
            /\ next_id' = next_id + 1
    /\ UNCHANGED provider

\* o2_bridge_sv_handler: the first one to offer a service keeps it.
o2_bridge_sv_handler(k, s) ==
    /\ conn' = [conn EXCEPT ![k].toHost = Tail(@)]
    /\ provider' = IF conn[k].info = "o2lite" /\ provider[s] = None
                   THEN [provider EXCEPT ![s] = k] ELSE provider
    /\ UNCHANGED next_id

o2_bridge_cscs_handler(k) ==
    /\ conn' = [conn EXCEPT ![k].toHost = Tail(@),
                            ![k].synced = @ \/ conn[k].info = "o2lite"]
    /\ UNCHANGED <<next_id, provider>>

deliver(k) ==
    /\ conn[k].info # "none" /\ conn[k].toHost # << >>
    /\ LET msg == Head(conn[k].toHost)
       IN \/ msg.type = "con" /\ o2lite_con_handler(k)
          \/ msg.type = "sv" /\ o2_bridge_sv_handler(k, msg.name)
          \/ msg.type = "cs" /\ o2_bridge_cscs_handler(k)
    /\ UNCHANGED <<client, udp, hostsync, breaks, own, protocols>>

\* Mutant: the services of the bridge are left.
remove_no_services(k) == provider

\* Bridge_protocol::remove_services(bi).
remove_services(k) ==
    [s \in Services |-> IF provider[s] = k THEN None ELSE provider[s]]

\* The host finds the connection closed and deletes the owner of the socket:
\* ~O2lite_info, ~Bridge_info, or ~Proc_info.
Hangup(k) ==
    /\ conn[k].info # "none" /\ ~conn[k].open /\ conn[k].toHost = << >>
    /\ provider' = remove_services(k)
    /\ conn' = [conn EXCEPT ![k].info = "none"]
    /\ UNCHANGED <<client, next_id, udp, hostsync, breaks, own, protocols>>

\* o2_bridge_csget_handler: the reply to instance k, if there is one and the host
\* has time.
o2_bridge_csget_handler(k, d) ==
    IF k = None \/ ~hostsync THEN {}
    ELSE {[type |-> "put", to |-> conn[k].owner, port |-> conn[k].port,
           from |-> d.from, seqno |-> d.seqno]}

\* The sender is the instance with the id of the message.
o2lite_csget_handler(d) ==
    /\ d \in udp /\ d.type = "get"
    /\ udp' = (udp \ {d}) \cup o2_bridge_csget_handler(find(d.id), d)
    /\ UNCHANGED <<client, conn, next_id, provider, hostsync, breaks, own,
                   protocols>>

\* The host offers a service itself, or stops to.
o2_service_new(s) ==
    /\ own < MaxOwn /\ own' = own + 1
    /\ \/ provider[s] = None /\ provider' = [provider EXCEPT ![s] = HOST]
       \/ provider[s] = HOST /\ provider' = [provider EXCEPT ![s] = None]
    /\ UNCHANGED <<client, conn, next_id, udp, hostsync, breaks, protocols>>

o2_clock_synchronized ==
    /\ ~hostsync /\ hostsync' = TRUE
    /\ UNCHANGED <<client, conn, next_id, provider, udp, breaks, own, protocols>>

\* Bridge_protocol::Bridge_protocol calls o2_bridges_initialize.
Bridge_protocol ==
    /\ protocols < MaxProtocol /\ protocols' = protocols + 1
    /\ LateProtocol \/ next_id = 1
    /\ next_id' = 1
    /\ UNCHANGED <<client, conn, provider, udp, hostsync, breaks, own>>

-----------------------------------------------------------------------------
(* Faults.                                                                 *)

\* A connection breaks; what was sent and not received is lost or not.
Break(k) ==
    /\ conn[k].open /\ breaks < MaxBreak /\ breaks' = breaks + 1
    /\ \E h \in {<< >>, conn[k].toHost}, c \in {<< >>, conn[k].toClient} :
        conn' = [conn EXCEPT ![k].open = FALSE, ![k].toHost = h, ![k].toClient = c]
    /\ UNCHANGED <<client, next_id, provider, udp, hostsync, own, protocols>>

\* A client process ends and starts again.
Restart(c) ==
    /\ breaks < MaxBreak /\ breaks' = breaks + 1
    /\ tcp_sock' = [tcp_sock EXCEPT ![c] = None]
    /\ bridge_id' = [bridge_id EXCEPT ![c] = -1]
    /\ services' = [services EXCEPT ![c] = FALSE]
    /\ sync' = [sync EXCEPT ![c] = NoSync]
    /\ port' = [port EXCEPT ![c] = @ + 1]
    /\ conn' = IF tcp_sock[c] = None THEN conn
               ELSE [conn EXCEPT ![tcp_sock[c]].open = FALSE,
                                 ![tcp_sock[c]].toClient = << >>]
    /\ UNCHANGED <<next_id, provider, udp, hostsync, own, protocols>>

Lose(d) ==
    /\ d \in udp /\ udp' = udp \ {d}
    /\ UNCHANGED <<client, conn, next_id, provider, hostsync, breaks, own,
                   protocols>>

Next == \/ \E c \in Clients : \/ o2l_network_connect(c) \/ o2l_set_services(c)
                              \/ o2l_id_handler(c) \/ read_from_tcp_closed(c)
                              \/ clock_ping(c) \/ Restart(c)
                              \/ \E d \in udp : read_from_udp(c, d)
        \/ \E k \in Conns : deliver(k) \/ Hangup(k) \/ Break(k)
        \/ \E d \in udp : o2lite_csget_handler(d) \/ Lose(d)
        \/ \E s \in Services : o2_service_new(s)
        \/ o2_clock_synchronized \/ Bridge_protocol

Spec == Init /\ [][Next]_vars

-----------------------------------------------------------------------------
(* Properties.                                                             *)

TypeOK ==
    /\ tcp_sock \in [Clients -> Conns \cup {None}]
    /\ bridge_id \in [Clients -> Nat \cup {-1}]
    /\ \A c \in Clients : bridge_id[c] >= 0 => tcp_sock[c] # None
    /\ provider \in [Services -> Conns \cup {None, HOST}]
    /\ \A k \in Conns : /\ conn[k].info \in {"none", "proc", "o2lite"}
                        /\ conn[k].id \in Nat
    /\ \A d \in udp : d.type \in {"get", "put"}

\* A service of the host is never delegated to a bridge instance that was deleted.
ProviderAlive == \A s \in Services : provider[s] \in Conns =>
                     provider[s] \in instances

\* "a unique id for the bridged process" (bridge.h:147): what a client takes for
\* its id finds its own connection at the host, and a connection that has nothing
\* to deliver any more has told the client.
OwnId ==
    \A c \in Clients : tcp_sock[c] \in instances =>
        /\ bridge_id[c] >= 0 => find(bridge_id[c]) = tcp_sock[c]
        /\ conn[tcp_sock[c]].open /\ conn[tcp_sock[c]].toClient = << >> =>
               bridge_id[c] >= 0

\* The time the host sends in answer to a ping goes to the client that asked.
ReplyToSender == \A d \in udp : d.type = "put" => d.to = d.from

Quiet(c) == LET k == tcp_sock[c]
            IN k \in instances /\ conn[k].open /\ conn[k].toHost = << >>

\* A client that has its id and no message on its way to the host finds each of its
\* services offered by somebody, unless one of them had another owner before.
Registered ==
    \A c \in Clients :
        services[c] /\ bridge_id[c] >= 0 /\ Quiet(c) /\ breaks = 0 /\ own = 0
            => \A s \in ToSet(Wanted[c]) : provider[s] \in instances

\* The host knows of a client that has the time that it has it, as long as there
\* was only one connection.
SyncTold == \A c \in Clients : sync[c].synced /\ Quiet(c) /\ breaks = 0 =>
                conn[tcp_sock[c]].synced

\* Whatever breaks and connects again, no service of the host leads to a bridge instance
\* that was deleted, the id a client uses finds its own connection, and the time goes to
\* the client that asked for it (o2lite_con_handler, o2lite_csget_handler).
RightClient == TypeOK /\ ProviderAlive /\ OwnId /\ ReplyToSender

\* When nothing is on its way from a client, the host offers its services and knows
\* whether it has time (o2l_send_services, o2_bridge_cscs_handler).
HostInformed == Registered /\ SyncTold
=============================================================================
