---------------------------- MODULE O2liteProofs ----------------------------
(***************************************************************************)
(* Proofs about the o2lite session, for any number of clients, services,   *)
(* connections, failures and pings: services, ids and replies belong to    *)
(* the right client (RightClient), and what a client has told the host     *)
(* arrives (HostInformed).                                                 *)
(***************************************************************************)
EXTENDS O2lite, TLAPS

-----------------------------------------------------------------------------
(* The inductive invariants.                                               *)

HostMsg == [type : {"con", "cs"}] \cup [type : {"sv"}, name : Services]

Connection ==
    [owner : Clients \cup {"none"}, port : Nat, open : BOOLEAN,
     info : {"none", "proc", "o2lite"}, id : Nat, synced : BOOLEAN,
     toHost : Seq(HostMsg), toClient : Seq(Nat)]

SyncState == [on : BOOLEAN, id : Nat, replies : Nat, synced : BOOLEAN]

Datagram == [type : {"get"}, id : Nat \cup {-1}, from : Clients, seqno : Nat]
              \cup [type : {"put"}, to : Clients \cup {"none"}, port : Nat,
                    from : Clients, seqno : Nat]

Types ==
    /\ tcp_sock \in [Clients -> Conns \cup {None}]
    /\ bridge_id \in [Clients -> Nat \cup {-1}]
    /\ services \in [Clients -> BOOLEAN]
    /\ sync \in [Clients -> SyncState]
    /\ port \in [Clients -> Nat]
    /\ conn \in [Conns -> Connection]
    /\ next_id \in Nat \ {0}
    /\ provider \in [Services -> Conns \cup {None, HOST}]
    /\ udp \in SUBSET Datagram
    /\ breaks \in Nat /\ own \in Nat

\* A client's connection is its own; ids are given once, to one connection, and
\* only the id of a connection is on its way on it.
Ids ==
    /\ \A c \in Clients : tcp_sock[c] # None => conn[tcp_sock[c]].owner = c
    /\ \A k \in Conns :
          /\ conn[k].id < next_id
          /\ conn[k].info = "o2lite" => conn[k].id # 0
          /\ conn[k].info = "proc" => conn[k].id = 0
          /\ \A i \in 1..Len(conn[k].toClient) :
                conn[k].toClient[i] = conn[k].id /\ conn[k].id # 0
    /\ \A j, k \in Conns : conn[j].id = conn[k].id /\ conn[k].id # 0 => j = k

\* A client has the id of its connection, or the id is still on its way.
ClientIds ==
    \A c \in Clients :
        /\ bridge_id[c] >= 0 =>
              /\ tcp_sock[c] # None
              /\ bridge_id[c] = conn[tcp_sock[c]].id /\ bridge_id[c] # 0
        /\ tcp_sock[c] \in instances /\ conn[tcp_sock[c]].open
              /\ conn[tcp_sock[c]].toClient = << >> => bridge_id[c] >= 0

\* A ping carries an id that its sender has or had, and no other client will have.
Pings ==
    \A d \in udp :
        /\ d.type = "get" /\ d.id >= 0 =>
              \E k \in Conns : /\ conn[k].id = d.id /\ conn[k].id # 0
                               /\ conn[k].owner = d.from
        /\ d.type = "put" => d.to = d.from

IdInv == Types /\ ProviderAlive /\ Ids /\ ClientIds /\ Pings

\* As long as nothing broke, all connections that were made are open.
AllOpen ==
    breaks = 0 => \A k \in Conns : \/ conn[k] = NoConn
                                   \/ conn[k].open /\ conn[k].info # "none"

\* The services of a client are offered, or the message is on its way.
Offered ==
    /\ own = 0 => \A s \in Services : provider[s] # HOST
    /\ \A c \in Clients :
          services[c] /\ bridge_id[c] >= 0 /\ breaks = 0 /\ own = 0 =>
              \A s \in ToSet(Wanted[c]) :
                  \/ provider[s] \in instances
                  \/ \E i \in 1..Len(conn[tcp_sock[c]].toHost) :
                        conn[tcp_sock[c]].toHost[i] = [type |-> "sv", name |-> s]

\* The host knows that the client has time, or the message is on its way.
Told ==
    breaks = 0 =>
        /\ \A d \in udp : sync[d.from].on
        /\ \A c \in Clients :
              /\ sync[c].synced => sync[c].on
              /\ sync[c].on => tcp_sock[c] \in instances
              /\ sync[c].synced =>
                    \/ conn[tcp_sock[c]].synced
                    \/ \E i \in 1..Len(conn[tcp_sock[c]].toHost) :
                          conn[tcp_sock[c]].toHost[i].type = "cs"

IInv == IdInv /\ AllOpen /\ Offered /\ Told

-----------------------------------------------------------------------------
(* Messages on a connection.                                               *)

\* The messages of o2l_send_services are a sequence that names all the services.
LEMMA SendServices ==
    ASSUME NEW c \in Clients
    PROVE  /\ o2l_send_services(c) \in Seq(HostMsg)
           /\ \A s \in ToSet(Wanted[c]) :
                 /\ s \in Services
                 /\ \E i \in 1..Len(o2l_send_services(c)) :
                       o2l_send_services(c)[i] = [type |-> "sv", name |-> s]
  <1>1. Wanted[c] \in Seq(STRING)
    BY LiteAssumption
  <1>2. DOMAIN Wanted[c] = 1..Len(Wanted[c]) /\ Len(Wanted[c]) \in Nat
    BY <1>1
  <1>3. \A i \in 1..Len(Wanted[c]) : Wanted[c][i] \in ToSet(Wanted[c])
    BY <1>2 DEF ToSet
  <1>4. ToSet(Wanted[c]) \subseteq Services
    BY DEF Services
  <1>5. o2l_send_services(c) =
           [i \in 1..Len(Wanted[c]) |-> [type |-> "sv", name |-> Wanted[c][i]]]
    BY <1>2 DEF o2l_send_services
  <1>6. \A i \in 1..Len(Wanted[c]) : [type |-> "sv", name |-> Wanted[c][i]] \in HostMsg
    BY <1>3, <1>4 DEF HostMsg
  <1>7. o2l_send_services(c) \in Seq(HostMsg)
        /\ Len(o2l_send_services(c)) = Len(Wanted[c])
    BY <1>2, <1>5, <1>6
  <1>8. ASSUME NEW s \in ToSet(Wanted[c])
        PROVE  \E i \in 1..Len(o2l_send_services(c)) :
                   o2l_send_services(c)[i] = [type |-> "sv", name |-> s]
    <2>1. PICK i \in 1..Len(Wanted[c]) : Wanted[c][i] = s
      BY <1>2 DEF ToSet
    <2>2. o2l_send_services(c)[i] = [type |-> "sv", name |-> s]
      BY <1>5, <2>1
    <2> QED  BY <2>1, <2>2, <1>7
  <1> QED  BY <1>4, <1>7, <1>8

\* What is appended to a queue comes after what was there.
LEMMA Appended ==
    ASSUME NEW S, NEW q \in Seq(S), NEW r \in Seq(S)
    PROVE  /\ q \o r \in Seq(S) /\ Len(q \o r) = Len(q) + Len(r)
           /\ \A i \in 1..Len(q) : i \in 1..Len(q \o r) /\ (q \o r)[i] = q[i]
           /\ \A i \in 1..Len(r) : /\ Len(q) + i \in 1..Len(q \o r)
                                   /\ (q \o r)[Len(q) + i] = r[i]
  OBVIOUS

\* ToHost sends on an open connection only and changes nothing but its queue.
LEMMA ToHostFacts ==
    ASSUME NEW cs \in [Conns -> Connection], NEW k \in Conns \cup {None},
           NEW msgs \in Seq(HostMsg)
    PROVE  /\ ToHost(cs, k, msgs) \in [Conns -> Connection]
           /\ \A j \in Conns :
                 /\ ToHost(cs, k, msgs)[j].owner = cs[j].owner
                 /\ ToHost(cs, k, msgs)[j].port = cs[j].port
                 /\ ToHost(cs, k, msgs)[j].open = cs[j].open
                 /\ ToHost(cs, k, msgs)[j].info = cs[j].info
                 /\ ToHost(cs, k, msgs)[j].id = cs[j].id
                 /\ ToHost(cs, k, msgs)[j].synced = cs[j].synced
                 /\ ToHost(cs, k, msgs)[j].toClient = cs[j].toClient
                 /\ ToHost(cs, k, msgs)[j].toHost =
                       IF j = k /\ cs[j].open THEN cs[j].toHost \o msgs
                       ELSE cs[j].toHost
                 /\ j # k => ToHost(cs, k, msgs)[j] = cs[j]
  <1>0. None \notin Conns
    BY LiteAssumption DEF None, Conns
  <1>1. CASE k # None /\ cs[k].open
    <2>1. k \in Conns /\ cs[k] \in Connection
      BY <1>1
    <2>2. cs[k].toHost \o msgs \in Seq(HostMsg)
      BY <2>1, Appended DEF Connection
    <2> DEFINE r == [cs[k] EXCEPT !.toHost = cs[k].toHost \o msgs]
    <2>3. r \in Connection
      BY <2>1, <2>2 DEF Connection
    <2>4. ToHost(cs, k, msgs) = [cs EXCEPT ![k] = r]
      BY <1>1, <2>1 DEF ToHost
    <2>5. /\ r.owner = cs[k].owner /\ r.port = cs[k].port /\ r.open = cs[k].open
          /\ r.info = cs[k].info /\ r.id = cs[k].id /\ r.synced = cs[k].synced
          /\ r.toClient = cs[k].toClient /\ r.toHost = cs[k].toHost \o msgs
      BY <2>1 DEF Connection
    <2> HIDE DEF r
    <2> QED  BY <1>1, <2>1, <2>3, <2>4, <2>5
  <1>2. CASE ~(k # None /\ cs[k].open)
    BY <1>0, <1>2 DEF ToHost
  <1> QED  BY <1>1, <1>2

-----------------------------------------------------------------------------
(* Steps that give no ids and open no connections.                         *)

Harmless ==
    /\ next_id' = next_id
    /\ \A k \in Conns :
          /\ conn'[k].owner = conn[k].owner /\ conn'[k].id = conn[k].id
          /\ conn'[k].info = conn[k].info \/ conn'[k].info = "none"
          /\ \/ conn'[k].toClient = conn[k].toClient
             \/ conn'[k].toClient = << >> /\ ~conn'[k].open
          /\ conn'[k].open => conn[k].open
    /\ \A c \in Clients :
          \/ tcp_sock'[c] = tcp_sock[c] /\ bridge_id'[c] = bridge_id[c]
          \/ tcp_sock'[c] = None /\ bridge_id'[c] = -1
    /\ \A s \in Services :
          provider'[s] \in Conns => conn'[provider'[s]].info = "o2lite"
    /\ \A d \in udp' \ udp :
          /\ d.type = "get" /\ d.id >= 0 =>
                \E k \in Conns : /\ conn[k].id = d.id /\ conn[k].id # 0
                                 /\ conn[k].owner = d.from
          /\ d.type = "put" => d.to = d.from

\* Such a step leaves ids where they are.
LEMMA HarmlessStep ==
    ASSUME IdInv, Types', Harmless
    PROVE  IdInv'
  <1>0. None \notin Conns /\ None = 0
    BY LiteAssumption DEF None, Conns
  <1>1. ProviderAlive'
    BY DEF Types, ProviderAlive, instances, Harmless
  <1>2. Ids'
    <2>1. \A c \in Clients : tcp_sock'[c] # None => conn'[tcp_sock'[c]].owner = c
      <3> SUFFICES ASSUME NEW c \in Clients, tcp_sock'[c] # None
                   PROVE  conn'[tcp_sock'[c]].owner = c
        OBVIOUS
      <3>1. tcp_sock'[c] = tcp_sock[c] /\ tcp_sock[c] \in Conns
        BY DEF Harmless, IdInv, Types
      <3> QED  BY <3>1 DEF IdInv, Ids, Harmless
    <2>2. \A k \in Conns :
             /\ conn'[k].id < next_id'
             /\ conn'[k].info = "o2lite" => conn'[k].id # 0
             /\ conn'[k].info = "proc" => conn'[k].id = 0
      BY DEF IdInv, Ids, Harmless
    <2>3. \A k \in Conns : \A i \in 1..Len(conn'[k].toClient) :
             conn'[k].toClient[i] = conn'[k].id /\ conn'[k].id # 0
      <3> TAKE k \in Conns
      <3>1. CASE conn'[k].toClient = conn[k].toClient
        BY <3>1 DEF IdInv, Ids, Harmless
      <3>2. CASE conn'[k].toClient = << >>
        BY <3>2
      <3> QED  BY <3>1, <3>2 DEF Harmless
    <2>4. \A j, k \in Conns : conn'[j].id = conn'[k].id /\ conn'[k].id # 0 => j = k
      BY DEF IdInv, Ids, Harmless
    <2> QED  BY <2>1, <2>2, <2>3, <2>4 DEF Ids
  <1>3. ClientIds'
    <2> SUFFICES ASSUME NEW c \in Clients
                 PROVE  /\ bridge_id'[c] >= 0 =>
                              /\ tcp_sock'[c] # None
                              /\ bridge_id'[c] = conn'[tcp_sock'[c]].id
                              /\ bridge_id'[c] # 0
                        /\ tcp_sock'[c] \in instances' /\ conn'[tcp_sock'[c]].open
                              /\ conn'[tcp_sock'[c]].toClient = << >>
                              => bridge_id'[c] >= 0
      BY DEF ClientIds
    <2>1. CASE tcp_sock'[c] = None /\ bridge_id'[c] = -1
      BY <2>1, <1>0 DEF instances
    <2>2. CASE /\ tcp_sock'[c] = tcp_sock[c] /\ bridge_id'[c] = bridge_id[c]
               /\ tcp_sock[c] \in Conns
      <3>1. bridge_id[c] >= 0 => /\ bridge_id[c] = conn[tcp_sock[c]].id
                                 /\ bridge_id[c] # 0
        BY DEF IdInv, ClientIds
      <3>2. /\ tcp_sock[c] \in instances /\ conn[tcp_sock[c]].open
                /\ conn[tcp_sock[c]].toClient = << >> => bridge_id[c] >= 0
        BY DEF IdInv, ClientIds
      <3>3. tcp_sock[c] \in instances' => tcp_sock[c] \in instances
        BY DEF instances, Harmless
      <3> QED  BY <2>2, <3>1, <3>2, <3>3, <1>0 DEF Harmless
    <2>3. CASE tcp_sock'[c] = tcp_sock[c] /\ bridge_id'[c] = bridge_id[c]
               /\ tcp_sock[c] = None
      BY <2>3, <1>0 DEF IdInv, ClientIds, instances
    <2> QED  BY <2>1, <2>2, <2>3 DEF Harmless, IdInv, Types
  <1>4. Pings'
    <2> SUFFICES ASSUME NEW d \in udp'
                 PROVE  /\ d.type = "get" /\ d.id >= 0 =>
                              \E k \in Conns : /\ conn'[k].id = d.id /\ conn'[k].id # 0
                                               /\ conn'[k].owner = d.from
                        /\ d.type = "put" => d.to = d.from
      BY DEF Pings
    <2>1. /\ d.type = "get" /\ d.id >= 0 =>
                \E k \in Conns : /\ conn[k].id = d.id /\ conn[k].id # 0
                                 /\ conn[k].owner = d.from
          /\ d.type = "put" => d.to = d.from
      BY DEF IdInv, Pings, Harmless
    <2> QED  BY <2>1 DEF Harmless
  <1> QED  BY <1>1, <1>2, <1>3, <1>4 DEF IdInv

\* Steps that take no message of a client from its queue, end no connection and
\* change neither the services nor what a client knows of its time.
Steady ==
    /\ breaks' = breaks /\ own' = own
    /\ UNCHANGED <<tcp_sock, bridge_id, services, provider>>
    /\ \A k \in Conns :
          /\ conn[k] = NoConn => conn'[k] = NoConn
          /\ conn'[k].open = conn[k].open /\ conn'[k].info = conn[k].info
          /\ conn'[k].synced = conn[k].synced
          /\ \A i \in 1..Len(conn[k].toHost) :
                i \in 1..Len(conn'[k].toHost) /\ conn'[k].toHost[i] = conn[k].toHost[i]

\* What a client has been offered and told does not change in such a step.
LEMMA SteadyStep ==
    ASSUME IInv, Steady,
           \A c \in Clients : sync'[c].on = sync[c].on /\ sync'[c].synced = sync[c].synced,
           \A d \in udp' : d.from \in Clients /\ (breaks = 0 => sync[d.from].on)
    PROVE  AllOpen' /\ Offered' /\ Told'
  <1>1. AllOpen'
    BY DEF IInv, AllOpen, Steady
  <1>2. \A k \in Conns : k \in instances' <=> k \in instances
    BY DEF instances, Steady
  <1>3. instances' \subseteq Conns /\ instances \subseteq Conns
    BY DEF instances
  <1>4. None \notin Conns
    BY LiteAssumption DEF None, Conns
  <1>5. Offered'
    <2>1. own' = 0 => \A s \in Services : provider'[s] # HOST
      BY DEF IInv, Offered, Steady
    <2>2. ASSUME NEW c \in Clients, services'[c], bridge_id'[c] >= 0, breaks' = 0,
                 own' = 0, NEW s \in ToSet(Wanted[c])
          PROVE  \/ provider'[s] \in instances'
                 \/ \E i \in 1..Len(conn'[tcp_sock'[c]].toHost) :
                       conn'[tcp_sock'[c]].toHost[i] = [type |-> "sv", name |-> s]
      <3>1. /\ services[c] /\ bridge_id[c] >= 0 /\ breaks = 0 /\ own = 0
            /\ tcp_sock'[c] = tcp_sock[c] /\ tcp_sock[c] \in Conns
        BY <2>2 DEF Steady, IInv, IdInv, ClientIds, Types
      <3>2. \/ provider[s] \in instances
            \/ \E i \in 1..Len(conn[tcp_sock[c]].toHost) :
                  conn[tcp_sock[c]].toHost[i] = [type |-> "sv", name |-> s]
        BY <3>1 DEF IInv, Offered
      <3> QED  BY <3>1, <3>2, <1>2, <1>3 DEF Steady
    <2> QED  BY <2>1, <2>2 DEF Offered
  <1>6. Told'
    <2> SUFFICES ASSUME breaks' = 0
                 PROVE  /\ \A d \in udp' : sync'[d.from].on
                        /\ \A c \in Clients :
                              /\ sync'[c].synced => sync'[c].on
                              /\ sync'[c].on => tcp_sock'[c] \in instances'
                              /\ sync'[c].synced =>
                                   \/ conn'[tcp_sock'[c]].synced
                                   \/ \E i \in 1..Len(conn'[tcp_sock'[c]].toHost) :
                                        conn'[tcp_sock'[c]].toHost[i].type = "cs"
      BY DEF Told
    <2>1. breaks = 0 /\ tcp_sock' = tcp_sock
      BY DEF Steady
    <2>2. ASSUME NEW c \in Clients
          PROVE  /\ sync'[c].synced => sync'[c].on
                 /\ sync'[c].on => tcp_sock'[c] \in instances'
      BY <2>1, <1>2, <1>3 DEF IInv, Told
    <2>3. ASSUME NEW c \in Clients, sync'[c].synced
          PROVE  \/ conn'[tcp_sock'[c]].synced
                 \/ \E i \in 1..Len(conn'[tcp_sock'[c]].toHost) :
                      conn'[tcp_sock'[c]].toHost[i].type = "cs"
      <3>1. sync[c].synced /\ tcp_sock[c] \in Conns
        BY <2>1, <2>3, <1>3 DEF IInv, Told
      <3>2. \/ conn[tcp_sock[c]].synced
            \/ \E i \in 1..Len(conn[tcp_sock[c]].toHost) :
                 conn[tcp_sock[c]].toHost[i].type = "cs"
        BY <2>1, <3>1 DEF IInv, Told
      <3> QED  BY <2>1, <3>1, <3>2 DEF Steady
    <2> QED  BY <2>1, <2>2, <2>3
  <1> QED  BY <1>1, <1>5, <1>6

\* A failure: there is nothing to be said about what is on its way.
LEMMA BrokenStep ==
    ASSUME IInv, breaks' # 0, provider' = provider, own' = own
    PROVE  AllOpen' /\ Offered' /\ Told'
  BY DEF IInv, AllOpen, Offered, Told

\* With no failures a connection of a client is open at both ends.
LEMMA NoFailure ==
    ASSUME IInv, breaks = 0, NEW c \in Clients, tcp_sock[c] # None
    PROVE  /\ tcp_sock[c] \in Conns /\ conn[tcp_sock[c]] # NoConn
           /\ conn[tcp_sock[c]].open /\ conn[tcp_sock[c]].info # "none"
           /\ conn[tcp_sock[c]].id # 0 => tcp_sock[c] \in instances
  <1>1. tcp_sock[c] \in Conns /\ conn[tcp_sock[c]].owner = c
    BY DEF IInv, IdInv, Types, Ids
  <1>2. conn[tcp_sock[c]] # NoConn
    BY <1>1, LiteAssumption DEF NoConn
  <1>3. conn[tcp_sock[c]].open /\ conn[tcp_sock[c]].info # "none"
    BY <1>1, <1>2 DEF IInv, AllOpen
  <1>4. conn[tcp_sock[c]].info \in {"none", "proc", "o2lite"}
    BY <1>1 DEF IInv, IdInv, Types, Connection
  <1>5. conn[tcp_sock[c]].id # 0 => tcp_sock[c] \in instances
    BY <1>1, <1>3, <1>4 DEF IInv, IdInv, Ids, instances
  <1> QED  BY <1>1, <1>2, <1>3, <1>5

-----------------------------------------------------------------------------
(* One lemma for each step.                                                *)

\* At the beginning no client has a connection.
LEMMA InitIInv == Init => IInv
  <1> SUFFICES ASSUME Init  PROVE IInv
    OBVIOUS
  <1>0. None \notin Conns /\ None = 0 /\ HOST = -1 /\ None # HOST
    BY LiteAssumption DEF None, Conns, HOST
  <1>1. NoConn \in Connection /\ NoSync \in SyncState
    BY DEF NoConn, Connection, NoSync, SyncState
  <1>2. Types
    BY <1>1 DEF Init, Types
  <1>3. \A k \in Conns : conn[k] = NoConn
    BY DEF Init
  <1>4. instances = {}
    BY <1>3 DEF instances, NoConn
  <1>5. ProviderAlive
    BY <1>0 DEF Init, ProviderAlive
  <1>6. Ids
    <2>1. \A k \in Conns : /\ conn[k].id = 0 /\ conn[k].info = "none"
                           /\ conn[k].toClient = << >>
      BY <1>3 DEF NoConn
    <2> QED  BY <2>1 DEF Init, Ids
  <1>7. ClientIds
    BY <1>4 DEF Init, ClientIds
  <1>8. Pings /\ AllOpen
    BY <1>3 DEF Init, Pings, AllOpen
  <1>9. Offered /\ Told
    BY <1>0 DEF Init, Offered, Told, NoSync
  <1> QED  BY <1>2, <1>5, <1>6, <1>7, <1>8, <1>9 DEF IInv, IdInv

\* A client connects; it had no id and no time to tell.
LEMMA ConnectStep ==
    ASSUME IInv, NEW c \in Clients, o2l_network_connect(c)
    PROVE  IInv'
  <1>0. None \notin Conns /\ None = 0 /\ HOST = -1 /\ HOST \notin Conns
    BY LiteAssumption DEF None, Conns, HOST
  <1>1. PICK k \in Conns :
          /\ conn[k] = NoConn
          /\ tcp_sock' = [tcp_sock EXCEPT ![c] = k]
          /\ conn' = [conn EXCEPT ![k] = [NoConn EXCEPT
                 !.owner = c, !.port = port[c], !.open = TRUE, !.info = "proc",
                 !.toHost = <<[type |-> "con"]>>]]
    BY DEF o2l_network_connect
  <1>2. tcp_sock[c] = None /\ UNCHANGED <<bridge_id, services, sync, port, next_id,
               provider, udp, hostsync, breaks, own, protocols>>
    BY DEF o2l_network_connect
  <1> DEFINE r == [NoConn EXCEPT !.owner = c, !.port = port[c], !.open = TRUE,
                                 !.info = "proc", !.toHost = <<[type |-> "con"]>>]
  <1>3. Types /\ conn' = [conn EXCEPT ![k] = r]
    BY <1>1 DEF IInv, IdInv
  <1>n. /\ NoConn \in Connection
        /\ NoConn.id = 0 /\ NoConn.toClient = << >>
    BY DEF NoConn, Connection
  <1>4. r \in Connection
    <2>1. <<[type |-> "con"]>> \in Seq(HostMsg)
      BY DEF HostMsg
    <2>2. port[c] \in Nat
      BY <1>3 DEF Types
    <2> QED  BY <2>1, <2>2, <1>n DEF Connection
  <1>5. /\ r.owner = c /\ r.open /\ r.info = "proc" /\ r.id = 0
        /\ r.toClient = << >>
    BY <1>n DEF Connection
  <1> HIDE DEF r
  <1>6. /\ conn'[k] = r /\ \A j \in Conns \ {k} : conn'[j] = conn[j]
        /\ tcp_sock'[c] = k
        /\ \A x \in Clients \ {c} : tcp_sock'[x] = tcp_sock[x]
    BY <1>1, <1>3 DEF Types
  <1>7. Types'
    BY <1>1, <1>2, <1>3, <1>4 DEF Types
  <1>8. /\ conn[k].owner = "none" /\ conn[k].id = 0 /\ conn[k].info = "none"
    BY <1>1 DEF NoConn
  <1>9. /\ \A x \in Clients : tcp_sock[x] # k
        /\ \A s \in Services : provider[s] # k
    BY <1>0, <1>8, LiteAssumption DEF IInv, IdInv, Ids, ProviderAlive, instances
  <1>10. bridge_id[c] < 0 /\ bridge_id[c] = -1
    BY <1>2, <1>3 DEF IInv, IdInv, ClientIds, Types
  <1>11. instances' = instances
    BY <1>5, <1>6, <1>8 DEF instances
  <1>12. ProviderAlive'
    BY <1>2, <1>11 DEF IInv, IdInv, ProviderAlive
  <1>13. Ids'
    <2>1. \A x \in Clients : tcp_sock'[x] # None => conn'[tcp_sock'[x]].owner = x
      BY <1>3, <1>5, <1>6, <1>9 DEF IInv, IdInv, Ids, Types
    <2>2. \A j \in Conns :
             /\ conn'[j].id < next_id'
             /\ conn'[j].info = "o2lite" => conn'[j].id # 0
             /\ conn'[j].info = "proc" => conn'[j].id = 0
             /\ \A i \in 1..Len(conn'[j].toClient) :
                   conn'[j].toClient[i] = conn'[j].id /\ conn'[j].id # 0
      <3> TAKE j \in Conns
      <3>1. CASE j = k
        BY <3>1, <1>2, <1>3, <1>5, <1>6 DEF Types
      <3>2. CASE j # k
        BY <3>2, <1>2, <1>6 DEF IInv, IdInv, Ids
      <3> QED  BY <3>1, <3>2
    <2>3. \A i, j \in Conns : conn'[i].id = conn'[j].id /\ conn'[j].id # 0 => i = j
      BY <1>5, <1>6 DEF IInv, IdInv, Ids
    <2> QED  BY <2>1, <2>2, <2>3 DEF Ids
  <1>14. ClientIds'
    <2> SUFFICES ASSUME NEW x \in Clients
                 PROVE  /\ bridge_id'[x] >= 0 =>
                              /\ tcp_sock'[x] # None
                              /\ bridge_id'[x] = conn'[tcp_sock'[x]].id
                              /\ bridge_id'[x] # 0
                        /\ tcp_sock'[x] \in instances' /\ conn'[tcp_sock'[x]].open
                              /\ conn'[tcp_sock'[x]].toClient = << >>
                              => bridge_id'[x] >= 0
      BY DEF ClientIds
    <2>1. CASE x = c
      BY <2>1, <1>2, <1>6, <1>8, <1>10, <1>11 DEF instances
    <2>2. CASE x # c
      <3>1. tcp_sock'[x] = tcp_sock[x] /\ tcp_sock[x] # k
        BY <2>2, <1>6, <1>9
      <3>2. tcp_sock[x] # None => conn'[tcp_sock[x]] = conn[tcp_sock[x]]
        BY <3>1, <1>3, <1>6 DEF Types
      <3>3. None \notin instances
        BY <1>0 DEF instances
      <3> QED  BY <3>1, <3>2, <3>3, <1>2, <1>11 DEF IInv, IdInv, ClientIds
    <2> QED  BY <2>1, <2>2
  <1>15. Pings'
    <2> SUFFICES ASSUME NEW d \in udp
                 PROVE  /\ d.type = "get" /\ d.id >= 0 =>
                              \E j \in Conns : /\ conn'[j].id = d.id /\ conn'[j].id # 0
                                               /\ conn'[j].owner = d.from
                        /\ d.type = "put" => d.to = d.from
      BY <1>2 DEF Pings
    <2> QED  BY <1>6, <1>8 DEF IInv, IdInv, Pings
  <1>16. AllOpen'
    BY <1>2, <1>5, <1>6 DEF IInv, AllOpen
  <1>17. Offered'
    <2>1. ASSUME NEW x \in Clients, services[x], bridge_id[x] >= 0, breaks = 0, own = 0,
                 NEW s \in ToSet(Wanted[x])
          PROVE  \/ provider[s] \in instances
                 \/ \E i \in 1..Len(conn'[tcp_sock'[x]].toHost) :
                       conn'[tcp_sock'[x]].toHost[i] = [type |-> "sv", name |-> s]
      <3>1. x # c
        BY <2>1, <1>10
      <3>2. tcp_sock'[x] = tcp_sock[x] /\ tcp_sock[x] # k /\ tcp_sock[x] # None
        BY <2>1, <3>1, <1>6, <1>9 DEF IInv, IdInv, ClientIds
      <3>3. conn'[tcp_sock[x]] = conn[tcp_sock[x]]
        BY <3>2, <1>3, <1>6 DEF Types
      <3> QED  BY <2>1, <3>2, <3>3 DEF IInv, Offered
    <2> QED  BY <2>1, <1>2, <1>11 DEF IInv, Offered
  <1>18. Told'
    <2> SUFFICES ASSUME breaks = 0  PROVE Told'
      BY <1>2 DEF Told
    <2>1. ~sync[c].on /\ ~sync[c].synced
      BY <1>0, <1>2 DEF IInv, Told, instances
    <2>2. ASSUME NEW x \in Clients, sync[x].on
          PROVE  tcp_sock'[x] = tcp_sock[x] /\ conn'[tcp_sock'[x]] = conn[tcp_sock[x]]
      <3>1. x # c /\ tcp_sock[x] \in instances
        BY <2>1, <2>2 DEF IInv, Told
      <3> QED  BY <3>1, <1>6, <1>9 DEF instances
    <2>3. \A x \in Clients : sync[x].synced => sync[x].on
      BY DEF IInv, Told
    <2> QED  BY <2>2, <2>3, <1>2, <1>11 DEF IInv, Told
  <1> QED  BY <1>7, <1>12, <1>13, <1>14, <1>15, <1>16, <1>17, <1>18 DEF IInv, IdInv

\* The services of a client are set, and sent if it has its id.
LEMMA SetServicesStep ==
    ASSUME IInv, NEW c \in Clients, o2l_set_services(c)
    PROVE  IInv'
  <1> DEFINE msgs == o2l_send_services(c)
             k == tcp_sock[c]
             sent == ToHost(conn, k, msgs)
  <1>1. /\ Types /\ services' = [services EXCEPT ![c] = TRUE]
        /\ conn' = IF bridge_id[c] < 0 THEN conn ELSE sent
        /\ UNCHANGED <<tcp_sock, bridge_id, sync, port, next_id, provider, udp,
                       hostsync, breaks, own, protocols>>
    BY DEF o2l_set_services, IInv, IdInv
  <1>2. /\ msgs \in Seq(HostMsg)
        /\ \A s \in ToSet(Wanted[c]) : \E i \in 1..Len(msgs) :
              msgs[i] = [type |-> "sv", name |-> s]
    BY SendServices
  <1>3. k \in Conns \cup {None} /\ conn \in [Conns -> Connection]
    BY <1>1 DEF Types
  <1> HIDE DEF msgs, k
  <1>4. /\ sent \in [Conns -> Connection]
        /\ \A j \in Conns :
              /\ sent[j].owner = conn[j].owner /\ sent[j].open = conn[j].open
              /\ sent[j].info = conn[j].info /\ sent[j].id = conn[j].id
              /\ sent[j].synced = conn[j].synced
              /\ sent[j].toClient = conn[j].toClient
              /\ sent[j].toHost = IF j = k /\ conn[j].open THEN conn[j].toHost \o msgs
                                  ELSE conn[j].toHost
              /\ j # k => sent[j] = conn[j]
    <2> HIDE DEF sent
    <2>1. sent = ToHost(conn, k, msgs)
      BY DEF sent
    <2>2. msgs \in Seq(HostMsg)
      BY <1>2
    <2>3. sent \in [Conns -> Connection]
      BY <2>1, <2>2, <1>3, ToHostFacts
    <2>4. ASSUME NEW j \in Conns
          PROVE  /\ sent[j].owner = conn[j].owner /\ sent[j].open = conn[j].open
                 /\ sent[j].info = conn[j].info /\ sent[j].id = conn[j].id
                 /\ sent[j].synced = conn[j].synced
                 /\ sent[j].toClient = conn[j].toClient
      BY <2>1, <2>2, <1>3, ToHostFacts
    <2>5. ASSUME NEW j \in Conns
          PROVE  /\ sent[j].toHost = IF j = k /\ conn[j].open
                                     THEN conn[j].toHost \o msgs ELSE conn[j].toHost
                 /\ j # k => sent[j] = conn[j]
      BY <2>1, <2>2, <1>3, ToHostFacts
    <2> QED  BY <2>3, <2>4, <2>5
  <1> HIDE DEF sent
  <1>5. /\ conn' \in [Conns -> Connection]
        /\ \A j \in Conns :
              /\ conn'[j].owner = conn[j].owner /\ conn'[j].open = conn[j].open
              /\ conn'[j].info = conn[j].info /\ conn'[j].id = conn[j].id
              /\ conn'[j].synced = conn[j].synced
              /\ conn'[j].toClient = conn[j].toClient
    BY <1>1, <1>3, <1>4
  <1>6. Types'
    BY <1>1, <1>5 DEF Types
  <1>7. Harmless
    BY <1>1, <1>5 DEF Harmless, IInv, IdInv, ProviderAlive, instances
  <1>8. IdInv'
    BY <1>6, <1>7, HarmlessStep DEF IInv
  <1>q. \A j \in Conns : conn[j].toHost \in Seq(HostMsg)
    BY <1>3 DEF Connection
  <1>9. \A j \in Conns : \A i \in 1..Len(conn[j].toHost) :
           i \in 1..Len(conn'[j].toHost) /\ conn'[j].toHost[i] = conn[j].toHost[i]
    <2> TAKE j \in Conns
    <2>1. CASE conn'[j].toHost = conn[j].toHost
      BY <2>1
    <2>2. CASE conn'[j].toHost = conn[j].toHost \o msgs
      BY <2>2, <1>q, <1>2, Appended
    <2> QED  BY <2>1, <2>2, <1>1, <1>4
  <1>10. instances' = instances
    BY <1>5 DEF instances
  <1>z. None \notin Conns
    BY LiteAssumption DEF None, Conns
  <1>11. AllOpen'
    <2>1. breaks = 0 /\ k \in Conns => conn[k] # NoConn
      BY NoFailure, <1>z DEF k
    <2> QED  BY <2>1, <1>1, <1>4, <1>5 DEF IInv, AllOpen
  <1>12. Offered'
    <2> SUFFICES ASSUME NEW x \in Clients, services'[x], bridge_id[x] >= 0, breaks = 0,
                        own = 0, NEW s \in ToSet(Wanted[x])
                 PROVE  \/ provider[s] \in instances
                        \/ \E i \in 1..Len(conn'[tcp_sock[x]].toHost) :
                             conn'[tcp_sock[x]].toHost[i] = [type |-> "sv", name |-> s]
      BY <1>1, <1>10 DEF IInv, Offered
    <2>0. tcp_sock[x] # None /\ tcp_sock[x] \in Conns /\ bridge_id[x] \in Int
      BY <1>1 DEF IInv, IdInv, ClientIds, Types
    <2>1. CASE x # c
      <3>1. services[x]
        BY <2>1, <1>1 DEF Types
      <3>2. \/ provider[s] \in instances
            \/ \E i \in 1..Len(conn[tcp_sock[x]].toHost) :
                 conn[tcp_sock[x]].toHost[i] = [type |-> "sv", name |-> s]
        BY <3>1 DEF IInv, Offered
      <3>3. tcp_sock[x] \in Conns
        BY <2>0
      <3> QED  BY <3>2, <3>3, <1>9
    <2>2. CASE x = c
      <3>1. k \in Conns /\ conn[k].open /\ k = tcp_sock[x]
        BY <2>0, <2>2, NoFailure DEF k
      <3>2. conn'[k].toHost = conn[k].toHost \o msgs
        <4>1. ~(bridge_id[c] < 0)
          BY <2>0, <2>2
        <4>2. conn' = sent
          BY <4>1, <1>1
        <4>3. sent[k].toHost = conn[k].toHost \o msgs
          BY <3>1, <1>4
        <4> QED  BY <4>2, <4>3
      <3>3. PICK i \in 1..Len(msgs) : msgs[i] = [type |-> "sv", name |-> s]
        BY <1>2, <2>2
      <3>4. /\ Len(conn[k].toHost) + i \in 1..Len(conn'[k].toHost)
            /\ conn'[k].toHost[Len(conn[k].toHost) + i] = msgs[i]
        BY <3>1, <3>2, <3>3, <1>q, <1>2, Appended
      <3> QED  BY <3>1, <3>3, <3>4
    <2> QED  BY <2>1, <2>2
  <1>13. Told'
    <2> SUFFICES ASSUME breaks = 0  PROVE Told'
      BY <1>1 DEF Told
    <2>1. \A x \in Clients : sync[x].synced => tcp_sock[x] \in Conns
      BY DEF IInv, Told, instances
    <2>2. ASSUME NEW x \in Clients, sync[x].synced
          PROVE  \/ conn'[tcp_sock[x]].synced
                 \/ \E i \in 1..Len(conn'[tcp_sock[x]].toHost) :
                      conn'[tcp_sock[x]].toHost[i].type = "cs"
      <3>1. tcp_sock[x] \in Conns
        BY <2>1, <2>2
      <3>2. \/ conn[tcp_sock[x]].synced
            \/ \E i \in 1..Len(conn[tcp_sock[x]].toHost) :
                 conn[tcp_sock[x]].toHost[i].type = "cs"
        BY <2>2 DEF IInv, Told
      <3> QED  BY <3>1, <3>2, <1>5, <1>9
    <2> QED  BY <2>2, <1>1, <1>10 DEF IInv, Told
  <1> QED  BY <1>8, <1>11, <1>12, <1>13 DEF IInv

\* The client finds the connection closed: this takes a failure.
LEMMA ClosedStep ==
    ASSUME IInv, NEW c \in Clients, read_from_tcp_closed(c)
    PROVE  IInv'
  <1>1. /\ Types /\ tcp_sock[c] # None /\ ~conn[tcp_sock[c]].open
        /\ tcp_sock' = [tcp_sock EXCEPT ![c] = None]
        /\ bridge_id' = [bridge_id EXCEPT ![c] = -1]
        /\ UNCHANGED <<services, sync, port, conn, next_id, provider, udp, hostsync,
                       breaks, own, protocols>>
    BY DEF read_from_tcp_closed, disconnect, IInv, IdInv
  <1>2. Types'
    BY <1>1 DEF Types
  <1>3. Harmless
    BY <1>1 DEF Harmless, IInv, IdInv, ProviderAlive, instances, Types
  <1>4. IdInv'
    BY <1>2, <1>3, HarmlessStep DEF IInv
  <1>5. breaks # 0
    BY <1>1, NoFailure
  <1> QED  BY <1>1, <1>4, <1>5, BrokenStep DEF IInv

\* A ping is sent with the id of the client.
LEMMA PingStep ==
    ASSUME IInv, NEW c \in Clients, clock_ping(c)
    PROVE  IInv'
  <1> DEFINE d == [type |-> "get", id |-> bridge_id[c], from |-> c,
                   seqno |-> sync[c].id + 1]
  <1>1. /\ Types /\ sync[c].on /\ sync' = [sync EXCEPT ![c].id = @ + 1]
        /\ udp' = IF tcp_sock[c] = None THEN udp ELSE udp \cup {d}
        /\ UNCHANGED <<tcp_sock, bridge_id, services, port, conn, next_id, provider,
                       hostsync, breaks, own, protocols>>
    BY DEF clock_ping, IInv, IdInv
  <1>2. /\ sync' \in [Clients -> SyncState]
        /\ \A x \in Clients : sync'[x].on = sync[x].on /\ sync'[x].synced = sync[x].synced
    <2>1. sync[c] \in SyncState
      BY <1>1 DEF Types
    <2> DEFINE r == [sync[c] EXCEPT !.id = sync[c].id + 1]
    <2>2. r \in SyncState /\ r.on = sync[c].on /\ r.synced = sync[c].synced
      BY <2>1 DEF SyncState
    <2>3. sync' = [sync EXCEPT ![c] = r]
      BY <1>1
    <2> HIDE DEF r
    <2> QED  BY <1>1, <2>2, <2>3 DEF Types
  <1>3. /\ d \in Datagram /\ d.type = "get" /\ d.id = bridge_id[c] /\ d.from = c
    <2>1. sync[c].id + 1 \in Nat /\ bridge_id[c] \in Nat \cup {-1}
      BY <1>1 DEF Types, SyncState
    <2> QED  BY <2>1 DEF Datagram
  <1> HIDE DEF d
  <1>4. Types'
    BY <1>1, <1>2, <1>3 DEF Types
  <1>5. Harmless
    <2>1. bridge_id[c] >= 0 => /\ tcp_sock[c] \in Conns
                               /\ conn[tcp_sock[c]].id = bridge_id[c]
                               /\ conn[tcp_sock[c]].id # 0
                               /\ conn[tcp_sock[c]].owner = c
      BY <1>1 DEF IInv, IdInv, ClientIds, Ids, Types
    <2>2. \A x \in udp' \ udp : x = d
      BY <1>1
    <2> QED  BY <1>1, <1>3, <2>1, <2>2 DEF Harmless, IInv, IdInv, ProviderAlive, instances
  <1>6. IdInv'
    BY <1>4, <1>5, HarmlessStep DEF IInv
  <1>7. \A x \in udp' : x.from \in Clients /\ (breaks = 0 => sync[x.from].on)
    <2>1. \A x \in udp : x.from \in Clients
      BY <1>1 DEF Types, Datagram
    <2> QED  BY <1>1, <1>3, <2>1 DEF IInv, Told
  <1>8. Steady
    BY <1>1 DEF Steady
  <1> QED  BY <1>2, <1>6, <1>7, <1>8, SteadyStep DEF IInv

\* The id arrives: it is the id of the connection, and the services follow.
LEMMA IdStep ==
    ASSUME IInv, NEW c \in Clients, o2l_id_handler(c)
    PROVE  IInv'
  <1>0. None \notin Conns /\ None = 0
    BY LiteAssumption DEF None, Conns
  <1>1. /\ Types /\ tcp_sock[c] \in Conns /\ conn[tcp_sock[c]].toClient # << >>
    BY DEF o2l_id_handler, IInv, IdInv, Types
  <1>k. PICK k \in Conns : k = tcp_sock[c]
    BY <1>1
  <1> DEFINE msgs == IF services[c] THEN o2l_send_services(c) ELSE << >>
             read == [conn[k] EXCEPT !.toClient = Tail(conn[k].toClient)]
             cs == [conn EXCEPT ![k] = read]
             sent == ToHost(cs, k, msgs)
  <1>2. /\ bridge_id' = [bridge_id EXCEPT ![c] = Head(conn[k].toClient)]
        /\ conn' = sent
        /\ sync' = [sync EXCEPT ![c].on = TRUE]
        /\ UNCHANGED <<tcp_sock, services, port, next_id, provider, udp, hostsync,
                       breaks, own, protocols>>
    BY <1>k DEF o2l_id_handler
  <1>3. /\ msgs \in Seq(HostMsg)
        /\ services[c] =>
              \A s \in ToSet(Wanted[c]) : \E i \in 1..Len(msgs) :
                 msgs[i] = [type |-> "sv", name |-> s]
    BY SendServices
  <1> HIDE DEF msgs
  <1>4. /\ conn[k] \in Connection /\ conn[k].toClient \in Seq(Nat)
        /\ conn[k].toClient # << >> /\ conn[k].toHost \in Seq(HostMsg)
    BY <1>1, <1>k DEF Types, Connection
  <1> DEFINE q == conn[k].toClient
  <1>5. /\ Tail(q) \in Seq(Nat) /\ Len(q) \in Nat /\ Len(Tail(q)) = Len(q) - 1
        /\ \A i \in 1..Len(Tail(q)) : i + 1 \in 1..Len(q) /\ Tail(q)[i] = q[i + 1]
        /\ Head(q) = q[1] /\ 1 \in 1..Len(q)
    <2> HIDE DEF q
    <2>1. q \in Seq(Nat) /\ q # << >>
      BY <1>4 DEF q
    <2> QED  BY <2>1
  <1>6. Head(q) = conn[k].id /\ conn[k].id # 0 /\ conn[k].id \in Nat
        /\ \A i \in 1..Len(Tail(q)) : Tail(q)[i] = conn[k].id
    BY <1>4, <1>5 DEF IInv, IdInv, Ids, Connection
  <1>7. /\ read \in Connection /\ read.owner = conn[k].owner /\ read.open = conn[k].open
        /\ read.info = conn[k].info /\ read.id = conn[k].id
        /\ read.synced = conn[k].synced /\ read.toHost = conn[k].toHost
        /\ read.toClient = Tail(q)
    BY <1>4, <1>5 DEF Connection
  <1> HIDE DEF read, q
  <1>8. /\ cs \in [Conns -> Connection] /\ cs[k] = read
        /\ \A j \in Conns \ {k} : cs[j] = conn[j]
    BY <1>1, <1>7 DEF Types
  <1> HIDE DEF cs
  <1>9. /\ sent \in [Conns -> Connection]
        /\ \A j \in Conns :
              /\ sent[j].owner = cs[j].owner /\ sent[j].open = cs[j].open
              /\ sent[j].info = cs[j].info /\ sent[j].id = cs[j].id
              /\ sent[j].synced = cs[j].synced
              /\ sent[j].toClient = cs[j].toClient
              /\ sent[j].toHost = IF j = k /\ cs[j].open THEN cs[j].toHost \o msgs
                                  ELSE cs[j].toHost
              /\ j # k => sent[j] = cs[j]
    BY <1>3, <1>8, ToHostFacts
  <1> HIDE DEF sent
  <1>10. /\ conn' \in [Conns -> Connection]
         /\ \A j \in Conns :
              /\ conn'[j].owner = conn[j].owner /\ conn'[j].open = conn[j].open
              /\ conn'[j].info = conn[j].info /\ conn'[j].id = conn[j].id
              /\ conn'[j].synced = conn[j].synced
         /\ \A j \in Conns \ {k} : conn'[j] = conn[j]
         /\ conn'[k].toClient = Tail(q)
         /\ conn'[k].toHost = IF conn[k].open THEN conn[k].toHost \o msgs
                              ELSE conn[k].toHost
    BY <1>2, <1>7, <1>8, <1>9
  <1>11. /\ bridge_id'[c] = conn[k].id
         /\ \A x \in Clients \ {c} : bridge_id'[x] = bridge_id[x]
         /\ bridge_id' \in [Clients -> Nat \cup {-1}]
    BY <1>1, <1>2, <1>6 DEF Types, q
  <1>12. /\ sync' \in [Clients -> SyncState] /\ sync'[c].on
         /\ sync'[c].synced = sync[c].synced
         /\ \A x \in Clients \ {c} : sync'[x] = sync[x]
    <2>1. sync[c] \in SyncState
      BY <1>1 DEF Types
    <2> DEFINE r == [sync[c] EXCEPT !.on = TRUE]
    <2>2. r \in SyncState /\ r.on /\ r.synced = sync[c].synced
      BY <2>1 DEF SyncState
    <2>3. sync' = [sync EXCEPT ![c] = r]
      BY <1>2
    <2> HIDE DEF r
    <2> QED  BY <1>1, <2>2, <2>3 DEF Types
  <1>13. Types'
    BY <1>1, <1>2, <1>10, <1>11, <1>12 DEF Types
  <1>14. instances' = instances
    BY <1>10 DEF instances
  <1>15. ProviderAlive'
    BY <1>2, <1>14 DEF IInv, IdInv, ProviderAlive
  <1>16. Ids'
    <2>1. \A x \in Clients : tcp_sock'[x] # None => conn'[tcp_sock'[x]].owner = x
      <3> SUFFICES ASSUME NEW x \in Clients, tcp_sock[x] # None
                   PROVE  conn'[tcp_sock[x]].owner = x
        BY <1>2
      <3>1. tcp_sock[x] \in Conns /\ conn[tcp_sock[x]].owner = x
        BY <1>1 DEF IInv, IdInv, Ids, Types
      <3> QED  BY <3>1, <1>10
    <2>2. \A j \in Conns :
             /\ conn'[j].id < next_id'
             /\ conn'[j].info = "o2lite" => conn'[j].id # 0
             /\ conn'[j].info = "proc" => conn'[j].id = 0
      BY <1>2, <1>10 DEF IInv, IdInv, Ids
    <2>3. \A j \in Conns : \A i \in 1..Len(conn'[j].toClient) :
                   conn'[j].toClient[i] = conn'[j].id /\ conn'[j].id # 0
      <3> TAKE j \in Conns
      <3>1. CASE j = k
        BY <3>1, <1>6, <1>10
      <3>2. CASE j # k
        BY <3>2, <1>10 DEF IInv, IdInv, Ids
      <3> QED  BY <3>1, <3>2
    <2>4. \A i, j \in Conns : conn'[i].id = conn'[j].id /\ conn'[j].id # 0 => i = j
      BY <1>10 DEF IInv, IdInv, Ids
    <2> QED  BY <2>1, <2>2, <2>3, <2>4 DEF Ids
  <1>17. \A x \in Clients \ {c} : tcp_sock[x] # k
    BY <1>k, <1>0, <1>1 DEF IInv, IdInv, Ids
  <1>18. ClientIds'
    <2> SUFFICES ASSUME NEW x \in Clients
                 PROVE  /\ bridge_id'[x] >= 0 =>
                              /\ tcp_sock[x] # None
                              /\ bridge_id'[x] = conn'[tcp_sock[x]].id
                              /\ bridge_id'[x] # 0
                        /\ tcp_sock[x] \in instances /\ conn'[tcp_sock[x]].open
                              /\ conn'[tcp_sock[x]].toClient = << >>
                              => bridge_id'[x] >= 0
      BY <1>2, <1>14 DEF ClientIds
    <2>1. CASE x = c
      BY <2>1, <1>0, <1>k, <1>6, <1>10, <1>11
    <2>2. CASE x # c
      <3>1. tcp_sock[x] # None => conn'[tcp_sock[x]] = conn[tcp_sock[x]]
        BY <2>2, <1>1, <1>10, <1>17 DEF Types
      <3>2. None \notin instances
        BY <1>0 DEF instances
      <3> QED  BY <2>2, <3>1, <3>2, <1>11 DEF IInv, IdInv, ClientIds
    <2> QED  BY <2>1, <2>2
  <1>19. Pings'
    BY <1>2, <1>10 DEF IInv, IdInv, Pings
  <1>20. AllOpen'
    <2>1. breaks = 0 => conn[k] # NoConn
      BY <1>k, <1>0, NoFailure
    <2> QED  BY <2>1, <1>2, <1>10 DEF IInv, AllOpen
  <1>21. breaks = 0 => k \in instances /\ conn[k].open
    BY <1>k, <1>0, <1>6, NoFailure
  <1>22. Offered'
    <2> SUFFICES ASSUME NEW x \in Clients, services[x], bridge_id'[x] >= 0, breaks = 0,
                        own = 0, NEW s \in ToSet(Wanted[x])
                 PROVE  \/ provider[s] \in instances
                        \/ \E i \in 1..Len(conn'[tcp_sock[x]].toHost) :
                             conn'[tcp_sock[x]].toHost[i] = [type |-> "sv", name |-> s]
      BY <1>2, <1>14 DEF IInv, Offered
    <2>1. CASE x # c
      <3>1. bridge_id[x] >= 0 /\ tcp_sock[x] # None
        BY <2>1, <1>11 DEF IInv, IdInv, ClientIds
      <3>2. conn'[tcp_sock[x]] = conn[tcp_sock[x]]
        BY <2>1, <3>1, <1>1, <1>10, <1>17 DEF Types
      <3> QED  BY <3>1, <3>2 DEF IInv, Offered
    <2>2. CASE x = c
      <3>1. conn'[k].toHost = conn[k].toHost \o msgs
        BY <1>10, <1>21
      <3>2. PICK i \in 1..Len(msgs) : msgs[i] = [type |-> "sv", name |-> s]
        BY <1>3, <2>2
      <3>3. /\ Len(conn[k].toHost) + i \in 1..Len(conn'[k].toHost)
            /\ conn'[k].toHost[Len(conn[k].toHost) + i] = msgs[i]
        BY <3>1, <3>2, <1>3, <1>4, Appended
      <3> QED  BY <2>2, <3>2, <3>3, <1>k
    <2> QED  BY <2>1, <2>2
  <1>23. Told'
    <2> SUFFICES ASSUME breaks = 0  PROVE Told'
      BY <1>2 DEF Told
    <2>1. \A d \in udp : sync'[d.from].on
      <3>1. \A d \in udp : d.from \in Clients /\ sync[d.from].on
        BY <1>1 DEF IInv, Told, Types, Datagram
      <3> QED  BY <3>1, <1>12
    <2>2. \A x \in Clients : sync'[x].on => tcp_sock[x] \in instances
      BY <1>12, <1>21, <1>k DEF IInv, Told
    <2>3. \A x \in Clients : sync'[x].synced => sync[x].synced /\ sync'[x].on
      BY <1>12 DEF IInv, Told
    <2>4. ASSUME NEW x \in Clients, sync[x].synced
          PROVE  \/ conn'[tcp_sock[x]].synced
                 \/ \E i \in 1..Len(conn'[tcp_sock[x]].toHost) :
                      conn'[tcp_sock[x]].toHost[i].type = "cs"
      <3>1. \/ conn[tcp_sock[x]].synced
            \/ \E i \in 1..Len(conn[tcp_sock[x]].toHost) :
                 conn[tcp_sock[x]].toHost[i].type = "cs"
        BY <2>4 DEF IInv, Told
      <3>2. tcp_sock[x] \in Conns
        BY <2>4 DEF IInv, Told, instances
      <3>3. CASE tcp_sock[x] # k
        BY <3>1, <3>2, <3>3, <1>10
      <3>4. CASE tcp_sock[x] = k
        <4>1. \A i \in 1..Len(conn[k].toHost) :
                 i \in 1..Len(conn'[k].toHost) /\ conn'[k].toHost[i] = conn[k].toHost[i]
          BY <1>3, <1>4, <1>10, Appended
        <4> QED  BY <3>1, <3>4, <4>1, <1>10
      <3> QED  BY <3>3, <3>4
    <2> QED  BY <2>1, <2>2, <2>3, <2>4, <1>2, <1>14 DEF Told
  <1> QED  BY <1>13, <1>15, <1>16, <1>18, <1>19, <1>20, <1>22, <1>23 DEF IInv, IdInv

\* A reply is read: the client may have time now, and then tells the host.
LEMMA ReplyStep ==
    ASSUME IInv, NEW c \in Clients, NEW d \in udp, read_from_udp(c, d)
    PROVE  IInv'
  <1> DEFINE r == ping_reply_handler(c, d)
             k == tcp_sock[c]
             msgs == <<[type |-> "cs"]>>
             sent == ToHost(conn, k, msgs)
  <1>1. /\ Types /\ tcp_sock[c] # None /\ d \in Datagram /\ d.type = "put" /\ d.to = c
        /\ udp' = udp \ {d} /\ sync' = [sync EXCEPT ![c] = r]
        /\ conn' = IF r.synced /\ ~sync[c].synced THEN sent ELSE conn
        /\ UNCHANGED <<tcp_sock, bridge_id, services, port, next_id, provider,
                       hostsync, breaks, own, protocols>>
    BY DEF read_from_udp, IInv, IdInv, Types
  <1>2. k \in Conns /\ conn \in [Conns -> Connection] /\ msgs \in Seq(HostMsg)
        /\ Len(msgs) = 1 /\ msgs[1] = [type |-> "cs"]
    <2>1. [type |-> "cs"] \in HostMsg
      BY DEF HostMsg
    <2> QED  BY <1>1, <2>1 DEF Types
  <1>3. r \in SyncState /\ r.on = sync[c].on /\ (sync[c].synced => r.synced)
    <2>1. sync[c] \in SyncState
      BY <1>1 DEF Types
    <2> DEFINE n == IF sync[c].replies < History THEN sync[c].replies + 1
                    ELSE sync[c].replies
               a == [sync[c] EXCEPT !.replies = n]
               b == [a EXCEPT !.synced = a.synced \/ a.replies = History]
    <2>2. n \in Nat
      BY <2>1, LiteAssumption DEF SyncState
    <2> HIDE DEF n
    <2>3. a \in SyncState /\ a.on = sync[c].on /\ a.synced = sync[c].synced
      BY <2>1, <2>2 DEF SyncState
    <2>4. r = IF d.seqno # sync[c].id THEN sync[c] ELSE b
      BY DEF ping_reply_handler, n
    <2> HIDE DEF a
    <2>5. b \in SyncState /\ b.on = a.on /\ b.synced = (a.synced \/ a.replies = History)
      BY <2>3 DEF SyncState
    <2> HIDE DEF b, r
    <2> QED  BY <2>1, <2>3, <2>4, <2>5
  <1> HIDE DEF r, msgs, k
  <1>4. /\ sent \in [Conns -> Connection]
        /\ \A j \in Conns :
              /\ sent[j].owner = conn[j].owner /\ sent[j].open = conn[j].open
              /\ sent[j].info = conn[j].info /\ sent[j].id = conn[j].id
              /\ sent[j].synced = conn[j].synced
              /\ sent[j].toClient = conn[j].toClient
              /\ sent[j].toHost = IF j = k /\ conn[j].open THEN conn[j].toHost \o msgs
                                  ELSE conn[j].toHost
              /\ j # k => sent[j] = conn[j]
    BY <1>2, ToHostFacts
  <1> HIDE DEF sent
  <1>5. /\ conn' \in [Conns -> Connection]
        /\ \A j \in Conns :
              /\ conn'[j].owner = conn[j].owner /\ conn'[j].open = conn[j].open
              /\ conn'[j].info = conn[j].info /\ conn'[j].id = conn[j].id
              /\ conn'[j].synced = conn[j].synced
              /\ conn'[j].toClient = conn[j].toClient
    BY <1>1, <1>2, <1>4
  <1>6. /\ sync' \in [Clients -> SyncState] /\ sync'[c] = r
        /\ \A x \in Clients \ {c} : sync'[x] = sync[x]
        /\ \A x \in Clients : sync'[x].on = sync[x].on
    BY <1>1, <1>3 DEF Types
  <1>7. Types'
    BY <1>1, <1>5, <1>6 DEF Types
  <1>8. Harmless
    BY <1>1, <1>5 DEF Harmless, IInv, IdInv, ProviderAlive, instances
  <1>9. IdInv'
    BY <1>7, <1>8, HarmlessStep DEF IInv
  <1>q. \A j \in Conns : conn[j].toHost \in Seq(HostMsg)
    BY <1>2 DEF Connection
  <1>10. \A j \in Conns : \A i \in 1..Len(conn[j].toHost) :
           i \in 1..Len(conn'[j].toHost) /\ conn'[j].toHost[i] = conn[j].toHost[i]
    <2> TAKE j \in Conns
    <2>1. CASE conn'[j].toHost = conn[j].toHost
      BY <2>1
    <2>2. CASE conn'[j].toHost = conn[j].toHost \o msgs
      BY <2>2, <1>q, <1>2, Appended
    <2> QED  BY <2>1, <2>2, <1>1, <1>4
  <1>11. instances' = instances
    BY <1>5 DEF instances
  <1>12. AllOpen'
    <2>1. breaks = 0 => conn[k] # NoConn
      BY <1>1, NoFailure DEF k
    <2> QED  BY <2>1, <1>1, <1>2, <1>4, <1>5 DEF IInv, AllOpen
  <1>13. Offered'
    <2> SUFFICES ASSUME NEW x \in Clients, services[x], bridge_id[x] >= 0, breaks = 0,
                        own = 0, NEW s \in ToSet(Wanted[x])
                 PROVE  \/ provider[s] \in instances
                        \/ \E i \in 1..Len(conn'[tcp_sock[x]].toHost) :
                             conn'[tcp_sock[x]].toHost[i] = [type |-> "sv", name |-> s]
      BY <1>1, <1>11 DEF IInv, Offered
    <2>1. tcp_sock[x] \in Conns
      BY <1>1 DEF IInv, IdInv, ClientIds, Types
    <2>2. \/ provider[s] \in instances
          \/ \E i \in 1..Len(conn[tcp_sock[x]].toHost) :
               conn[tcp_sock[x]].toHost[i] = [type |-> "sv", name |-> s]
      BY DEF IInv, Offered
    <2> QED  BY <2>1, <2>2, <1>10
  <1>14. Told'
    <2> SUFFICES ASSUME breaks = 0  PROVE Told'
      BY <1>1 DEF Told
    <2>1. sync[c].on
      <3>1. d.from = c
        BY <1>1 DEF IInv, IdInv, Pings
      <3> QED  BY <3>1 DEF IInv, Told
    <2>2. k \in instances /\ conn[k].open
      BY <2>1, <1>1, NoFailure DEF IInv, Told, k
    <2>3. \A x \in udp' : sync'[x.from].on
      <3>1. \A x \in udp : x.from \in Clients /\ sync[x.from].on
        BY <1>1 DEF IInv, Told, Types, Datagram
      <3> QED  BY <3>1, <1>1, <1>6
    <2>4. \A x \in Clients : sync'[x].on => tcp_sock[x] \in instances
      BY <1>6 DEF IInv, Told
    <2>5. \A x \in Clients : sync'[x].synced => sync'[x].on
      BY <2>1, <1>3, <1>6 DEF IInv, Told
    <2>6. ASSUME NEW x \in Clients, sync'[x].synced
          PROVE  \/ conn'[tcp_sock[x]].synced
                 \/ \E i \in 1..Len(conn'[tcp_sock[x]].toHost) :
                      conn'[tcp_sock[x]].toHost[i].type = "cs"
      <3>1. CASE sync[x].synced
        <4>1. \/ conn[tcp_sock[x]].synced
              \/ \E i \in 1..Len(conn[tcp_sock[x]].toHost) :
                   conn[tcp_sock[x]].toHost[i].type = "cs"
          BY <3>1 DEF IInv, Told
        <4>2. tcp_sock[x] \in Conns
          BY <3>1 DEF IInv, Told, instances
        <4> QED  BY <4>1, <4>2, <1>5, <1>10
      <3>2. CASE ~sync[x].synced
        <4>1. x = c /\ r.synced
          BY <2>6, <3>2, <1>6
        <4>2. conn' = sent
          BY <3>2, <4>1, <1>1
        <4>3. conn'[k].toHost = conn[k].toHost \o msgs
          BY <4>2, <2>2, <1>2, <1>4
        <4>4. 1 \in 1..Len(msgs)
          BY <1>2
        <4>5. /\ Len(conn[k].toHost) + 1 \in 1..Len(conn'[k].toHost)
              /\ conn'[k].toHost[Len(conn[k].toHost) + 1] = msgs[1]
          <5>1. conn[k].toHost \in Seq(HostMsg)
            BY <1>2, <1>q
          <5>2. msgs \in Seq(HostMsg)
            BY <1>2
          <5>3. \A i \in 1..Len(msgs) :
                   /\ Len(conn[k].toHost) + i \in 1..Len(conn[k].toHost \o msgs)
                   /\ (conn[k].toHost \o msgs)[Len(conn[k].toHost) + i] = msgs[i]
            BY ONLY <5>1, <5>2, Appended
          <5> QED  BY <4>3, <4>4, <5>3
        <4>6. msgs[1].type = "cs" /\ k = tcp_sock[x]
          BY <1>2, <4>1 DEF k
        <4> QED  BY <4>5, <4>6
      <3> QED  BY <3>1, <3>2
    <2> QED  BY <2>3, <2>4, <2>5, <2>6, <1>1, <1>11 DEF Told
  <1> QED  BY <1>9, <1>12, <1>13, <1>14 DEF IInv

\* The client process ends and starts again.
LEMMA RestartStep ==
    ASSUME IInv, NEW c \in Clients, Restart(c)
    PROVE  IInv'
  <1>1. /\ Types /\ breaks' = breaks + 1
        /\ tcp_sock' = [tcp_sock EXCEPT ![c] = None]
        /\ bridge_id' = [bridge_id EXCEPT ![c] = -1]
        /\ services' = [services EXCEPT ![c] = FALSE]
        /\ sync' = [sync EXCEPT ![c] = NoSync]
        /\ port' = [port EXCEPT ![c] = @ + 1]
        /\ UNCHANGED <<next_id, provider, udp, hostsync, own, protocols>>
    BY DEF Restart, IInv, IdInv
  <1>2. /\ conn' \in [Conns -> Connection]
        /\ \A j \in Conns :
              /\ conn'[j].owner = conn[j].owner /\ conn'[j].id = conn[j].id
              /\ conn'[j].info = conn[j].info
              /\ \/ conn'[j].toClient = conn[j].toClient
                 \/ conn'[j].toClient = << >> /\ ~conn'[j].open
              /\ conn'[j].open => conn[j].open
    <2>1. CASE tcp_sock[c] = None
      BY <2>1, <1>1 DEF Restart, Types
    <2>2. CASE tcp_sock[c] # None
      <3>1. PICK k \in Conns : k = tcp_sock[c]
        BY <2>2, <1>1 DEF Types
      <3>2. conn[k] \in Connection
        BY <1>1 DEF Types
      <3> DEFINE a == [conn[k] EXCEPT !.open = FALSE]
                 e == << >>
                 b == [a EXCEPT !.toClient = e]
      <3>3. /\ a \in Connection /\ a.owner = conn[k].owner /\ a.id = conn[k].id
            /\ a.info = conn[k].info /\ ~a.open
        BY <3>2 DEF Connection
      <3>4. conn' = [conn EXCEPT ![k] = b]
        BY <2>2, <3>1, <1>1 DEF Restart, Types
      <3>e. e \in Seq(Nat)
        OBVIOUS
      <3> HIDE DEF a, e
      <3>5. /\ b \in Connection /\ b.owner = a.owner /\ b.id = a.id
            /\ b.info = a.info /\ ~b.open /\ b.toClient = e
        BY <3>3, <3>e DEF Connection
      <3> HIDE DEF b
      <3>6. conn'[k] = b /\ \A j \in Conns \ {k} : conn'[j] = conn[j]
        BY <3>4, <1>1 DEF Types
      <3>7. conn' \in [Conns -> Connection]
        BY <3>4, <3>5, <1>1 DEF Types
      <3> QED  BY <3>3, <3>5, <3>6, <3>7 DEF e
    <2> QED  BY <2>1, <2>2
  <1>3. Types'
    <2>1. NoSync \in SyncState
      BY DEF NoSync, SyncState
    <2>2. \A x \in Clients : port[x] + 1 \in Nat
      BY <1>1 DEF Types
    <2> QED  BY <1>1, <1>2, <2>1, <2>2 DEF Types
  <1>4. Harmless
    <2>1. \A x \in Clients : \/ tcp_sock'[x] = tcp_sock[x] /\ bridge_id'[x] = bridge_id[x]
                             \/ tcp_sock'[x] = None /\ bridge_id'[x] = -1
      BY <1>1 DEF Types
    <2> QED  BY <1>1, <1>2, <2>1 DEF Harmless, IInv, IdInv, ProviderAlive, instances
  <1>5. IdInv'
    BY <1>3, <1>4, HarmlessStep DEF IInv
  <1>6. breaks' # 0
    BY <1>1 DEF Types
  <1> QED  BY <1>1, <1>5, <1>6, BrokenStep DEF IInv

\* What is left of a queue when its first message is taken.
LEMMA Rest ==
    ASSUME NEW S, NEW q \in Seq(S), q # << >>
    PROVE  /\ Tail(q) \in Seq(S) /\ Head(q) = q[1] /\ Head(q) \in S
           /\ \A i \in 1..Len(q) :
                 i = 1 \/ (i - 1 \in 1..Len(Tail(q)) /\ Tail(q)[i - 1] = q[i])
  OBVIOUS

\* A message that leaves the queue of a connection has its effect.
LEMMA DeliveredStep ==
    ASSUME IInv, IdInv', NEW k \in Conns,
           conn[k].info # "none", conn[k].toHost # << >>,
           conn'[k].toHost = Tail(conn[k].toHost), conn'[k].open = conn[k].open,
           conn'[k].info # "none",
           conn[k].info = "o2lite" => conn'[k].info = "o2lite",
           conn[k].synced => conn'[k].synced,
           \A j \in Conns \ {k} : conn'[j] = conn[j],
           \A s \in Services : \/ provider'[s] = provider[s]
                               \/ provider[s] = None /\ provider'[s] = k,
           conn[k].info = "o2lite" /\ Head(conn[k].toHost).type = "sv"
               => provider'[Head(conn[k].toHost).name] # None,
           conn[k].info = "o2lite" /\ Head(conn[k].toHost).type = "cs"
               => conn'[k].synced,
           UNCHANGED <<client, udp, breaks, own>>
    PROVE  AllOpen' /\ Offered' /\ Told'
  <1>0. None \notin Conns /\ HOST \notin Conns
    BY LiteAssumption DEF None, Conns, HOST
  <1>u. UNCHANGED <<tcp_sock, bridge_id, services, sync, udp, breaks, own>>
    BY DEF client
  <1>1. AllOpen'
    <2>1. conn[k] # NoConn
      BY DEF NoConn
    <2> QED  BY <2>1, <1>u DEF IInv, AllOpen
  <1>2. \A j \in Conns : j \in instances => j \in instances'
    BY DEF instances
  <1>3. instances \subseteq Conns
    BY DEF instances
  <1>q. conn[k].toHost \in Seq(HostMsg)
    BY DEF IInv, IdInv, Types, Connection
  <1>4. \A i \in 1..Len(conn[k].toHost) :
            \/ conn[k].toHost[i] = Head(conn[k].toHost)
            \/ /\ i - 1 \in 1..Len(conn'[k].toHost)
               /\ conn'[k].toHost[i - 1] = conn[k].toHost[i]
    BY <1>q, Rest
  <1>5. Offered'
    <2>1. own = 0 => \A s \in Services : provider'[s] # HOST
      BY <1>0 DEF IInv, Offered
    <2> SUFFICES ASSUME NEW c \in Clients, services[c], bridge_id[c] >= 0, breaks = 0,
                        own = 0, NEW s \in ToSet(Wanted[c])
                 PROVE  \/ provider'[s] \in instances'
                        \/ \E i \in 1..Len(conn'[tcp_sock[c]].toHost) :
                             conn'[tcp_sock[c]].toHost[i] = [type |-> "sv", name |-> s]
      BY <1>u, <2>1 DEF Offered
    <2>2. /\ tcp_sock[c] # None /\ tcp_sock[c] \in Conns
          /\ conn[tcp_sock[c]].id # 0
      BY DEF IInv, IdInv, ClientIds, Types
    <2>3. conn[tcp_sock[c]].info = "o2lite"
      BY <2>2, NoFailure DEF instances
    <2>s. s \in Services
      BY SendServices
    <2>4. provider'[s] # None => provider'[s] \in instances'
      <3>1. provider'[s] \in Conns \cup {None, HOST}
        BY <2>s DEF IdInv, Types
      <3>2. provider'[s] \in Conns => provider'[s] \in instances'
        BY <2>s DEF IdInv, ProviderAlive
      <3> QED  BY <3>1, <3>2, <2>1, <2>s
    <2>5. \/ provider[s] \in instances
          \/ \E i \in 1..Len(conn[tcp_sock[c]].toHost) :
                conn[tcp_sock[c]].toHost[i] = [type |-> "sv", name |-> s]
      BY DEF IInv, Offered
    <2>6. CASE provider[s] \in instances
      BY <2>6, <2>4, <2>s, <1>0, <1>3
    <2>7. CASE \E i \in 1..Len(conn[tcp_sock[c]].toHost) :
                conn[tcp_sock[c]].toHost[i] = [type |-> "sv", name |-> s]
      <3>1. PICK i \in 1..Len(conn[tcp_sock[c]].toHost) :
                conn[tcp_sock[c]].toHost[i] = [type |-> "sv", name |-> s]
        BY <2>7
      <3>2. CASE tcp_sock[c] # k
        BY <3>1, <3>2, <2>2
      <3>3. CASE tcp_sock[c] = k
        <4>1. CASE conn[k].toHost[i] = Head(conn[k].toHost)
          <5>1. Head(conn[k].toHost).type = "sv" /\ Head(conn[k].toHost).name = s
            BY <3>1, <3>3, <4>1
          <5> QED  BY <5>1, <2>3, <2>4, <3>3
        <4>2. CASE /\ i - 1 \in 1..Len(conn'[k].toHost)
                   /\ conn'[k].toHost[i - 1] = conn[k].toHost[i]
          BY <3>1, <3>3, <4>2
        <4> QED  BY <3>1, <3>3, <4>1, <4>2, <1>4
      <3> QED  BY <3>2, <3>3
    <2> QED  BY <2>5, <2>6, <2>7
  <1>6. Told'
    <2> SUFFICES ASSUME breaks = 0  PROVE Told'
      BY <1>u DEF Told
    <2>1. \A c \in Clients : sync[c].on => tcp_sock[c] \in instances'
      BY <1>2, <1>3 DEF IInv, Told
    <2>2. ASSUME NEW c \in Clients, sync[c].synced
          PROVE  \/ conn'[tcp_sock[c]].synced
                 \/ \E i \in 1..Len(conn'[tcp_sock[c]].toHost) :
                      conn'[tcp_sock[c]].toHost[i].type = "cs"
      <3>1. tcp_sock[c] \in Conns /\ conn[tcp_sock[c]].info = "o2lite"
        BY <2>2 DEF IInv, Told, instances
      <3>2. \/ conn[tcp_sock[c]].synced
            \/ \E i \in 1..Len(conn[tcp_sock[c]].toHost) :
                 conn[tcp_sock[c]].toHost[i].type = "cs"
        BY <2>2 DEF IInv, Told
      <3>3. CASE tcp_sock[c] # k
        BY <3>1, <3>2, <3>3
      <3>4. CASE tcp_sock[c] = k /\ conn[k].synced
        BY <3>4
      <3>5. CASE tcp_sock[c] = k /\ ~conn[k].synced
        <4>1. PICK i \in 1..Len(conn[k].toHost) : conn[k].toHost[i].type = "cs"
          BY <3>2, <3>5
        <4>2. CASE conn[k].toHost[i] = Head(conn[k].toHost)
          BY <3>1, <3>5, <4>1, <4>2
        <4>3. CASE /\ i - 1 \in 1..Len(conn'[k].toHost)
                   /\ conn'[k].toHost[i - 1] = conn[k].toHost[i]
          BY <3>5, <4>1, <4>3
        <4> QED  BY <4>1, <4>2, <4>3, <1>4
      <3> QED  BY <3>3, <3>4, <3>5
    <2> QED  BY <2>1, <2>2, <1>u DEF IInv, Told
  <1> QED  BY <1>1, <1>5, <1>6

\* A connection without the first message for the host.
Taken(r) == [r EXCEPT !.toHost = Tail(r.toHost)]

\* Reading a message from a connection changes nothing else of it.
LEMMA TakenFacts ==
    ASSUME NEW r \in Connection, r.toHost # << >>
    PROVE  /\ Taken(r) \in Connection /\ Taken(r).toHost = Tail(r.toHost)
           /\ Taken(r).owner = r.owner /\ Taken(r).open = r.open
           /\ Taken(r).info = r.info /\ Taken(r).id = r.id
           /\ Taken(r).synced = r.synced /\ Taken(r).toClient = r.toClient
  <1>1. r.toHost \in Seq(HostMsg)
    BY DEF Connection
  <1>2. Tail(r.toHost) \in Seq(HostMsg)
    BY <1>1, Rest
  <1> QED  BY <1>2 DEF Taken, Connection

\* A service is offered: by this connection, if nobody did before.
LEMMA ServiceStep ==
    ASSUME IInv, NEW k \in Conns, conn[k].info # "none", conn[k].toHost # << >>,
           Head(conn[k].toHost).type = "sv",
           o2_bridge_sv_handler(k, Head(conn[k].toHost).name),
           UNCHANGED <<client, udp, breaks, own>>
    PROVE  IInv'
  <1>0. None \notin Conns
    BY LiteAssumption DEF None, Conns
  <1>1. Types /\ conn \in [Conns -> Connection] /\ conn[k] \in Connection
    BY DEF IInv, IdInv, Types
  <1>2. PICK s \in Services : s = Head(conn[k].toHost).name
    <2>1. conn[k].toHost \in Seq(HostMsg)
      BY <1>1 DEF Connection
    <2>2. Head(conn[k].toHost) \in HostMsg
      BY <2>1, Rest
    <2> QED  BY <2>2 DEF HostMsg
  <1>3. /\ conn' = [conn EXCEPT ![k] = Taken(conn[k])]
        /\ provider' = IF conn[k].info = "o2lite" /\ provider[s] = None
                       THEN [provider EXCEPT ![s] = k] ELSE provider
        /\ next_id' = next_id
    BY <1>2 DEF o2_bridge_sv_handler, Taken
  <1>4. conn'[k] = Taken(conn[k]) /\ \A j \in Conns \ {k} : conn'[j] = conn[j]
    BY <1>1, <1>3
  <1>5. /\ conn'[k].toHost = Tail(conn[k].toHost) /\ conn'[k].owner = conn[k].owner
        /\ conn'[k].open = conn[k].open /\ conn'[k].info = conn[k].info
        /\ conn'[k].id = conn[k].id /\ conn'[k].synced = conn[k].synced
        /\ conn'[k].toClient = conn[k].toClient
    BY <1>1, <1>4, TakenFacts
  <1>6. /\ provider' \in [Services -> Conns \cup {None, HOST}]
        /\ provider'[s] = IF conn[k].info = "o2lite" /\ provider[s] = None
                          THEN k ELSE provider[s]
        /\ \A x \in Services \ {s} : provider'[x] = provider[x]
    BY <1>1, <1>3 DEF Types
  <1>7. Types'
    <2>1. conn' \in [Conns -> Connection]
      BY <1>1, <1>3, TakenFacts
    <2> QED  BY <1>1, <1>3, <1>6, <2>1 DEF Types, client
  <1>8. Harmless
    <2>1. \A x \in Services : provider'[x] \in Conns =>
             conn'[provider'[x]].info = "o2lite"
      <3> TAKE x \in Services
      <3>1. CASE provider'[x] = provider[x]
        BY <3>1, <1>4, <1>5 DEF IInv, IdInv, ProviderAlive, instances
      <3>2. CASE provider'[x] = k /\ conn[k].info = "o2lite"
        BY <3>2, <1>5
      <3> QED  BY <3>1, <3>2, <1>6
    <2>2. \A j \in Conns :
            /\ conn'[j].owner = conn[j].owner /\ conn'[j].id = conn[j].id
            /\ conn'[j].info = conn[j].info /\ conn'[j].toClient = conn[j].toClient
            /\ conn'[j].open = conn[j].open
      BY <1>4, <1>5
    <2> QED  BY <1>3, <2>1, <2>2 DEF Harmless, client
  <1>9. IdInv'
    BY <1>7, <1>8, HarmlessStep DEF IInv
  <1>10. \A x \in Services : \/ provider'[x] = provider[x]
                             \/ provider[x] = None /\ provider'[x] = k
    BY <1>6
  <1>11. conn[k].info = "o2lite" /\ Head(conn[k].toHost).type = "sv"
            => provider'[Head(conn[k].toHost).name] # None
    BY <1>0, <1>2, <1>6
  <1>12. AllOpen' /\ Offered' /\ Told'
    BY <1>4, <1>5, <1>9, <1>10, <1>11, DeliveredStep
  <1> QED  BY <1>9, <1>12 DEF IInv

\* The client says that it has time.
LEMMA SyncStep ==
    ASSUME IInv, NEW k \in Conns, conn[k].info # "none", conn[k].toHost # << >>,
           Head(conn[k].toHost).type = "cs", o2_bridge_cscs_handler(k),
           UNCHANGED <<client, udp, breaks, own>>
    PROVE  IInv'
  <1>1. Types /\ conn \in [Conns -> Connection] /\ conn[k] \in Connection
    BY DEF IInv, IdInv, Types
  <1> DEFINE r == Taken(conn[k])
             v == conn[k].synced \/ conn[k].info = "o2lite"
             t == [r EXCEPT !.synced = v]
  <1>2. conn' = [conn EXCEPT ![k] = t] /\ next_id' = next_id /\ provider' = provider
    <2>1. [conn EXCEPT ![k].toHost = Tail(@), ![k].synced = @ \/ conn[k].info = "o2lite"]
            = [conn EXCEPT ![k] = t]
      BY <1>1 DEF Taken, Connection
    <2> QED  BY <2>1 DEF o2_bridge_cscs_handler
  <1>3. /\ r \in Connection /\ r.toHost = Tail(conn[k].toHost)
        /\ r.owner = conn[k].owner /\ r.open = conn[k].open
        /\ r.info = conn[k].info /\ r.id = conn[k].id /\ r.toClient = conn[k].toClient
    BY <1>1, TakenFacts
  <1>v. v \in BOOLEAN
    OBVIOUS
  <1> HIDE DEF r, v
  <1>4. /\ t \in Connection /\ t.synced = v /\ t.toHost = r.toHost
        /\ t.owner = r.owner /\ t.open = r.open
        /\ t.info = r.info /\ t.id = r.id /\ t.toClient = r.toClient
    BY <1>3, <1>v DEF Connection
  <1> HIDE DEF t
  <1>5. conn'[k] = t /\ \A j \in Conns \ {k} : conn'[j] = conn[j]
    BY <1>1, <1>2
  <1>6. /\ conn'[k].toHost = Tail(conn[k].toHost) /\ conn'[k].owner = conn[k].owner
        /\ conn'[k].open = conn[k].open /\ conn'[k].info = conn[k].info
        /\ conn'[k].id = conn[k].id /\ conn'[k].toClient = conn[k].toClient
        /\ conn'[k].synced = v
    BY <1>3, <1>4, <1>5
  <1>7. Types'
    <2>1. conn' \in [Conns -> Connection]
      BY <1>1, <1>2, <1>4
    <2> QED  BY <1>1, <1>2, <2>1 DEF Types, client
  <1>8. Harmless
    <2>2. \A j \in Conns :
            /\ conn'[j].owner = conn[j].owner /\ conn'[j].id = conn[j].id
            /\ conn'[j].info = conn[j].info /\ conn'[j].toClient = conn[j].toClient
            /\ conn'[j].open = conn[j].open
      BY <1>5, <1>6
    <2> QED  BY <1>2, <2>2 DEF Harmless, client, IInv, IdInv, ProviderAlive, instances
  <1>9. IdInv'
    BY <1>7, <1>8, HarmlessStep DEF IInv
  <1>10. /\ conn[k].synced => conn'[k].synced
         /\ conn[k].info = "o2lite" => conn'[k].synced
    BY <1>6 DEF v
  <1>11. \A x \in Services : provider'[x] = provider[x]
    BY <1>2
  <1>12. AllOpen' /\ Offered' /\ Told'
    BY <1>5, <1>6, <1>9, <1>10, <1>11, DeliveredStep
  <1> QED  BY <1>9, <1>12 DEF IInv

\* A second /con of a connection changes nothing.
LEMMA IgnoredConStep ==
    ASSUME IInv, NEW k \in Conns, conn[k].info = "o2lite", conn[k].toHost # << >>,
           Head(conn[k].toHost).type = "con", o2lite_con_handler(k),
           UNCHANGED <<client, udp, breaks, own>>
    PROVE  IInv'
  <1>1. Types /\ conn \in [Conns -> Connection] /\ conn[k] \in Connection
    BY DEF IInv, IdInv, Types
  <1>2. /\ conn' = [conn EXCEPT ![k] = Taken(conn[k])]
        /\ next_id' = next_id /\ provider' = provider
    BY DEF o2lite_con_handler, Taken
  <1>3. conn'[k] = Taken(conn[k]) /\ \A j \in Conns \ {k} : conn'[j] = conn[j]
    BY <1>1, <1>2
  <1>4. /\ conn'[k].toHost = Tail(conn[k].toHost) /\ conn'[k].owner = conn[k].owner
        /\ conn'[k].open = conn[k].open /\ conn'[k].info = conn[k].info
        /\ conn'[k].id = conn[k].id /\ conn'[k].synced = conn[k].synced
        /\ conn'[k].toClient = conn[k].toClient
    BY <1>1, <1>3, TakenFacts
  <1>5. Types'
    <2>1. conn' \in [Conns -> Connection]
      BY <1>1, <1>2, TakenFacts
    <2> QED  BY <1>1, <1>2, <2>1 DEF Types, client
  <1>6. Harmless
    <2>1. \A j \in Conns :
            /\ conn'[j].owner = conn[j].owner /\ conn'[j].id = conn[j].id
            /\ conn'[j].info = conn[j].info /\ conn'[j].toClient = conn[j].toClient
            /\ conn'[j].open = conn[j].open
      BY <1>3, <1>4
    <2> QED  BY <1>2, <2>1 DEF Harmless, client, IInv, IdInv, ProviderAlive, instances
  <1>7. IdInv'
    BY <1>5, <1>6, HarmlessStep DEF IInv
  <1>8. \A x \in Services : provider'[x] = provider[x]
    BY <1>2
  <1>9. AllOpen' /\ Offered' /\ Told'
    BY <1>3, <1>4, <1>7, <1>8, DeliveredStep
  <1> QED  BY <1>7, <1>9 DEF IInv

\* The socket becomes an instance with a new id, which is sent to the client.
LEMMA NewIdStep ==
    ASSUME IInv, NEW k \in Conns, conn[k].info = "proc", conn[k].toHost # << >>,
           Head(conn[k].toHost).type = "con", o2lite_con_handler(k),
           UNCHANGED <<client, udp, breaks, own>>
    PROVE  IInv'
  <1>0. None \notin Conns /\ None = 0
    BY LiteAssumption DEF None, Conns
  <1>1. /\ Types /\ conn \in [Conns -> Connection] /\ conn[k] \in Connection
        /\ next_id \in Nat \ {0}
    BY DEF IInv, IdInv, Types
  <1>u. /\ UNCHANGED <<tcp_sock, bridge_id, services, sync, port>>
        /\ UNCHANGED <<udp, breaks, own>>
    BY DEF client
  <1> DEFINE q == IF conn[k].open THEN <<next_id>> ELSE << >>
             i == "o2lite"
             a == Taken(conn[k])
             b == [a EXCEPT !.info = i]
             d == [b EXCEPT !.id = next_id]
             e == [d EXCEPT !.toClient = q]
  <1>2. conn[k].id = 0 /\ conn[k].toClient = << >>
    <2>1. /\ conn[k].id = 0 /\ conn[k].toClient \in Seq(Nat)
          /\ \A j \in 1..Len(conn[k].toClient) : conn[k].id # 0
      BY <1>1 DEF IInv, IdInv, Ids, Connection
    <2>2. Len(conn[k].toClient) = 0
      BY <2>1
    <2> QED  BY <2>1, <2>2
  <1>3. /\ a \in Connection /\ a.toHost = Tail(conn[k].toHost)
        /\ a.owner = conn[k].owner /\ a.open = conn[k].open
        /\ a.synced = conn[k].synced /\ a.toClient = << >>
    BY <1>1, <1>2, TakenFacts
  <1>q. q \in Seq(Nat) /\ (conn[k].open => q = <<next_id>> /\ q # << >>)
        /\ \A j \in 1..Len(q) : q[j] = next_id
    BY <1>1
  <1>4. conn' = [conn EXCEPT ![k] = e] /\ next_id' = next_id + 1 /\ provider' = provider
    <2> DEFINE cs == [conn EXCEPT ![k].toHost = Tail(@), ![k].info = "o2lite",
                                  ![k].id = next_id]
    <2>1. conn' = ToClient(cs, k, next_id) /\ next_id' = next_id + 1 /\ provider' = provider
      BY DEF o2lite_con_handler
    <2>2. cs = [conn EXCEPT ![k] = d]
      BY <1>1 DEF Taken, Connection
    <2>3. d.open = conn[k].open /\ d.toClient = << >> /\ d \in Connection
      <3>1. b \in Connection /\ b.open = a.open /\ b.toClient = a.toClient
        <4> HIDE DEF a
        <4> QED  BY <1>3 DEF Connection
      <3>2. d.open = b.open /\ d.toClient = b.toClient /\ d \in Connection
        <4> HIDE DEF b
        <4> QED  BY <3>1, <1>1 DEF Connection
      <3> QED  BY <3>1, <3>2, <1>3
    <2> HIDE DEF cs, d
    <2>4. cs[k] = d
      BY <2>2, <1>1
    <2>5. CASE conn[k].open
      <3>1. ToClient(cs, k, next_id) = [cs EXCEPT ![k].toClient = Append(@, next_id)]
        BY <2>3, <2>4, <2>5 DEF ToClient
      <3>2. Append(d.toClient, next_id) = q
        BY <2>3, <2>5
      <3>3. [cs EXCEPT ![k].toClient = Append(@, next_id)] = [cs EXCEPT ![k] = e]
        BY <2>4, <3>2
      <3>4. [cs EXCEPT ![k] = e] = [conn EXCEPT ![k] = e]
        BY <2>2
      <3> QED  BY <2>1, <3>1, <3>3, <3>4
    <2>6. CASE ~conn[k].open
      <3>1. ToClient(cs, k, next_id) = cs
        BY <2>3, <2>4, <2>6 DEF ToClient
      <3>2. q = d.toClient
        BY <2>3, <2>6
      <3>3. e = d
        <4> HIDE DEF q
        <4> QED  BY <2>3, <3>2 DEF Connection
      <3> QED  BY <2>1, <2>2, <3>1, <3>3
    <2> QED  BY <2>1, <2>5, <2>6
  <1>5. /\ e \in Connection /\ e.toHost = a.toHost /\ e.owner = a.owner
        /\ e.open = a.open /\ e.synced = a.synced /\ e.toClient = q
        /\ e.info = "o2lite" /\ e.id = next_id
    <2>1. /\ b \in Connection /\ b.toHost = a.toHost /\ b.owner = a.owner
          /\ b.open = a.open /\ b.synced = a.synced /\ b.info = "o2lite"
      <3> HIDE DEF a
      <3> QED  BY <1>3 DEF Connection
    <2> HIDE DEF b
    <2>2. /\ d \in Connection /\ d.toHost = b.toHost /\ d.owner = b.owner
          /\ d.open = b.open /\ d.synced = b.synced /\ d.info = b.info /\ d.id = next_id
      BY <1>1, <2>1 DEF Connection
    <2> HIDE DEF d, q
    <2>3. /\ e \in Connection /\ e.toHost = d.toHost /\ e.owner = d.owner
          /\ e.open = d.open /\ e.synced = d.synced /\ e.info = d.info /\ e.id = d.id
          /\ e.toClient = q
      BY <1>q, <2>2 DEF Connection
    <2> QED  BY <2>1, <2>2, <2>3
  <1> HIDE DEF a, b, d, e, q
  <1>6. /\ conn'[k] = e /\ \A j \in Conns \ {k} : conn'[j] = conn[j]
        /\ conn' \in [Conns -> Connection]
    BY <1>1, <1>4, <1>5
  <1>7. /\ conn'[k].toHost = Tail(conn[k].toHost) /\ conn'[k].owner = conn[k].owner
        /\ conn'[k].open = conn[k].open /\ conn'[k].synced = conn[k].synced
        /\ conn'[k].info = "o2lite" /\ conn'[k].id = next_id /\ conn'[k].toClient = q
    BY <1>3, <1>5, <1>6
  <1>8. Types'
    <2>1. next_id + 1 \in Nat \ {0}
      BY <1>1
    <2> QED  BY <1>1, <1>4, <1>6, <2>1 DEF Types, client
  <1>9. \A j \in Conns : j \in instances => j \in instances'
    BY <1>6, <1>7 DEF instances
  <1>10. ProviderAlive'
    BY <1>4, <1>9 DEF IInv, IdInv, ProviderAlive
  <1>11. Ids'
    <2>1. \A c \in Clients : tcp_sock'[c] # None => conn'[tcp_sock'[c]].owner = c
      <3> SUFFICES ASSUME NEW c \in Clients, tcp_sock[c] # None
                   PROVE  conn'[tcp_sock[c]].owner = c
        BY <1>u
      <3>1. tcp_sock[c] \in Conns /\ conn[tcp_sock[c]].owner = c
        BY <1>1 DEF IInv, IdInv, Ids, Types
      <3> QED  BY <3>1, <1>6, <1>7
    <2>2. \A j \in Conns \ {k} :
             /\ conn'[j].id < next_id /\ conn'[j].id \in Nat
             /\ conn'[j].info = "o2lite" => conn'[j].id # 0
             /\ conn'[j].info = "proc" => conn'[j].id = 0
             /\ \A n \in 1..Len(conn'[j].toClient) :
                   conn'[j].toClient[n] = conn'[j].id /\ conn'[j].id # 0
      <3> SUFFICES ASSUME NEW j \in Conns \ {k}
                   PROVE  /\ conn[j].id < next_id /\ conn[j].id \in Nat
                          /\ conn[j].info = "o2lite" => conn[j].id # 0
                          /\ conn[j].info = "proc" => conn[j].id = 0
                          /\ \A n \in 1..Len(conn[j].toClient) :
                                conn[j].toClient[n] = conn[j].id /\ conn[j].id # 0
        BY <1>6
      <3>1. conn[j].id \in Nat
        BY <1>1 DEF Connection
      <3> QED  BY <3>1 DEF IInv, IdInv, Ids
    <2>3. \A n \in 1..Len(conn'[k].toClient) :
             conn'[k].toClient[n] = conn'[k].id /\ conn'[k].id # 0
      BY <1>1, <1>7, <1>q
    <2>4. \A i1, j \in Conns : conn'[i1].id = conn'[j].id /\ conn'[j].id # 0 => i1 = j
      <3> TAKE i1 \in Conns, j \in Conns
      <3>1. CASE i1 # k /\ j # k
        BY <3>1, <1>6 DEF IInv, IdInv, Ids
      <3>2. CASE i1 = k /\ j # k
        BY <3>2, <2>2, <1>1, <1>7
      <3>3. CASE i1 # k /\ j = k
        BY <3>3, <2>2, <1>1, <1>7
      <3> QED  BY <3>1, <3>2, <3>3
    <2>5. \A j \in Conns : conn'[j].id < next_id'
      BY <2>2, <1>1, <1>4, <1>7
    <2>6. /\ conn'[k].info = "o2lite" => conn'[k].id # 0
          /\ conn'[k].info = "proc" => conn'[k].id = 0
      BY <1>1, <1>7
    <2> QED  BY <2>1, <2>2, <2>3, <2>4, <2>5, <2>6 DEF Ids
  <1>12. ClientIds'
    <2> SUFFICES ASSUME NEW c \in Clients
                 PROVE  /\ bridge_id[c] >= 0 =>
                              /\ tcp_sock[c] # None
                              /\ bridge_id[c] = conn'[tcp_sock[c]].id
                              /\ bridge_id[c] # 0
                        /\ tcp_sock[c] \in instances' /\ conn'[tcp_sock[c]].open
                              /\ conn'[tcp_sock[c]].toClient = << >>
                              => bridge_id[c] >= 0
      BY <1>u DEF ClientIds
    <2>1. CASE tcp_sock[c] = k
      <3>1. ~(bridge_id[c] >= 0)
        BY <2>1, <1>2 DEF IInv, IdInv, ClientIds
      <3> QED  BY <2>1, <3>1, <1>7, <1>q
    <2>2. CASE tcp_sock[c] \in Conns \ {k}
      <3>1. conn'[tcp_sock[c]] = conn[tcp_sock[c]]
        BY <2>2, <1>6
      <3>2. tcp_sock[c] \in instances' => tcp_sock[c] \in instances
        BY <2>2, <3>1 DEF instances
      <3> QED  BY <3>1, <3>2 DEF IInv, IdInv, ClientIds
    <2>3. CASE tcp_sock[c] = None
      BY <2>3, <1>0 DEF IInv, IdInv, ClientIds, instances
    <2> QED  BY <2>1, <2>2, <2>3, <1>1 DEF Types
  <1>13. Pings'
    <2> SUFFICES ASSUME NEW x \in udp
                 PROVE  /\ x.type = "get" /\ x.id >= 0 =>
                              \E j \in Conns : /\ conn'[j].id = x.id /\ conn'[j].id # 0
                                               /\ conn'[j].owner = x.from
                        /\ x.type = "put" => x.to = x.from
      BY <1>u DEF Pings
    <2>1. \A j \in Conns : conn[j].id # 0 => j # k
      BY <1>2
    <2> QED  BY <2>1, <1>6 DEF IInv, IdInv, Pings
  <1>14. IdInv'
    BY <1>8, <1>10, <1>11, <1>12, <1>13 DEF IdInv
  <1>15. \A x \in Services : provider'[x] = provider[x]
    BY <1>4
  <1>16. AllOpen' /\ Offered' /\ Told'
    BY <1>6, <1>7, <1>14, <1>15, DeliveredStep
  <1> QED  BY <1>14, <1>16 DEF IInv

\* Delivering a message to the host keeps the invariant.
LEMMA DeliverStep ==
    ASSUME IInv, NEW k \in Conns, deliver(k)
    PROVE  IInv'
  <1>1. /\ conn[k].info # "none" /\ conn[k].toHost # << >>
        /\ UNCHANGED <<client, udp, breaks, own>>
        /\ \/ Head(conn[k].toHost).type = "con" /\ o2lite_con_handler(k)
           \/ /\ Head(conn[k].toHost).type = "sv"
              /\ o2_bridge_sv_handler(k, Head(conn[k].toHost).name)
           \/ Head(conn[k].toHost).type = "cs" /\ o2_bridge_cscs_handler(k)
    BY DEF deliver
  <1>2. conn[k].info \in {"proc", "o2lite"}
    BY <1>1 DEF IInv, IdInv, Types, Connection
  <1> QED  BY <1>1, <1>2, IgnoredConStep, NewIdStep, ServiceStep, SyncStep

\* The host deletes the owner of a socket that was closed, and its services.
LEMMA HangupStep ==
    ASSUME IInv, NEW k \in Conns, Hangup(k)
    PROVE  IInv'
  <1>0. None \notin Conns /\ HOST \notin Conns /\ None # HOST
    BY LiteAssumption DEF None, Conns, HOST
  <1>1. /\ Types /\ conn \in [Conns -> Connection] /\ conn[k] \in Connection
        /\ conn[k].info # "none" /\ ~conn[k].open
        /\ provider' = remove_services(k)
        /\ UNCHANGED <<client, next_id, udp, breaks, own>>
    BY DEF Hangup, IInv, IdInv, Types
  <1> DEFINE i == "none"
             r == [conn[k] EXCEPT !.info = i]
  <1>2. conn' = [conn EXCEPT ![k] = r]
    BY DEF Hangup
  <1>3. /\ r \in Connection /\ r.info = "none" /\ r.owner = conn[k].owner
        /\ r.id = conn[k].id /\ r.open = conn[k].open /\ r.toClient = conn[k].toClient
    BY <1>1 DEF Connection
  <1> HIDE DEF r
  <1>4. /\ conn'[k] = r /\ \A j \in Conns \ {k} : conn'[j] = conn[j]
        /\ conn' \in [Conns -> Connection]
    BY <1>1, <1>2, <1>3
  <1>5. /\ provider' \in [Services -> Conns \cup {None, HOST}]
        /\ \A s \in Services : /\ provider'[s] = provider[s] \/ provider'[s] = None
                               /\ provider'[s] # k
    BY <1>0, <1>1 DEF remove_services, Types
  <1>6. Types'
    BY <1>1, <1>4, <1>5 DEF Types, client
  <1>7. Harmless
    <2>1. \A j \in Conns :
            /\ conn'[j].owner = conn[j].owner /\ conn'[j].id = conn[j].id
            /\ conn'[j].info = conn[j].info \/ conn'[j].info = "none"
            /\ conn'[j].toClient = conn[j].toClient /\ conn'[j].open = conn[j].open
      BY <1>3, <1>4
    <2>2. \A s \in Services :
             provider'[s] \in Conns => conn'[provider'[s]].info = "o2lite"
      <3> SUFFICES ASSUME NEW s \in Services, provider'[s] \in Conns
                   PROVE  conn'[provider'[s]].info = "o2lite"
        OBVIOUS
      <3>1. provider'[s] = provider[s] /\ provider[s] \in Conns \ {k}
        BY <1>0, <1>5
      <3>2. conn[provider[s]].info = "o2lite"
        BY <3>1 DEF IInv, IdInv, ProviderAlive, instances
      <3> QED  BY <3>1, <3>2, <1>4
    <2> QED  BY <1>1, <2>1, <2>2 DEF Harmless, client
  <1>8. IdInv'
    BY <1>6, <1>7, HarmlessStep DEF IInv
  <1>9. breaks # 0
    <2>1. conn[k] # NoConn
      BY <1>1 DEF NoConn
    <2> QED  BY <2>1, <1>1 DEF IInv, AllOpen
  <1>10. AllOpen' /\ Offered' /\ Told'
    BY <1>0, <1>1, <1>5, <1>9 DEF IInv, AllOpen, Offered, Told
  <1> QED  BY <1>8, <1>10 DEF IInv

\* The instance with an id is the only one.
LEMMA FindFacts ==
    ASSUME Ids, NEW id
    PROVE  /\ find(id) # None => /\ find(id) \in instances
                                 /\ conn[find(id)].id = id
           /\ \A k \in instances : conn[k].id = id => find(id) = k
  <1>1. \A j, k \in instances : conn[j].id = conn[k].id => j = k
    BY DEF Ids, instances
  <1>2. CASE \E k \in instances : conn[k].id = id
    <2>1. find(id) = CHOOSE k \in instances : conn[k].id = id
      BY <1>2 DEF find
    <2>2. find(id) \in instances /\ conn[find(id)].id = id
      BY <1>2, <2>1
    <2> QED  BY <1>1, <2>2
  <1>3. CASE ~\E k \in instances : conn[k].id = id
    BY <1>3 DEF find
  <1> QED  BY <1>2, <1>3

\* A ping is answered, to the client that sent it.
LEMMA CsgetStep ==
    ASSUME IInv, NEW d \in udp, o2lite_csget_handler(d)
    PROVE  IInv'
  <1>0. None \notin Conns
    BY LiteAssumption DEF None, Conns
  <1>1. /\ Types /\ d \in Datagram /\ d.type = "get"
        /\ udp' = (udp \ {d}) \cup o2_bridge_csget_handler(find(d.id), d)
        /\ UNCHANGED <<client, conn, next_id, provider, hostsync, breaks, own, protocols>>
    BY DEF o2lite_csget_handler, IInv, IdInv, Types
  <1>u. UNCHANGED <<tcp_sock, bridge_id, services, sync, port>>
    BY <1>1 DEF client
  <1>2. d.id \in Nat \cup {-1} /\ d.from \in Clients /\ d.seqno \in Nat
    BY <1>1 DEF Datagram
  <1>3. ASSUME NEW x \in udp', x \notin udp
        PROVE  x \in Datagram /\ x.type = "put" /\ x.to = d.from /\ x.from = d.from
    <2> DEFINE k == find(d.id)
    <2>1. k # None /\ x = [type |-> "put", to |-> conn[k].owner, port |-> conn[k].port,
                           from |-> d.from, seqno |-> d.seqno]
      BY <1>1, <1>3 DEF o2_bridge_csget_handler
    <2>2. k \in Conns /\ conn[k].id = d.id /\ conn[k] \in Connection
      <3>1. k \in instances /\ conn[k].id = d.id
        BY <2>1, FindFacts DEF IInv, IdInv
      <3> QED  BY <3>1, <1>1 DEF instances, Types
    <2> HIDE DEF k
    <2>3. d.id >= 0
      BY <2>2 DEF Connection
    <2>4. conn[k].owner = d.from
      BY <1>1, <2>2, <2>3 DEF IInv, IdInv, Pings, Ids
    <2>5. conn[k].owner \in Clients \cup {"none"} /\ conn[k].port \in Nat
      BY <2>2 DEF Connection
    <2> QED  BY <1>2, <2>1, <2>4, <2>5 DEF Datagram
  <1>4. Types'
    <2>1. udp' \in SUBSET Datagram
      BY <1>1, <1>3 DEF Types
    <2> QED  BY <1>1, <1>u, <2>1 DEF Types
  <1>5. Harmless
    BY <1>1, <1>u, <1>3 DEF Harmless, IInv, IdInv, ProviderAlive, instances
  <1>6. IdInv'
    BY <1>4, <1>5, HarmlessStep DEF IInv
  <1>7. \A x \in udp' : x.from \in Clients /\ (breaks = 0 => sync[x.from].on)
    <2>1. \A x \in udp : x.from \in Clients
      BY <1>1 DEF Types, Datagram
    <2> QED  BY <1>2, <1>3, <2>1 DEF IInv, Told
  <1>8. Steady
    BY <1>1, <1>u DEF Steady
  <1> QED  BY <1>6, <1>7, <1>8, <1>u, SteadyStep DEF IInv

\* Losing a datagram keeps the invariant.
LEMMA LoseStep ==
    ASSUME IInv, NEW d \in udp, Lose(d)
    PROVE  IInv'
  <1>1. /\ Types /\ udp' = udp \ {d}
        /\ UNCHANGED <<client, conn, next_id, provider, hostsync, breaks, own, protocols>>
    BY DEF Lose, IInv, IdInv
  <1>u. UNCHANGED <<tcp_sock, bridge_id, services, sync, port>>
    BY <1>1 DEF client
  <1>2. Types'
    BY <1>1, <1>u DEF Types
  <1>3. Harmless
    BY <1>1, <1>u DEF Harmless, IInv, IdInv, ProviderAlive, instances
  <1>4. IdInv'
    BY <1>2, <1>3, HarmlessStep DEF IInv
  <1>5. \A x \in udp' : x.from \in Clients /\ (breaks = 0 => sync[x.from].on)
    BY <1>1 DEF Types, Datagram, IInv, Told
  <1>6. Steady
    BY <1>1, <1>u DEF Steady
  <1> QED  BY <1>4, <1>5, <1>6, <1>u, SteadyStep DEF IInv

\* The host takes or leaves a service; then own is no longer 0.
LEMMA OwnServiceStep ==
    ASSUME IInv, NEW s \in Services, o2_service_new(s)
    PROVE  IInv'
  <1>0. None \notin Conns /\ HOST \notin Conns
    BY LiteAssumption DEF None, Conns, HOST
  <1>1. /\ Types /\ own' = own + 1
        /\ \/ provider' = [provider EXCEPT ![s] = HOST]
           \/ provider' = [provider EXCEPT ![s] = None]
        /\ UNCHANGED <<client, conn, next_id, udp, hostsync, breaks, protocols>>
    BY DEF o2_service_new, IInv, IdInv
  <1>u. UNCHANGED <<tcp_sock, bridge_id, services, sync, port>>
    BY <1>1 DEF client
  <1>2. /\ provider' \in [Services -> Conns \cup {None, HOST}]
        /\ \A x \in Services : provider'[x] = provider[x] \/ provider'[x] \notin Conns
    BY <1>0, <1>1 DEF Types
  <1>3. Types' /\ own' # 0
    BY <1>1, <1>u, <1>2 DEF Types
  <1>4. Harmless
    BY <1>1, <1>u, <1>2 DEF Harmless, IInv, IdInv, ProviderAlive, instances
  <1>5. IdInv'
    BY <1>3, <1>4, HarmlessStep DEF IInv
  <1>6. instances' = instances
    BY <1>1 DEF instances
  <1>7. AllOpen' /\ Offered' /\ Told'
    BY <1>1, <1>u, <1>3, <1>6 DEF IInv, AllOpen, Offered, Told
  <1> QED  BY <1>5, <1>7 DEF IInv

\* A connection breaks.
LEMMA BreakStep ==
    ASSUME IInv, NEW k \in Conns, Break(k)
    PROVE  IInv'
  <1>1. /\ Types /\ conn \in [Conns -> Connection] /\ conn[k] \in Connection
        /\ breaks' = breaks + 1
        /\ UNCHANGED <<client, next_id, provider, udp, hostsync, own, protocols>>
    BY DEF Break, IInv, IdInv, Types
  <1>u. UNCHANGED <<tcp_sock, bridge_id, services, sync, port>>
    BY <1>1 DEF client
  <1>2. PICK h \in {<< >>, conn[k].toHost}, t \in {<< >>, conn[k].toClient} :
          conn' = [conn EXCEPT ![k].open = FALSE, ![k].toHost = h, ![k].toClient = t]
    BY DEF Break
  <1>3. h \in Seq(HostMsg) /\ t \in Seq(Nat)
    <2>1. conn[k].toHost \in Seq(HostMsg) /\ conn[k].toClient \in Seq(Nat)
      BY <1>1 DEF Connection
    <2>2. h = << >> => h \in Seq(HostMsg)
      OBVIOUS
    <2>3. t = << >> => t \in Seq(Nat)
      OBVIOUS
    <2> QED  BY <2>1, <2>2, <2>3
  <1> DEFINE f == FALSE
             a == [conn[k] EXCEPT !.open = f]
             b == [a EXCEPT !.toHost = h]
             e == [b EXCEPT !.toClient = t]
  <1>4. conn' = [conn EXCEPT ![k] = e]
    BY <1>1, <1>2 DEF Connection
  <1>5. /\ a \in Connection /\ a.owner = conn[k].owner /\ a.id = conn[k].id
        /\ a.info = conn[k].info /\ ~a.open
    BY <1>1 DEF Connection
  <1> HIDE DEF a
  <1>6. /\ b \in Connection /\ b.owner = a.owner /\ b.id = a.id
        /\ b.info = a.info /\ ~b.open
    BY <1>3, <1>5 DEF Connection
  <1> HIDE DEF b
  <1>7. /\ e \in Connection /\ e.owner = b.owner /\ e.id = b.id
        /\ e.info = b.info /\ ~e.open /\ e.toClient = t
    BY <1>3, <1>6 DEF Connection
  <1> HIDE DEF e
  <1>8. /\ conn'[k] = e /\ \A j \in Conns \ {k} : conn'[j] = conn[j]
        /\ conn' \in [Conns -> Connection]
    BY <1>1, <1>4, <1>7
  <1>9. Types' /\ breaks' # 0
    BY <1>1, <1>u, <1>8 DEF Types
  <1>10. Harmless
    <2>1. \A j \in Conns :
            /\ conn'[j].owner = conn[j].owner /\ conn'[j].id = conn[j].id
            /\ conn'[j].info = conn[j].info
            /\ \/ conn'[j].toClient = conn[j].toClient
               \/ conn'[j].toClient = << >> /\ ~conn'[j].open
            /\ conn'[j].open => conn[j].open
      <3> TAKE j \in Conns
      <3>1. CASE j = k
        BY <3>1, <1>2, <1>5, <1>6, <1>7, <1>8
      <3>2. CASE j # k
        BY <3>2, <1>8
      <3> QED  BY <3>1, <3>2
    <2> QED  BY <1>1, <1>u, <2>1 DEF Harmless, IInv, IdInv, ProviderAlive, instances
  <1>11. IdInv'
    BY <1>9, <1>10, HarmlessStep DEF IInv
  <1> QED  BY <1>1, <1>9, <1>11, BrokenStep DEF IInv

\* Steps of variables that the invariants do not mention; a new bridge protocol is
\* one of them as long as no id was given.
LEMMA OtherStep ==
    ASSUME IInv, o2_clock_synchronized \/ UNCHANGED vars
                 \/ (Bridge_protocol /\ LateProtocol = FALSE)
    PROVE  IInv'
  <1>1. /\ UNCHANGED <<client, conn, provider, udp, breaks, own>>
        /\ next_id' = next_id
    BY DEF o2_clock_synchronized, Bridge_protocol, vars
  <1>2. UNCHANGED <<tcp_sock, bridge_id, services, sync, port>>
    BY <1>1 DEF client
  <1>3. instances' = instances
    BY <1>1 DEF instances
  <1>4. IdInv'
    BY <1>1, <1>2, <1>3 DEF IInv, IdInv, Types, ProviderAlive, Ids, ClientIds, Pings
  <1>5. AllOpen' /\ Offered' /\ Told'
    BY <1>1, <1>2, <1>3 DEF IInv, AllOpen, Offered, Told
  <1> QED  BY <1>4, <1>5 DEF IInv

\* Every step keeps the invariants.
LEMMA NextIInv ==
    ASSUME IInv, [Next]_vars, LateProtocol = FALSE
    PROVE  IInv'
  <1>1. CASE \E c \in Clients :
               \/ o2l_network_connect(c) \/ o2l_set_services(c)
               \/ o2l_id_handler(c) \/ read_from_tcp_closed(c)
               \/ clock_ping(c) \/ Restart(c)
               \/ \E d \in udp : read_from_udp(c, d)
    BY <1>1, ConnectStep, SetServicesStep, IdStep, ClosedStep, PingStep, RestartStep,
       ReplyStep
  <1>2. CASE \E k \in Conns : deliver(k) \/ Hangup(k) \/ Break(k)
    BY <1>2, DeliverStep, HangupStep, BreakStep
  <1>3. CASE \E d \in udp : o2lite_csget_handler(d) \/ Lose(d)
    BY <1>3, CsgetStep, LoseStep
  <1>4. CASE \E s \in Services : o2_service_new(s)
    BY <1>4, OwnServiceStep
  <1>5. CASE o2_clock_synchronized \/ Bridge_protocol \/ UNCHANGED vars
    BY <1>5, OtherStep
  <1> QED  BY <1>1, <1>2, <1>3, <1>4, <1>5 DEF Next

\* The invariant holds in every reachable state.
LEMMA Invariance ==
    ASSUME LateProtocol = FALSE
    PROVE  Spec => []IInv
  <1>1. IInv /\ [Next]_vars => IInv'
    BY NextIInv
  <1> QED  BY InitIInv, <1>1, PTL DEF Spec

-----------------------------------------------------------------------------
(* The theorems.                                                           *)

\* Whatever breaks, restarts, is lost or comes late, no service leads to a deleted
\* bridge instance, the id a client uses finds its own connection and no other, and a
\* reply of the host goes to the client that sent the ping: if no further bridge
\* protocol is made once clients are connected, which would give ids again.
THEOREM ClientsKeptApart ==
    ASSUME LateProtocol = FALSE
    PROVE  Spec => []RightClient
  <1>1. IInv => RightClient
    <2> SUFFICES ASSUME IInv  PROVE RightClient
      OBVIOUS
    <2>0. None \notin Conns
      BY LiteAssumption DEF None, Conns
    <2>1. TypeOK
      <3>1. \A k \in Conns : /\ conn[k].info \in {"none", "proc", "o2lite"}
                             /\ conn[k].id \in Nat
        BY DEF IInv, IdInv, Types, Connection
      <3>2. \A d \in udp : d.type \in {"get", "put"}
        BY DEF IInv, IdInv, Types, Datagram
      <3> QED  BY <3>1, <3>2 DEF TypeOK, IInv, IdInv, Types, ClientIds
    <2>2. OwnId
      <3> SUFFICES ASSUME NEW c \in Clients, tcp_sock[c] \in instances
                   PROVE  /\ bridge_id[c] >= 0 => find(bridge_id[c]) = tcp_sock[c]
                          /\ conn[tcp_sock[c]].open /\ conn[tcp_sock[c]].toClient = << >>
                                => bridge_id[c] >= 0
        BY DEF OwnId
      <3>1. bridge_id[c] >= 0 => conn[tcp_sock[c]].id = bridge_id[c]
        BY DEF IInv, IdInv, ClientIds
      <3>2. bridge_id[c] >= 0 => find(bridge_id[c]) = tcp_sock[c]
        BY <3>1, FindFacts DEF IInv, IdInv
      <3> QED  BY <3>2 DEF IInv, IdInv, ClientIds
    <2>3. ReplyToSender
      BY DEF ReplyToSender, IInv, IdInv, Pings
    <2> QED  BY <2>1, <2>2, <2>3 DEF RightClient, IInv, IdInv
  <1> QED  BY <1>1, Invariance, PTL

\* When all that a client sent has arrived and nothing broke, each of its services is
\* offered at the host, and the host knows whether the client has time: no order of
\* setting services, connecting, getting an id and getting time loses a message.
THEOREM HostLearnsAll ==
    ASSUME LateProtocol = FALSE
    PROVE  Spec => []HostInformed
  <1>1. IInv => HostInformed
    <2> SUFFICES ASSUME IInv  PROVE HostInformed
      OBVIOUS
    <2>1. \A c \in Clients : Quiet(c) =>
             ~\E i \in 1..Len(conn[tcp_sock[c]].toHost) : TRUE
      BY DEF Quiet
    <2>2. Registered
      BY <2>1 DEF Registered, IInv, Offered
    <2>3. SyncTold
      BY <2>1 DEF SyncTold, IInv, Told
    <2> QED  BY <2>2, <2>3 DEF HostInformed
  <1> QED  BY <1>1, Invariance, PTL
=============================================================================
