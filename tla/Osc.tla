--------------------------------- MODULE Osc ---------------------------------
(***************************************************************************)
(* OSC ports and delegation (o2osc.cpp): the life of Osc_info objects, and *)
(* the conversion of messages between O2 and OSC.                          *)
(*                                                                         *)
(* An O2 message is [bundle, time, id, al, data, parts]: al is the length  *)
(* of its address behind the service name, data the bytes from the types   *)
(* on.  An OSC message has the same fields; times are NTP times.           *)
(***************************************************************************)
EXTENDS Integers, Sequences, SequencesExt, FiniteSetsExt

CONSTANTS Names, Ports,    \* service names and port numbers
          NameLen,         \* the length of each name
          InfoIds,         \* Osc_info objects, a set of numbers
          Sent,            \* O2 messages sent to a delegated service
          Offset           \* osc_time_offset

VARIABLES infos,      \* the Osc_info of each id, or Gone
          tree,       \* the provider of each service: an id, Local or None
          freed,      \* ports that were freed and not opened since
          last        \* the last conversion: [m, name, osc, back]

vars == <<infos, tree, freed, last>>

None == 0
Local == -1
Gone == [tag |-> "", key |-> "", port |-> 0, closed |-> FALSE]
Unsent == [bundle |-> FALSE, time |-> 0, id |-> 0, al |-> 0, data |-> 0, parts |-> <<>>]
NoConversion == [m |-> Unsent, name |-> "", osc |-> Unsent, back |-> Unsent]

Init == /\ infos = [i \in InfoIds |-> Gone]
        /\ tree = [s \in Names |-> None]
        /\ freed = {}
        /\ last = NoConversion

Osc_info(tag, key, port) == [tag |-> tag, key |-> key, port |-> port, closed |-> FALSE]
Free == {i \in InfoIds : infos[i] = Gone}
NewId == Min(Free)
Open(i) == infos[i] # Gone /\ ~infos[i].closed
Servers == {"udp_server", "tcp_server", "tcp_connection"}
Clients == {"udp_client", "tcp_client"}

-----------------------------------------------------------------------------
(* Ports *)

\* Fails if the port is in use.
o2_osc_port_new(s, p, tcp_flag) ==
    /\ Free # {}
    /\ ~\E i \in InfoIds : infos[i].tag \in Servers \ {"tcp_connection"} /\ infos[i].port = p
    /\ infos' = [infos EXCEPT ![NewId] =
                   Osc_info(IF tcp_flag THEN "tcp_server" ELSE "udp_server", s, p)]
    /\ freed' = freed \ {p}
    /\ UNCHANGED <<tree, last>>

accepted(i) ==
    /\ Open(i) /\ infos[i].tag = "tcp_server" /\ Free # {}
    /\ infos' = [infos EXCEPT ![NewId] =
                   Osc_info("tcp_connection", infos[i].key, infos[i].port)]
    /\ UNCHANGED <<tree, freed, last>>

\* Mutant: only the server is closed.
freed_with_server(i, port_num) ==
    infos[i].tag \in {"udp_server", "tcp_server"} /\ infos[i].port = port_num

freed_with(i, port_num) == infos[i].tag \in Servers /\ infos[i].port = port_num

\* The sockets are closed; they go with their Osc_info in o2n_free_deleted_sockets.
o2_osc_port_free(port_num) ==
    /\ \E i \in InfoIds : Open(i) /\ freed_with(i, port_num)
    /\ infos' = [i \in InfoIds |-> IF freed_with(i, port_num)
                               THEN [infos[i] EXCEPT !.closed = TRUE] ELSE infos[i]]
    /\ freed' = freed \cup {port_num}
    /\ UNCHANGED <<tree, last>>

\* The other end of a connection hangs up.
hang_up(i) ==
    /\ Open(i) /\ infos[i].tag \in {"tcp_connection", "tcp_client"}
    /\ infos' = [infos EXCEPT ![i].closed = TRUE]
    /\ UNCHANGED <<tree, freed, last>>

-----------------------------------------------------------------------------
(* Services.  proc_service_remove deletes a provider that the tree owns. *)

proc_service_remove(st, s) ==
    LET i == st.tree[s]
    IN  [infos |-> IF i \in InfoIds /\ st.infos[i].tag = "udp_client"
                   THEN [st.infos EXCEPT ![i] = Gone] ELSE st.infos,
         tree |-> [st.tree EXCEPT ![s] = None]]

\* ~Osc_info: whatever this process offers under the client's name goes.
Osc_info_delete(st, i) ==
    LET after == IF st.infos[i].tag \in Clients THEN proc_service_remove(st, st.infos[i].key) ELSE st
    IN  [after EXCEPT !.infos[i] = Gone]

\* The closed sockets are deleted, with their owners, before the next poll.
o2n_free_deleted_sockets ==
    LET closed == {i \in InfoIds : infos[i].closed}
        st == FoldLeft(Osc_info_delete, [infos |-> infos, tree |-> tree],
                       SetToSortSeq(closed, <))
    IN  /\ closed # {}
        /\ infos' = st.infos /\ tree' = st.tree
        /\ UNCHANGED <<freed, last>>

\* A service that is offered already is refused (over UDP; over TCP the failing call
\* frees its objects twice and is left out).
o2_osc_delegate(s, tcp_flag) ==
    /\ Free # {} /\ tree[s] = None
    /\ infos' = [infos EXCEPT ![NewId] =
                   Osc_info(IF tcp_flag THEN "tcp_client" ELSE "udp_client", s, 0)]
    /\ tree' = [tree EXCEPT ![s] = NewId]
    /\ UNCHANGED <<freed, last>>

o2_service_new(s) ==
    /\ tree[s] = None
    /\ tree' = [tree EXCEPT ![s] = Local]
    /\ UNCHANGED <<infos, freed, last>>

\* The Osc_info of a TCP client is left with its socket.
o2_service_free(s) ==
    LET st == proc_service_remove([infos |-> infos, tree |-> tree], s)
    IN  /\ tree[s] # None
        /\ infos' = st.infos /\ tree' = st.tree
        /\ UNCHANGED <<freed, last>>

-----------------------------------------------------------------------------
(* Conversion.  NTP times have Wrap values. *)

Wrap == 64
o2_time_to_osc(t) == (t + Offset) % Wrap
o2_time_from_osc(t) == (t - Offset) % Wrap

Pad(n) == 4 * ((n + 3) \div 4)

bundle_time(t, min_time) == IF t > min_time THEN t ELSE min_time

\* The timestamps of messages are not part of OSC.
RECURSIVE msg_data_to_osc_data(_, _)
msg_data_to_osc_data(m, min_time) ==
    IF m.bundle
    THEN LET t == bundle_time(m.time, min_time)
         IN  [m EXCEPT !.time = o2_time_to_osc(t),
                       !.parts = [k \in DOMAIN m.parts |-> msg_data_to_osc_data(m.parts[k], t)]]
    ELSE [m EXCEPT !.time = 0]

RECURSIVE osc_to_o2(_)
osc_to_o2(osc) ==
    IF osc.bundle
    THEN [osc EXCEPT !.time = o2_time_from_osc(@),
                     !.parts = [k \in DOMAIN osc.parts |-> osc_to_o2(osc.parts[k])]]
    ELSE [osc EXCEPT !.time = 0]

RECURSIVE SumLen(_)
SumLen(s) == IF s = <<>> THEN 0 ELSE 4 + Head(s) + SumLen(Tail(s))

\* The bytes of messages, without the field for their own length: address, types and
\* data; misc, timestamp and service name besides in O2, a head of 16 in OSC bundles.
RECURSIVE osc_len(_), o2_len(_, _)
osc_len(m) == IF m.bundle THEN 16 + SumLen([k \in DOMAIN m.parts |-> osc_len(m.parts[k])])
              ELSE Pad(m.al + 1) + m.data
o2_len(m, sl) ==
    IF m.bundle
    THEN 12 + Pad(sl + 2) + SumLen([k \in DOMAIN m.parts |-> o2_len(m.parts[k], sl)])
    ELSE 12 + Pad(1 + sl + m.al + 1) + m.data

\* What osc_to_o2 allocates for a message of len bytes, misc included, and the end of
\* what it writes there.
o2_message_room(sl, len) == 8 + 8 + sl + len
o2_message_end(m, sl) ==
    LET al == m.al
        fill_ptr == 12 + 4 * ((1 + sl + al) \div 4)
        osc_ptr == 4 * ((al + 4) \div 4)
    IN  fill_ptr + 4 + (osc_len(m) - osc_ptr)

\* A message for a delegated service is converted in place and sent; one that is not
\* a bundle is scheduled by O2 first.
send(s, m) ==
    /\ tree[s] \in InfoIds
    /\ last = NoConversion
    /\ last' = LET osc == msg_data_to_osc_data(m, 0)
               IN  [m |-> m, name |-> s, osc |-> osc, back |-> Unsent]
    /\ UNCHANGED <<infos, tree, freed>>

\* The message comes to an OSC port and is sent on to the service of the port.
deliver(i) ==
    /\ Open(i) /\ infos[i].tag \in {"udp_server", "tcp_connection"}
    /\ last.osc # Unsent /\ last.back = Unsent
    /\ last' = [last EXCEPT !.name = infos[i].key, !.back = osc_to_o2(last.osc)]
    /\ UNCHANGED <<infos, tree, freed>>

forget == /\ last.back # Unsent
          /\ last' = NoConversion
          /\ UNCHANGED <<infos, tree, freed>>

Next ==
    \/ \E s \in Names, p \in Ports, tcp_flag \in BOOLEAN : o2_osc_port_new(s, p, tcp_flag)
    \/ \E i \in InfoIds : accepted(i) \/ hang_up(i) \/ deliver(i)
    \/ \E p \in Ports : o2_osc_port_free(p)
    \/ o2n_free_deleted_sockets
    \/ \E s \in Names, tcp_flag \in BOOLEAN : o2_osc_delegate(s, tcp_flag)
    \/ \E s \in Names : o2_service_new(s) \/ o2_service_free(s)
    \/ \E s \in Names, m \in Sent : send(s, m)
    \/ forget

Spec == Init /\ [][Next]_vars

-----------------------------------------------------------------------------
(* Properties *)

\* The services database never points to an Osc_info that was deleted, whether its
\* socket was closed by the other end or its service was freed, or made anew while
\* the socket of the old one was still open.
NoDangling == \A s \in Names : tree[s] \in InfoIds =>
                 infos[tree[s]].tag \in Clients /\ infos[tree[s]].key = s

\* Freeing a port closes it and all connections that were accepted by it: no message
\* arrives by it until it is opened again.
PortFreed == \A i \in InfoIds : infos[i].tag \in Servers /\ infos[i].port \in freed => infos[i].closed

\* The messages in m with the latest time of the bundles that they are in.
RECURSIVE Due(_, _)
Due(m, t) ==
    IF ~m.bundle THEN << <<m.id, t>> >>
    ELSE FlattenSeq([k \in DOMAIN m.parts |-> Due(m.parts[k], Max({t, m.time}))])

\* The same where only the innermost bundle counts, as liblo delivers.
RECURSIVE DueLiblo(_, _)
DueLiblo(m, t) ==
    IF ~m.bundle THEN << <<m.id, t>> >>
    ELSE FlattenSeq([k \in DOMAIN m.parts |-> DueLiblo(m.parts[k], m.time)])

\* A bundle that goes out by OSC and comes in by OSC has the same messages in the
\* same order, and each is due when the last of the bundles around it was, for
\* receivers that only look at the innermost bundle too.
TimesKept == last.back # Unsent =>
                /\ Due(last.back, 0) = Due(last.m, 0)
                /\ DueLiblo(last.back, 0) = Due(last.m, 0)

RECURSIVE Leaves(_)
Leaves(m) == IF ~m.bundle THEN {m} ELSE UNION {Leaves(m.parts[k]) : k \in DOMAIN m.parts}

\* The OSC form of a message fits into the O2 message that it overwrites, and the O2
\* form of each OSC message into what osc_to_o2 allocates for it.
Fits == /\ last.osc # Unsent /\ last.back = Unsent =>
              osc_len(last.osc) <= o2_len(last.m, NameLen[last.name])
        /\ last.back # Unsent =>
              \A m \in Leaves(last.osc) :
                 o2_message_end(m, NameLen[last.name]) <= o2_message_room(NameLen[last.name], osc_len(m))
=============================================================================
