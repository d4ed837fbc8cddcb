------------------------------ MODULE Network ------------------------------
(***************************************************************************)
(* The sockets of one O2 process, from src/src/o2network.cpp (the version  *)
(* for poll()): the parallel arrays o2n_fds and o2n_fds_info, asynchronous *)
(* connect, partial sends and receives, close now and close later, and the *)
(* loop of o2n_recv with the handlers that run inside it and a blocking    *)
(* send that polls while it waits for a connection.                        *)
(*                                                                         *)
(* A socket has the name of the Fds_info made for it.  Bytes are grouped   *)
(* in chunks, so that a send or a receive may stop inside the length field *)
(* or inside the payload of a message.  All sockets use the O2 framing     *)
(* (READ_O2).  o2n_fds starts with room for five sockets; the instances    *)
(* have no more than that, so the array never moves.                       *)
(***************************************************************************)
EXTENDS Integers, Sequences, FiniteSets, SequencesExt, Functions

CONSTANTS udp, srv,       \* the server sockets made by o2_initialize
          Clients,        \* sockets made by create_tcp_client
          Accepts,        \* sockets made by accept
          INVALID_SOCKET,
          OutChunks,      \* chunks of an outgoing message
          LengthChunks,   \* chunks of the length field of an incoming one
          MaxLength,      \* longest plausible payload (0x10000 - 1 bytes)
          MaxWait,        \* polls of a blocking send (3 in the code)
          MaxEvents       \* bound: messages either way, and closes by user
                          \* code and by peers

Tcp == Clients \cup Accepts
Infos == {udp, srv} \cup Tcp

ASSUME NetworkAssumption ==
    /\ udp # srv /\ udp \notin Tcp /\ srv \notin Tcp
    /\ Clients \cap Accepts = {} /\ IsFiniteSet(Tcp)
    /\ INVALID_SOCKET \notin Infos
    /\ {OutChunks, LengthChunks} \subseteq Nat \ {0}
    /\ {MaxLength, MaxWait, MaxEvents} \subseteq Nat

VARIABLES fds,          \* o2n_fds: the memory of the array, slots past the
                        \* end included
          fds_info,     \* o2n_fds_info
          info,         \* the Fds_info of each socket
          delete_flag,  \* o2n_socket_delete_flag
          calls,        \* the calls in progress, the current one first
          fault,        \* the program has used a deleted Fds_info
          net,          \* operating system: state of each socket
          stream,       \* operating system: what can be read from a socket
          tx,           \* operating system: the chunks written to a socket
          enq,          \* messages given to enqueue so far, per socket
          arrived,      \* messages sent by the peer so far
          delivered,    \* messages read completely so far
          ends          \* closes by user code and by peers so far

os == <<net, stream, tx, arrived>>
vars == <<fds, fds_info, info, delete_flag, calls, fault, os, enq, delivered,
          ends>>

Slots == 1..Cardinality(Infos)
Tags == {"NET_UDP_SERVER", "NET_TCP_SERVER", "NET_TCP_CONNECTING",
         "NET_TCP_CLIENT", "NET_TCP_CONNECTION", "NET_INFO_CLOSED",
         "none", "freed"}
Connected == {"NET_TCP_CLIENT", "NET_TCP_CONNECTION"}

\* out counts the messages of the list out_message; sent is out_msg_sent.
Fds_info(tag, k, wt) ==
    [tag |-> tag, fds_index |-> k, delete_me |-> 0, owner |-> TRUE,
     write_type |-> wt, out |-> 0, sent |-> 0, in_message |-> FALSE,
     in_length |-> 0, in_length_got |-> 0, in_msg_got |-> 0]

Slot(i, pollout) == [fd |-> i, pollout |-> pollout]

Init ==
    /\ fds = [k \in Slots |-> CASE k = 1 -> Slot(udp, FALSE)
                                [] k = 2 -> Slot(srv, FALSE)
                                [] OTHER -> Slot(INVALID_SOCKET, FALSE)]
    /\ fds_info = <<udp, srv>>
    /\ info = [i \in Infos |-> CASE i = udp ->
                                      Fds_info("NET_UDP_SERVER", 1, "WRITE_O2")
                                 [] i = srv ->
                                      Fds_info("NET_TCP_SERVER", 2, "WRITE_O2")
                                 [] OTHER -> Fds_info("none", 0, "WRITE_O2")]
    /\ delete_flag = FALSE
    /\ calls = << >>
    /\ fault = FALSE
    /\ net = [i \in Infos |-> IF i \in Tcp THEN "none" ELSE "up"]
    /\ stream = [i \in Infos |-> << >>]
    /\ tx = [i \in Infos |-> << >>]
    /\ enq = [i \in Infos |-> 0]
    /\ arrived = [i \in Infos |-> 0]
    /\ delivered = [i \in Infos |-> 0]
    /\ ends = 0

Size == Len(fds_info)
Total(count) == FoldFunction(+, 0, count)
MayHappen == Total(enq) + Total(arrived) + ends < MaxEvents
Current(f) == calls # << >> /\ Head(calls).f = f
UserCode == ~fault /\ (calls = << >> \/ Current("handler"))

\* Mutant: the reentrancy test is missing.
In_o2n_recv_unknown(cs) == FALSE

In_o2n_recv(cs) == \E j \in DOMAIN cs : cs[j].f = "recv"

-----------------------------------------------------------------------------
(* Parts of actions.  They set fds, info, delete_flag, net and tx, except  *)
(* NewInfo, which sets fds, fds_info and info.  r is the Fds_info of i as  *)
(* it is at the time of the call.                                          *)

\* The constructor does not set write_type.
NewInfo(i, tag, pollout) ==
    \E wt \in {"WRITE_O2", "WRITE_CUSTOM"} :
        /\ fds_info' = Append(fds_info, i)
        /\ fds' = [fds EXCEPT ![Size + 1] = Slot(i, pollout)]
        /\ info' = [info EXCEPT ![i] = Fds_info(tag, Size + 1, wt)]

Put(i, r, slots) ==
    /\ info' = [info EXCEPT ![i] = r]
    /\ fds' = slots
    /\ UNCHANGED <<delete_flag, net, tx>>

Reset(r) == [r EXCEPT !.in_message = FALSE, !.out = 0]

\* The socket is closed and its Fds_info left for o2n_free_deleted_sockets.
CloseNow(i, r) ==
    /\ info' = [info EXCEPT ![i] = [r EXCEPT !.delete_me = 2,
                                             !.tag = "NET_INFO_CLOSED"]]
    /\ fds' = [fds EXCEPT ![r.fds_index].fd = INVALID_SOCKET]
    /\ net' = [net EXCEPT ![i] = "closed"]
    /\ delete_flag' = TRUE
    /\ UNCHANGED tx

close_socket(i, r, now) ==
    IF ~now /\ r.tag \in Connected
    THEN Put(i, [Reset(r) EXCEPT !.delete_me = 1],
             [fds EXCEPT ![r.fds_index].pollout = TRUE])
    ELSE CloseNow(i, Reset(r))

\* The chunks of i not yet written, and r after n of them are.  e messages
\* were enqueued so far: those of the list are the last of them.
Unsent(r) == r.out * OutChunks - r.sent
Chunks(i, r, e, n) ==
    LET first == e - r.out + 1
    IN [j \in 1..n |-> <<i, first + (r.sent + j - 1) \div OutChunks,
                         (r.sent + j - 1) % OutChunks>>]

Sent(r, n) == [r EXCEPT !.out = @ - ((r.sent + n) \div OutChunks),
                        !.sent = (r.sent + n) % OutChunks]

\* A write on an invalid socket fails like one on a broken connection.
State(fd) == IF fd = INVALID_SOCKET THEN "reset" ELSE net[fd]

Write(i, r, e, fd, n) ==
    /\ State(fd) \in {"up", "eof"}
    /\ tx' = [tx EXCEPT ![fd] = @ \o Chunks(i, r, e, n)]
    /\ info' = [info EXCEPT ![i] = Sent(r, n)]
    /\ UNCHANGED <<delete_flag, net>>

\* Mutant: polling for writing stops although messages are left.
SendNonblockingForgets(i, r, e, clear) ==
    LET k == r.fds_index
    IN \/ /\ r.tag = "NET_INFO_CLOSED"
          /\ Put(i, r, fds)
       \/ /\ r.tag # "NET_INFO_CLOSED"
          /\ \E n \in 0..Unsent(r) :
                /\ Write(i, r, e, fds[k].fd, n)
                /\ fds' = [fds EXCEPT ![k].pollout = @ /\ ~clear]
       \/ /\ r.tag # "NET_INFO_CLOSED"
          /\ State(fds[k].fd) \in {"eof", "reset"}
          /\ close_socket(i, r, TRUE)

\* Fds_info::send(false) with messages to send.  The operating system takes
\* some of the chunks.  clear: o2n_recv stops polling for writing on success.
SendNonblocking(i, r, e, clear) ==
    LET k == r.fds_index
    IN \/ /\ r.tag = "NET_INFO_CLOSED"
          /\ Put(i, r, fds)
       \/ /\ r.tag # "NET_INFO_CLOSED"
          /\ \E n \in 0..Unsent(r) :
                /\ Write(i, r, e, fds[k].fd, n)
                /\ fds' = [fds EXCEPT ![k].pollout =
                              IF n < Unsent(r) THEN TRUE ELSE @ /\ ~clear]
       \/ /\ r.tag # "NET_INFO_CLOSED"
          /\ State(fds[k].fd) \in {"eof", "reset"}
          /\ close_socket(i, r, TRUE)

enqueue(i, r) ==
    /\ enq' = [enq EXCEPT ![i] = @ + 1]
    /\ IF r.out = 0 /\ r.tag # "NET_TCP_CONNECTING"
       THEN SendNonblocking(i, [r EXCEPT !.out = 1, !.sent = 0], enq[i] + 1,
                            FALSE)
       ELSE Put(i, [r EXCEPT !.out = @ + 1], fds)

-----------------------------------------------------------------------------
(* User code: the application between polls, and handlers.                 *)

create_tcp_client(i) ==
    /\ UserCode
    /\ info[i].tag = "none"
    /\ \E up \in BOOLEAN :
          /\ NewInfo(i, IF up THEN "NET_TCP_CLIENT" ELSE "NET_TCP_CONNECTING",
                     ~up)
          /\ net' = [net EXCEPT ![i] = IF up THEN "up" ELSE "connecting"]
    /\ UNCHANGED <<delete_flag, calls, fault, stream, tx, arrived, enq,
                   delivered, ends>>

\* Whoever owns an Fds_info can send, until the Fds_info is deleted.
send_tcp(i, block) ==
    /\ UserCode
    /\ i \in Range(fds_info) /\ info[i].owner
    /\ MayHappen
    /\ IF block /\ info[i].out > 0
       THEN /\ info[i].tag # "NET_INFO_CLOSED"
            /\ calls' = <<[f |-> "send", i |-> i, k |-> info[i].fds_index,
                           wait |-> 0]>> \o calls
            /\ UNCHANGED <<fds, info, delete_flag, net, tx, enq>>
       ELSE /\ enqueue(i, info[i])
            /\ UNCHANGED calls
    /\ UNCHANGED <<fds_info, fault, stream, arrived, delivered, ends>>

CloseByUser(i, now, keep) ==
    /\ UserCode
    /\ i \in Range(fds_info) /\ info[i].owner
    /\ MayHappen
    /\ now => keep
    /\ ends' = ends + 1
    /\ close_socket(i, [info[i] EXCEPT !.owner = keep], now)
    /\ UNCHANGED <<fds_info, calls, fault, stream, arrived, enq, delivered>>

-----------------------------------------------------------------------------
(* Fds_info::send(true): the frame k holds pfd, taken before the polls.    *)

Sender == Head(calls).i
SendFrame == ~fault /\ Current("send")

Revents(i, slot, full, hup) ==
    IF slot.fd = INVALID_SOCKET THEN "none"
    ELSE IF net[i] = "reset" THEN "POLLERR"
    ELSE IF i \in hup THEN "POLLHUP"
    ELSE IF net[i] \notin {"up", "eof"} THEN "none"
    ELSE IF slot.pollout /\ i \notin full THEN "POLLOUT"
    ELSE IF stream[i] # << >> \/ net[i] = "eof" THEN "POLLIN"
    ELSE "none"

\* The loop passes over slots without events, and over POLLERR: its branch
\* is empty.
Reported(ev, k) ==
    IF \E j \in k..Len(ev) : ev[j] \notin {"none", "POLLERR"}
    THEN CHOOSE j \in k..Len(ev) :
           /\ ev[j] \notin {"none", "POLLERR"}
           /\ \A l \in k..(j - 1) : ev[l] \in {"none", "POLLERR"}
    ELSE Len(ev) + 1

\* poll() and the start of the loop.  full: sockets without room for writing,
\* none of them new.  The end of a stream is reported as a hang-up by some
\* systems and as readable by others.
Poll(cs) ==
    \E full \in SUBSET {i \in Range(fds_info) :
                           /\ fds[info[i].fds_index].pollout
                           /\ info[i].tag # "NET_TCP_CONNECTING"},
       hup \in SUBSET {i \in Range(fds_info) : net[i] = "eof"} :
          LET ev == [k \in 1..Size |->
                       Revents(fds_info[k], fds[k], full, hup)]
          IN calls' = <<[f |-> "recv", ph |-> "scan", k |-> Reported(ev, 1),
                         ev |-> ev]>> \o cs

o2n_recv(cs) ==
    /\ IF delete_flag
       THEN /\ delete_flag' = FALSE
            /\ calls' = <<[f |-> "recv", ph |-> "pre", k |-> 1]>>
                          \o cs
       ELSE /\ Poll(cs)
            /\ UNCHANGED delete_flag
    /\ UNCHANGED <<fds, fds_info, info, fault, os, enq, delivered, ends>>

o2_poll == ~fault /\ calls = << >> /\ o2n_recv(calls)

SendPolls ==
    /\ SendFrame
    /\ info[Sender].tag = "NET_TCP_CONNECTING"
    /\ Head(calls).wait < MaxWait /\ ~In_o2n_recv(calls)
    /\ o2n_recv(<<[Head(calls) EXCEPT !.wait = @ + 1]>> \o Tail(calls))

\* select() waits for the connection; a failure or a timeout ends the call
\* and the new message is dropped.
SendSelects ==
    /\ SendFrame
    /\ info[Sender].tag = "NET_TCP_CONNECTING"
    /\ Head(calls).wait = MaxWait \/ In_o2n_recv(calls)
    /\ IF State(fds[Head(calls).k].fd) \in {"up", "eof"}
       THEN /\ info' = [info EXCEPT ![Sender].tag = "NET_TCP_CLIENT"]
            /\ UNCHANGED calls
       ELSE /\ calls' = Tail(calls)
            /\ UNCHANGED info
    /\ UNCHANGED <<fds, fds_info, delete_flag, fault, os, enq, delivered,
                   ends>>

SendWrites ==
    /\ SendFrame
    /\ info[Sender].tag \notin {"NET_TCP_CONNECTING", "freed"}
    /\ info[Sender].out > 0
    /\ LET r == info[Sender]
           fd == fds[Head(calls).k].fd
       IN \/ /\ \E n \in 1..Unsent(r) : Write(Sender, r, enq[Sender], fd, n)
             /\ UNCHANGED <<fds, calls>>
          \/ /\ State(fd) \in {"eof", "reset"}
             /\ close_socket(Sender, r, TRUE)
             /\ calls' = Tail(calls)
    /\ UNCHANGED <<fds_info, fault, stream, arrived, enq, delivered, ends>>

\* All is sent: back in send_tcp, the new message is enqueued.
SendDone ==
    /\ SendFrame
    /\ info[Sender].tag \notin {"NET_TCP_CONNECTING", "freed"}
    /\ info[Sender].out = 0
    /\ enqueue(Sender, info[Sender])
    /\ calls' = Tail(calls)
    /\ UNCHANGED <<fds_info, fault, stream, arrived, delivered, ends>>

\* The poll has deleted the Fds_info whose send() made it.
SendFreed ==
    /\ SendFrame
    /\ info[Sender].tag = "freed"
    /\ fault' = TRUE
    /\ UNCHANGED <<fds, fds_info, info, delete_flag, calls, os, enq,
                   delivered, ends>>

-----------------------------------------------------------------------------
(* o2n_free_deleted_sockets, before and after the scan.                    *)

Freeing == ~fault /\ Current("recv") /\ Head(calls).ph \in {"pre", "post"}
Deleted == {k \in Head(calls).k..Size : info[fds_info[k]].delete_me = 2}

\* Mutant: the socket that moves keeps its index.
DeleteOldIndex(k) ==
    LET moved == fds_info[Size]
    IN /\ fds' = [fds EXCEPT ![k] = fds[Size]]
       /\ fds_info' = [j \in 1..(Size - 1) |->
                         IF j = k THEN moved ELSE fds_info[j]]
       /\ info' = [info EXCEPT
                      ![fds_info[k]] = Fds_info("freed", 0, "WRITE_O2")]
       /\ stream' = [stream EXCEPT ![fds_info[k]] = << >>]
       /\ tx' = [tx EXCEPT ![fds_info[k]] = << >>]

\* ~Fds_info: the last socket moves into the hole, which is looked at again.
Delete(k) ==
    LET moved == fds_info[Size]
    IN /\ fds' = [fds EXCEPT ![k] = fds[Size]]
       /\ fds_info' = [j \in 1..(Size - 1) |->
                         IF j = k THEN moved ELSE fds_info[j]]
       /\ info' = [[info EXCEPT ![moved].fds_index = k]
                      EXCEPT ![fds_info[k]] = Fds_info("freed", 0, "WRITE_O2")]
       /\ stream' = [stream EXCEPT ![fds_info[k]] = << >>]
       /\ tx' = [tx EXCEPT ![fds_info[k]] = << >>]

FreeOne ==
    /\ Freeing
    /\ Deleted # {}
    /\ LET k == CHOOSE k \in Deleted : \A j \in Deleted : k <= j
       IN /\ Delete(k)
          /\ calls' = <<[Head(calls) EXCEPT !.k = k]>> \o Tail(calls)
    /\ UNCHANGED <<delete_flag, fault, net, arrived, enq, delivered, ends>>

FreeDone ==
    /\ Freeing
    /\ Deleted = {}
    /\ IF Head(calls).ph = "pre" THEN Poll(Tail(calls))
       ELSE calls' = Tail(calls)
    /\ UNCHANGED <<fds, fds_info, info, delete_flag, fault, os, enq, delivered,
                   ends>>

-----------------------------------------------------------------------------
(* The loop of o2n_recv over the slots that poll() was given.              *)

Scanning == ~fault /\ Current("recv") /\ Head(calls).ph = "scan"
Fi == fds_info[Head(calls).k]
Event(e) == /\ Scanning
            /\ Head(calls).k <= Len(Head(calls).ev)
            /\ Head(calls).ev[Head(calls).k] = e
Next_k == <<[Head(calls) EXCEPT !.k = Reported(Head(calls).ev, @ + 1)]>>
            \o Tail(calls)

ScanHup ==
    /\ Event("POLLHUP")
    /\ close_socket(Fi, info[Fi], TRUE)
    /\ calls' = Next_k
    /\ UNCHANGED <<fds_info, fault, stream, arrived, enq, delivered, ends>>

ScanOut ==
    /\ Event("POLLOUT")
    /\ LET r == IF info[Fi].tag = "NET_TCP_CONNECTING"
                THEN [info[Fi] EXCEPT !.tag = "NET_TCP_CLIENT"] ELSE info[Fi]
       IN CASE r.owner /\ r.write_type = "WRITE_CUSTOM" -> Put(Fi, r, fds)
            [] ~(r.owner /\ r.write_type = "WRITE_CUSTOM")
               /\ r.delete_me = 1 -> CloseNow(Fi, r)
            [] ~(r.owner /\ r.write_type = "WRITE_CUSTOM")
               /\ r.delete_me # 1 /\ r.out > 0 -> 
                    SendNonblocking(Fi, r, enq[Fi], TRUE)
            [] OTHER ->
                 Put(Fi, r, [fds EXCEPT ![Head(calls).k].pollout = FALSE])
    /\ calls' = Next_k
    /\ UNCHANGED <<fds_info, fault, stream, arrived, enq, delivered, ends>>

\* read_event_handler.  A failure to accept, or to read a datagram, is
\* returned to o2n_recv, which closes the server socket.
Accept ==
    /\ Event("POLLIN") /\ info[Fi].tag = "NET_TCP_SERVER"
    /\ LET c == Head(stream[srv])
       IN \/ /\ NewInfo(c, "NET_TCP_CONNECTION", FALSE)
             /\ net' = [net EXCEPT ![c] = "up"]
             /\ UNCHANGED <<delete_flag, tx>>
          \/ /\ close_socket(Fi, info[Fi], TRUE)
             /\ UNCHANGED fds_info
    /\ stream' = [stream EXCEPT ![srv] = Tail(@)]
    /\ calls' = Next_k
    /\ UNCHANGED <<fault, arrived, enq, delivered, ends>>

UdpReceive ==
    /\ Event("POLLIN") /\ info[Fi].tag = "NET_UDP_SERVER"
    /\ stream' = [stream EXCEPT ![udp] = Tail(@)]
    /\ \/ /\ calls' = <<[f |-> "handler", i |-> Fi]>> \o Next_k
          /\ UNCHANGED <<fds, info, delete_flag, net, tx>>
       \/ /\ close_socket(Fi, info[Fi], TRUE)
          /\ calls' = Next_k
    /\ UNCHANGED <<fds_info, fault, arrived, enq, delivered, ends>>

\* Mutant: the count of payload bytes is kept.
message_cleanup_part(r) == [r EXCEPT !.in_message = FALSE, !.in_length = 0,
                                     !.in_length_got = 0]

message_cleanup(r) == [r EXCEPT !.in_message = FALSE, !.in_msg_got = 0,
                                !.in_length = 0, !.in_length_got = 0]

\* r after reading h chunks of the length field, then b of the payload.
Read(r, h, b, length) ==
    [r EXCEPT !.in_length_got = @ + h, !.in_msg_got = @ + b,
              !.in_length = length,
              !.in_message = r.in_length_got + h = LengthChunks]

\* read_whole_message on an open connection: the end of the stream, an error,
\* an implausible length, or a buffer lost to reset() closes the socket.
ReadFails ==
    /\ Event("POLLIN") /\ info[Fi].tag \in Connected
    /\ LET r == info[Fi]
       IN /\ \/ net[Fi] = "reset"
             \/ stream[Fi] = << >> /\ net[Fi] = "eof"
             \/ /\ stream[Fi] # << >>
                /\ IF r.in_length_got = LengthChunks THEN ~r.in_message
                   ELSE /\ Len(stream[Fi]) >= LengthChunks - r.in_length_got
                        /\ stream[Fi][LengthChunks - r.in_length_got].length
                             > MaxLength
          /\ close_socket(Fi, message_cleanup(r), TRUE)
    /\ calls' = Next_k
    /\ UNCHANGED <<fds_info, fault, stream, arrived, enq, delivered, ends>>

ReadSome ==
    /\ Event("POLLIN") /\ info[Fi].tag \in Connected
    /\ net[Fi] # "reset"
    /\ LET r == info[Fi]
           s == stream[Fi]
       IN \E h \in 0..(LengthChunks - r.in_length_got), b \in 0..MaxLength :
            /\ h + b > 0 /\ h + b <= Len(s)
            /\ r.in_length_got < LengthChunks => h > 0
            /\ r.in_length_got + h < LengthChunks => b = 0
            /\ r.in_length_got = LengthChunks => r.in_message
            /\ LET length == IF h > 0 /\ r.in_length_got + h = LengthChunks
                             THEN s[h].length ELSE r.in_length
                   new == Read(r, h, b, length)
                   whole == new.in_message /\ new.in_msg_got = length
               IN /\ length <= MaxLength
                  /\ new.in_message => new.in_msg_got <= length
                  /\ stream' = [stream EXCEPT
                                  ![Fi] = SubSeq(s, h + b + 1, Len(s))]
                  /\ delivered' = [delivered EXCEPT
                                     ![Fi] = IF whole THEN @ + 1 ELSE @]
                  /\ IF whole /\ ~(r.owner /\ r.delete_me = 0)
                     THEN /\ close_socket(Fi, message_cleanup(new), TRUE)
                          /\ calls' = Next_k
                     ELSE /\ Put(Fi, IF whole THEN message_cleanup(new)
                                     ELSE new, fds)
                          /\ calls' = IF whole
                                      THEN <<[f |-> "handler", i |-> Fi]>>
                                             \o Next_k
                                      ELSE Next_k
    /\ UNCHANGED <<fds_info, fault, arrived, enq, ends>>

\* Any other socket, in fact one that was closed after poll() returned.
ReadClosed ==
    /\ Event("POLLIN")
    /\ info[Fi].tag \notin Connected \cup {"NET_TCP_SERVER", "NET_UDP_SERVER"}
    /\ Put(Fi, Reset(info[Fi]), fds)
    /\ calls' = Next_k
    /\ UNCHANGED <<fds_info, fault, stream, arrived, enq, delivered, ends>>

\* deliver() returns; after an error a TCP socket is closed.
HandlerReturns(err) ==
    /\ ~fault /\ Current("handler")
    /\ calls' = Tail(calls)
    /\ LET i == Head(calls).i
       IN IF err /\ info[i].tag \in Connected \cup {"NET_TCP_CONNECTING"}
          THEN close_socket(i, info[i], TRUE)
          ELSE UNCHANGED <<fds, info, delete_flag, net, tx>>
    /\ UNCHANGED <<fds_info, fault, stream, arrived, enq, delivered, ends>>

ScanDone ==
    /\ Scanning
    /\ Head(calls).k > Len(Head(calls).ev)
    /\ calls' = IF delete_flag
                THEN <<[f |-> "recv", ph |-> "post", k |-> 1]>>
                       \o Tail(calls)
                ELSE Tail(calls)
    /\ delete_flag' = FALSE
    /\ UNCHANGED <<fds, fds_info, info, fault, os, enq, delivered, ends>>

-----------------------------------------------------------------------------
(* The peers and the operating system.                                     *)

process == <<fds, fds_info, info, delete_flag, calls, fault, tx, enq,
             delivered>>

PeerAnswers(i) ==
    /\ net[i] = "connecting" /\ i \in Clients
    /\ \E s \in {"up", "reset"} : net' = [net EXCEPT ![i] = s]
    /\ UNCHANGED <<process, stream, arrived, ends>>

PeerConnects(i) ==
    /\ net[i] = "none" /\ net[srv] = "up"
    /\ net' = [net EXCEPT ![i] = "connecting"]
    /\ stream' = [stream EXCEPT ![srv] = Append(@, i)]
    /\ UNCHANGED <<process, arrived, ends>>

PeerSends(i, length) ==
    /\ net[i] = "up" /\ MayHappen
    /\ arrived' = [arrived EXCEPT ![i] = @ + 1]
    /\ stream' = [stream EXCEPT ![i] = @ \o
                    [c \in 1..(LengthChunks + length) |->
                       [m |-> arrived[i] + 1, c |-> c, length |-> length]]]
    /\ UNCHANGED <<process, net, ends>>

Datagram ==
    /\ net[udp] = "up" /\ MayHappen
    /\ arrived' = [arrived EXCEPT ![udp] = @ + 1]
    /\ stream' = [stream EXCEPT ![udp] = Append(@, arrived[udp] + 1)]
    /\ UNCHANGED <<process, net, ends>>

PeerLeaves(i) ==
    /\ net[i] = "up" /\ MayHappen
    /\ ends' = ends + 1
    /\ \E s \in {"eof", "reset"} : net' = [net EXCEPT ![i] = s]
    /\ UNCHANGED <<process, stream, arrived>>

Peers == \/ \E i \in Clients : PeerAnswers(i)
         \/ \E i \in Accepts : PeerConnects(i)
         \/ \E i \in Tcp, length \in 0..(MaxLength + 1) : PeerSends(i, length)
         \/ \E i \in Tcp : PeerLeaves(i)
         \/ Datagram

User == \/ \E i \in Clients : create_tcp_client(i)
        \/ \E i \in Tcp, block \in BOOLEAN : send_tcp(i, block)
        \/ \E i \in Tcp, now, keep \in BOOLEAN : CloseByUser(i, now, keep)

Blocked == SendPolls \/ SendSelects \/ SendWrites \/ SendDone \/ SendFreed

Scan == \/ ScanHup \/ ScanOut \/ Accept \/ UdpReceive
        \/ ReadFails \/ ReadSome \/ ReadClosed \/ ScanDone

Returns == \E err \in BOOLEAN : HandlerReturns(err)

Process == o2_poll \/ Blocked \/ Scan \/ FreeOne \/ FreeDone \/ Returns

Next == Peers \/ User \/ Process

Spec == Init /\ [][Next]_vars

-----------------------------------------------------------------------------
(* Properties.                                                             *)

\* Every variable has its type; the calls are frames of o2n_recv, send(true)
\* and handlers.
TypeOK ==
    /\ fds \in [Slots -> [fd : Infos \cup {INVALID_SOCKET}, pollout : BOOLEAN]]
    /\ fds_info \in Seq(Infos) /\ Size <= Cardinality(Infos)
    /\ \A i \in Infos :
          /\ info[i].tag \in Tags
          /\ info[i].fds_index \in 0..Cardinality(Infos)
          /\ info[i].delete_me \in 0..2
          /\ info[i].out \in Nat /\ info[i].sent \in 0..(OutChunks - 1)
          /\ info[i].in_length_got \in 0..LengthChunks
          /\ info[i].in_msg_got \in 0..MaxLength
    /\ {delete_flag, fault} \subseteq BOOLEAN
    /\ \A c \in Range(calls) : c.f \in {"recv", "send", "handler"}
    /\ net \in [Infos -> {"none", "connecting", "up", "eof", "reset",
                          "closed"}]

\* The two arrays stay parallel through closes, accepts in the middle of the
\* loop and moves into holes: each Fds_info knows its own slot, which holds
\* its own socket unless that is closed, and the loop never looks past the
\* end.
ArraysAgree ==
    /\ \A k \in 1..Size :
          LET i == fds_info[k]
          IN /\ info[i].fds_index = k
             /\ fds[k].fd = IF info[i].tag = "NET_INFO_CLOSED"
                            THEN INVALID_SOCKET ELSE i
    /\ \A i \in Infos : net[i] \in {"up", "eof", "reset"} =>
                           i \in Range(fds_info)
    /\ Scanning => Len(Head(calls).ev) <= Size

\* What the peer gets is the messages given to enqueue for this very socket,
\* whole and in order, as far as they went, whatever partial writes, blocking
\* sends and moves of sockets between slots there were.  After a polite close
\* a new message may begin inside one that reset() dropped.
SentInOrder ==
    \A i \in Tcp : info[i].delete_me = 0 =>
        \A j \in DOMAIN tx[i] :
            tx[i][j] = <<i, 1 + (j - 1) \div OutChunks, (j - 1) % OutChunks>>

\* The part of a message that has been read is what is missing before the next
\* chunk of the stream: length field and payload are never confused, and no
\* message is skipped or delivered twice.
Reassembly ==
    \A i \in Tcp : info[i].delete_me = 0 /\ stream[i] # << >> =>
        LET next == Head(stream[i])
        IN /\ next.m = delivered[i] + 1
           /\ next.c = info[i].in_length_got + info[i].in_msg_got + 1

\* A message left in the queue of an open socket, or a socket to be closed when
\* writable, is never forgotten: poll() is asked to report when it can go on.
WriteRequested ==
    \A i \in Range(fds_info) :
        /\ info[i].tag \in Connected \cup {"NET_TCP_CONNECTING"}
        /\ info[i].out > 0 \/ info[i].delete_me = 1
        => fds[info[i].fds_index].pollout

\* The arrays o2n_fds and o2n_fds_info stay parallel through closes, accepts in the middle
\* of the loop and moves into holes, and every field keeps its range.
ArraysSound == TypeOK /\ ArraysAgree

\* Both streams of a connection are whole and in order, however sends and receives are
\* cut: what the peer gets (Fds_info::send), and what is put together (read_event_handler).
StreamsIntact == SentInOrder /\ Reassembly

Scans(cs) == \E j \in DOMAIN cs : cs[j].f = "recv" /\ cs[j].ph = "scan"

\* While o2n_recv looks at its slots, handlers, nested sends and their polls
\* included, no socket moves to another slot: an Fds_info closed in the
\* meantime stays until the scan is over.
NoMoveInScan ==
    [][Scans(calls) /\ Scans(calls') => IsPrefix(fds_info, fds_info')]_vars
=============================================================================
