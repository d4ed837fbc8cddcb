------------------------------ MODULE Websock ------------------------------
(***************************************************************************)
(* Websocket connections of a web browser to O2: Http_conn and O2ws_protocol *)
(* of websock.cpp once the connection is upgraded, with the handlers of      *)
(* bridge.cpp they use.  A client's frames arrive in pieces of any size; the *)
(* bytes that matter, those of the frame headers, are modelled as bytes.     *)
(* Replies that handlers make are postponed to the next bridge_poll.         *)
(***************************************************************************)
EXTENDS Integers, Sequences, FiniteSets, SequencesExt

CONSTANTS
    Clients,     \* connections, one for each browser
    Scripts,     \* client -> sequences of frames, one of which it sends
    PayloadLen,  \* kind of frame -> length of its payload; a length from 126 on is
                 \* read as two signed chars, so its bytes must be below 128
    Cuts,        \* where in a frame a piece of the input may end
    MaxSends     \* bound on messages the application sends

None == "none"

VARIABLES
    conn,      \* client -> state of its Http_conn
    sent,      \* client -> the frames it sends
    arrived,   \* client -> how many bytes of them were received
    dropped,   \* client -> how many of these were removed from inbuf
    ws_msg_len, confirmed_ensemble,   \* fields of Http_conn
    outgoing,  \* postponed messages of each Http_conn
    out,       \* client -> what was written to its socket
    pending_ws_senders,
    busy,      \* the client whose data Http_conn::deliver is working on
    provider,  \* the client that offers the one service of this model
    appMsgs    \* messages the application has sent to the service

vars == <<conn, sent, arrived, dropped, ws_msg_len, confirmed_ensemble, outgoing,
          out, pending_ws_senders, busy, provider, appMsgs>>
input == <<sent, arrived, dropped, ws_msg_len>>

WSOP_TEXT == 1
WSOP_CLOSE == 8
WSOP_PING == 9
WSBIT_FIN == 128
WSBIT_MASK == 128
MaxRaw == 512   \* bytes of one recv

-----------------------------------------------------------------------------
(* Frames as a client sends them *)

Opcode(kind) == CASE kind = "ping" -> WSOP_PING
                  [] kind = "close" -> WSOP_CLOSE
                  [] kind = "binary" -> 2
                  [] OTHER -> WSOP_TEXT

\* FIN and opcode, MASK and length, the long form of the length, 4 bytes of mask.
FrameHeader(kind) ==
    LET n == PayloadLen[kind]
        first == IF kind = "fragment" THEN Opcode(kind) ELSE WSBIT_FIN + Opcode(kind)
    IN  IF n < 126 THEN <<first, WSBIT_MASK + n, 7, 7, 7, 7>>
        ELSE <<first, WSBIT_MASK + 126, n \div 256, n % 256, 7, 7, 7, 7>>

FrameLen(kind) == Len(FrameHeader(kind)) + PayloadLen[kind]

\* A script as frames with their places in the stream: bytes from + 1 to end.
Layout(script) ==
    LET end[n \in 0 .. Len(script)] == IF n = 0 THEN 0
                                       ELSE end[n - 1] + FrameLen(script[n])
    IN  [n \in 1 .. Len(script) |-> [kind |-> script[n], from |-> end[n - 1],
                                     end |-> end[n], header |-> FrameHeader(script[n])]]

\* The byte of the stream behind i others, as a C++ char; payload bytes are 0.
StreamByte(c, i) ==
    LET frame == CHOOSE f \in ToSet(sent[c]) : f.from <= i /\ i < f.end
        j == i - frame.from + 1
        byte == IF j > Len(frame.header) THEN 0 ELSE frame.header[j]
    IN  IF byte < 128 THEN byte ELSE byte - 256

\* The kind of frame that begins where inbuf does.
Current(c) == (CHOOSE f \in ToSet(sent[c]) : f.from = dropped[c]).kind

Open(c) == conn[c] = "open"
\* The Http_conn exists, although its socket may be closed.
Exists(c) == conn[c] \in {"open", "closing", "closed"}
inbuf_size(c) == arrived[c] - dropped[c]

\* The connections are upgraded; the 101 reply has been sent.
Init ==
    /\ conn = [c \in Clients |-> "open"]
    /\ \E f \in [Clients -> UNION {Scripts[c] : c \in Clients}] :
          /\ \A c \in Clients : f[c] \in Scripts[c]
          /\ sent = [c \in Clients |-> Layout(f[c])]
    /\ arrived = [c \in Clients |-> 0] /\ dropped = [c \in Clients |-> 0]
    /\ ws_msg_len = [c \in Clients |-> -1]
    /\ confirmed_ensemble = [c \in Clients |-> FALSE]
    /\ outgoing = [c \in Clients |-> <<>>]
    /\ out = [c \in Clients |-> <<>>]
    /\ pending_ws_senders = <<>>
    /\ busy = None /\ provider = None /\ appMsgs = 0

-----------------------------------------------------------------------------
(* Sending to a client *)

\* The end of Http_conn::send: the text frame goes to the socket.
Written(c, msg) == IF conn[c] \in {"open", "closing"} THEN [out EXCEPT ![c] = Append(@, msg)]
                                                      ELSE out

\* Http_conn::send when no handler is running.
Http_conn_send(c, msg) ==
    /\ out' = Written(c, msg)
    /\ UNCHANGED <<outgoing, pending_ws_senders>>

\* Mutant: only the first sender is inserted.
insert_if_empty(c, msg) ==
    /\ outgoing' = [outgoing EXCEPT ![c] = Append(@, msg)]
    /\ pending_ws_senders' = IF pending_ws_senders # <<>> THEN pending_ws_senders
                             ELSE <<c>>
    /\ UNCHANGED out

\* Http_conn::send_msg_later and insert_pending_ws_sender, called by a handler.
send_msg_later(c, msg) ==
    /\ outgoing' = [outgoing EXCEPT ![c] = Append(@, msg)]
    /\ pending_ws_senders' = IF Contains(pending_ws_senders, c) THEN pending_ws_senders
                             ELSE Append(pending_ws_senders, c)
    /\ UNCHANGED out

\* O2ws_protocol::bridge_poll, by o2_poll.
bridge_poll ==
    /\ busy = None /\ pending_ws_senders # <<>>
    /\ out' = [c \in Clients |-> IF Contains(pending_ws_senders, c)
                                 THEN out[c] \o (IF conn[c] = "closed" THEN <<>>
                                                                     ELSE outgoing[c])
                                 ELSE out[c]]
    /\ outgoing' = [c \in Clients |-> IF Contains(pending_ws_senders, c) THEN <<>>
                                      ELSE outgoing[c]]
    /\ pending_ws_senders' = <<>>
    /\ UNCHANGED <<conn, input, confirmed_ensemble, busy, provider, appMsgs>>

\* The application sends to the service, not in a handler.
AppSends ==
    /\ busy = None /\ appMsgs < MaxSends /\ provider # None
    /\ appMsgs' = appMsgs + 1
    /\ Http_conn_send(provider, "app")
    /\ UNCHANGED <<conn, input, confirmed_ensemble, busy, provider>>

-----------------------------------------------------------------------------
(* The end of a connection *)

\* Http_conn::~Http_conn: pending sends, postponed messages and services go.
Http_conn_delete(c) ==
    /\ pending_ws_senders' = SelectSeq(pending_ws_senders, LAMBDA d : d # c)
    /\ outgoing' = [outgoing EXCEPT ![c] = <<>>]
    /\ provider' = IF provider = c THEN None ELSE provider

\* fds_info->close_socket(false), the loop of deliver being over.
close_politely(c) == conn' = [conn EXCEPT ![c] = "closing"] /\ busy' = None

\* o2n_recv: the socket that waits to be closed is writable, or it was hung up.
CloseSocket(c) ==
    /\ busy = None /\ conn[c] \in {"open", "closing"}
    /\ conn' = [conn EXCEPT ![c] = "closed"]
    /\ UNCHANGED <<input, confirmed_ensemble, outgoing, out, pending_ws_senders, busy,
                   provider, appMsgs>>

\* o2n_free_deleted_sockets
FreeDeleted(c) ==
    /\ busy = None /\ conn[c] = "closed"
    /\ conn' = [conn EXCEPT ![c] = "deleted"]
    /\ Http_conn_delete(c)
    /\ UNCHANGED <<input, confirmed_ensemble, out, busy, appMsgs>>

-----------------------------------------------------------------------------
(* Receiving *)

\* Http_conn::deliver with the bytes of one recv.
deliver(c, to) ==
    /\ busy = None /\ Open(c) /\ arrived[c] < to /\ to <= arrived[c] + MaxRaw
    /\ arrived' = [arrived EXCEPT ![c] = to]
    /\ busy' = c
    /\ UNCHANGED <<conn, sent, dropped, ws_msg_len, confirmed_ensemble, outgoing, out,
                   pending_ws_senders, provider, appMsgs>>

\* Places where a piece may end: some in each frame.
Pieces(c) == UNION {{f.end} \cup {f.from + k : k \in {k \in Cuts : f.from + k < f.end}} :
                      f \in ToSet(sent[c])}

\* Mutant: the masking key is not counted.
complete_without_mask(c) ==
    IF inbuf_size(c) < 6 THEN -1 ELSE (StreamByte(c, dropped[c] + 1) % 128) + 2

\* The length of the frame at the front of inbuf, -1 while unknown, -2 if it is
\* of the longest form.
ws_msg_is_complete(c) ==
    LET p(i) == StreamByte(c, dropped[c] + i)
        load == p(1) % 128
    IN  CASE ws_msg_len[c] >= 0 /\ ws_msg_len[c] <= inbuf_size(c) -> ws_msg_len[c]
          [] inbuf_size(c) < 6 -> -1
          [] load = 126 /\ inbuf_size(c) < 134 -> -1
          [] load = 126 -> (p(2) * 256 + p(3)) + 4 + 4
          [] load = 127 -> -2
          [] OTHER -> load + 2 + 4

drop_front(c, len) ==
    /\ dropped' = [dropped EXCEPT ![c] = @ + len]
    /\ ws_msg_len' = [ws_msg_len EXCEPT ![c] = -1]
    /\ UNCHANGED <<sent, arrived>>

\* PING is answered by PONG; CLOSE by CLOSE, and then the socket is closed.
handle_control(c, kind, len) ==
    /\ drop_front(c, len)
    /\ out' = Written(c, IF kind = "ping" THEN "PONG" ELSE "CLOSE")
    /\ IF kind = "ping" THEN UNCHANGED <<conn, busy>> ELSE close_politely(c)
    /\ UNCHANGED <<outgoing, pending_ws_senders, confirmed_ensemble, provider, appMsgs>>

\* Fragments, other opcodes and messages before /_o2/ws/dy: the frame stays in
\* inbuf and the socket is closed.
handle_refused(c) ==
    /\ close_politely(c)
    /\ UNCHANGED <<input, out, outgoing, pending_ws_senders, confirmed_ensemble,
                   provider, appMsgs>>

\* bad_message: fewer than four fields, or fewer than the types ask for.
handle_bad(c, len) ==
    /\ drop_front(c, len)
    /\ close_politely(c)
    /\ UNCHANGED <<out, outgoing, pending_ws_senders, confirmed_ensemble, provider,
                   appMsgs>>

\* o2ws_dy_handler.  With the wrong ensemble name the Http_conn is deleted while
\* deliver is using it; the memory it then reads says that inbuf is empty.
o2ws_dy_handler(c, right) ==
    IF right
    THEN /\ confirmed_ensemble' = [confirmed_ensemble EXCEPT ![c] = TRUE]
         /\ send_msg_later(c, "id")
         /\ UNCHANGED <<conn, busy, provider>>
    ELSE /\ Http_conn_delete(c)
         /\ conn' = [conn EXCEPT ![c] = "deleted"]
         /\ busy' = None
         /\ UNCHANGED <<confirmed_ensemble, out>>

\* o2_bridge_sv_handler: a service that another one offers is not taken over.
o2_bridge_sv_handler(c) ==
    /\ provider' = IF provider = None THEN c ELSE provider
    /\ UNCHANGED <<conn, busy, confirmed_ensemble, out, outgoing, pending_ws_senders>>

\* o2ws_csget_handler, o2_bridge_st_handler, o2_bridge_ls_handler: the reply goes
\* to o2_message_source.
reply_handler(c) ==
    /\ send_msg_later(c, "reply")
    /\ UNCHANGED <<conn, busy, confirmed_ensemble, provider>>

\* A message for the service, sent on to its provider or dropped.
forward ==
    /\ IF provider = None THEN UNCHANGED <<out, outgoing, pending_ws_senders>>
                          ELSE Http_conn_send(provider, "fwd")
    /\ UNCHANGED <<conn, busy, confirmed_ensemble, provider>>

\* The text frames: o2_message_send of the message made from the fields.
handle_text(c, kind, len) ==
    /\ drop_front(c, len)
    /\ \/ kind \in {"dy", "wrong"} /\ o2ws_dy_handler(c, kind = "dy")
       \/ kind = "sv" /\ o2_bridge_sv_handler(c)
       \/ kind = "ask" /\ reply_handler(c)
       \/ kind = "to" /\ forward
    /\ UNCHANGED appMsgs

handle_websocket_msg(c, len) ==
    LET kind == Current(c)
    IN  CASE kind \in {"fragment", "binary"} -> handle_refused(c)
          [] kind \in {"ping", "close"} -> handle_control(c, kind, len)
          [] kind = "bad" -> handle_bad(c, len)
          [] kind \notin {"dy", "wrong"} /\ ~confirmed_ensemble[c] -> handle_refused(c)
          [] OTHER -> handle_text(c, kind, len)

\* One round of the loop of deliver.  It ends without a complete frame; a length
\* of the longest form also ends it (the code that would close the connection is
\* inside of the loop).
deliver_loop ==
    /\ busy # None
    /\ LET len == ws_msg_is_complete(busy)
       IN  IF len >= 0 /\ len <= inbuf_size(busy)
           THEN handle_websocket_msg(busy, len)
           ELSE /\ ws_msg_len' = [ws_msg_len EXCEPT ![busy] = IF len < 0 THEN @ ELSE len]
                /\ busy' = None
                /\ UNCHANGED <<conn, sent, arrived, dropped, confirmed_ensemble, outgoing,
                               out, pending_ws_senders, provider, appMsgs>>

Next ==
    \/ \E c \in Clients :
          \/ \E to \in Pieces(c) : deliver(c, to)
          \/ CloseSocket(c) \/ FreeDeleted(c)
    \/ deliver_loop \/ bridge_poll \/ AppSends
    \/ (\A c \in Clients : ~Exists(c)) /\ UNCHANGED vars

\* The program goes on calling o2_poll.
Fairness == WF_vars(deliver_loop) /\ WF_vars(bridge_poll)

Spec == Init /\ [][Next]_vars

-----------------------------------------------------------------------------
(* Properties *)

TypeOK ==
    /\ conn \in [Clients -> {"open", "closing", "closed", "deleted"}]
    /\ \A c \in Clients : /\ 0 <= dropped[c] /\ dropped[c] <= arrived[c]
                         /\ arrived[c] <= Last(sent[c]).end
                         /\ ws_msg_len[c] \in Int
    /\ busy \in Clients \cup {None} /\ provider \in Clients \cup {None}

RepliesTo(frames) == LET asking == SelectSeq(frames, LAMBDA f : f.kind \in {"dy", "ask"})
                     IN  [i \in 1 .. Len(asking) |-> IF asking[i].kind = "dy" THEN "id"
                                                      ELSE "reply"]

\* However a client's frames are cut into pieces, inbuf begins where a frame
\* begins, and the replies to the frames before it, be they sent or postponed,
\* are there once each, in the order of the requests, on the connection that
\* asked.
Framing ==
    \A c \in Clients : conn[c] \in {"open", "closing"} =>
        \E n \in 0 .. Len(sent[c]) :
            /\ dropped[c] = IF n = 0 THEN 0 ELSE sent[c][n].end
            /\ RepliesTo(SubSeq(sent[c], 1, n)) =
                  SelectSeq(out[c], LAMBDA m : m \in {"id", "reply"}) \o outgoing[c]

\* No frame that has arrived whole waits for bytes of the next one.
NothingWaits ==
    \A c \in Clients : busy = None /\ Open(c) =>
        \A f \in ToSet(sent[c]) : f.end <= arrived[c] => f.end <= dropped[c]

\* Neither the service nor the list of pending senders leads to an Http_conn that
\* was deleted, in whatever order connections end and handlers reply.
NoDangling ==
    /\ provider # None => Exists(provider)
    /\ \A i \in DOMAIN pending_ws_senders : Exists(pending_ws_senders[i])

\* A postponed reply is sent, or its connection ends.
RepliesSent == \A c \in Clients : []<>(outgoing[c] = <<>>)
=============================================================================
