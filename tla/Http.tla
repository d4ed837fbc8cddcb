-------------------------------- MODULE Http --------------------------------
(***************************************************************************)
(* The web server of websock.cpp: requests on an Http_conn before it is      *)
(* upgraded, and the Http_reader that reads a page asynchronously.  A client *)
(* waits for the reply before its next request, and hangs up only then.      *)
(* Characters are those that matter: "r" and "n" for CR and LF, and those of *)
(* the key that stands for the server's address.                             *)
(***************************************************************************)
EXTENDS Integers, Sequences, FiniteSets, SequencesExt

CONSTANTS
    Headers,      \* request headers: sequences that end in CR LF CR LF
    Files,        \* contents of the page: sequences of characters
    Key,          \* "ws://THE.LOC.ALH.OST:PORTNO/o2ws", quotes included
    Address,      \* what it is replaced by: as long, padded with blanks
    ReadSize,     \* HTTP_FILE_READ_SIZE
    MaxRequests   \* bound on requests

VARIABLES
    state,      \* the connection: "open", "web socket", "closing", "closed"
    file,       \* the page
    coming,     \* what is still to arrive of the request
    asked,      \* the kind of request: "page", "missing", "dotdot", "other", "upgrade"
    inbuf,
    reader,     \* the Http_reader: data is its list of messages, aio the state
                \* of the read into the last one
    inf,        \* Http_conn::inf, -1 when no file is open
    replies,    \* what was written to the socket
    requests    \* requests made so far

vars == <<state, file, coming, asked, inbuf, reader, inf, replies, requests>>

None == [data |-> <<>>, aio |-> "none"]
Terminator == <<"r", "n", "r", "n">>
PageFd == 5   \* the lowest descriptor that is free

Init ==
    /\ state = "open"
    /\ file \in Files
    /\ coming = <<>> /\ asked = "none" /\ inbuf = <<>>
    /\ reader = None /\ inf = 0
    /\ replies = <<>> /\ requests = 0

\* The client has the reply to its last request.
ClientAsks(header, kind) ==
    /\ state = "open" /\ asked = "none" /\ requests < MaxRequests
    /\ coming' = header
    /\ asked' = kind
    /\ requests' = requests + 1
    /\ UNCHANGED <<state, file, inbuf, reader, inf, replies>>

-----------------------------------------------------------------------------
(* Pure functions *)

\* The first place in s, counted from 0, where needle begins; -1 if there is none.
strnstr(s, needle) ==
    LET At == {i \in 0 .. (Len(s) - Len(needle)) :
                 SubSeq(s, i + 1, i + Len(needle)) = needle}
    IN  IF At = {} THEN -1 ELSE CHOOSE i \in At : \A j \in At : i <= j

\* A page whose characters from i on are replaced.
Replaced(text, i, new) ==
    [j \in 1 .. Len(text) |-> IF j > i /\ j <= i + Len(new) THEN new[j - i] ELSE text[j]]

\* How many characters of Key there are at place i of text, the last one compared
\* included: the loop counts a character before it knows that it differs.
Compared(text, i) ==
    LET same == {n \in 0 .. Len(Key) : /\ i + n <= Len(text)
                                       /\ SubSeq(text, i + 1, i + n) = SubSeq(Key, 1, n)}
        matched == CHOOSE n \in same : \A m \in same : m <= n
    IN  IF matched = Len(Key) \/ i + matched >= Len(text) THEN matched ELSE matched + 1

\* substitute_ip_port.  The search ends at the first place where all of Key was
\* compared, be it equal or not; there the place of a match is replaced, or else
\* the one behind it.  The text is the concatenation of the messages, which keep
\* their lengths.
substitute_ip_port(text) ==
    LET Stops == {i \in 0 .. (Len(text) - Len(Key)) : Compared(text, i) = Len(Key)}
        stop == CHOOSE i \in Stops : \A j \in Stops : i <= j
    IN  IF Stops = {} THEN text
        ELSE IF SubSeq(text, stop + 1, stop + Len(Key)) = Key
             THEN Replaced(text, stop, Address)
             ELSE Replaced(text, stop + 1, Address)

-----------------------------------------------------------------------------
(* Requests *)

\* An error page, and the connection is closed when it has been sent.
report_error(response) ==
    /\ replies' = Append(replies, response)
    /\ state' = "closing"
    /\ asked' = "none"
    /\ UNCHANGED <<reader, inf>>

\* Http_conn::websocket_upgrade
websocket_upgrade ==
    /\ replies' = Append(replies, <<"101">>)
    /\ state' = "web socket"
    /\ asked' = "none"
    /\ UNCHANGED <<reader, inf>>

\* Http_reader::Http_reader, with its Fds_info of type READ_CUSTOM.
Http_reader_new ==
    /\ inf' = PageFd
    /\ reader' = [data |-> <<>>, aio |-> "new"]
    /\ UNCHANGED <<replies, state, asked>>

\* open() fails: inf is negative, and the reader is deleted at once.
Http_reader_fails ==
    /\ inf' = -1
    /\ replies' = Append(replies, <<"404">>)
    /\ state' = "closing" /\ asked' = "none"
    /\ UNCHANGED reader

\* The request in inbuf, which is then removed.
http_request ==
    \/ asked = "upgrade" /\ websocket_upgrade
    \/ asked = "page" /\ Http_reader_new
    \/ asked = "missing" /\ Http_reader_fails
    \/ asked \in {"dotdot", "other"} /\ report_error(<<"400">>)

\* The part of inbuf that is searched: it starts 3 characters before the new ones.
search_start(prev_index) == prev_index - (IF prev_index > 3 THEN 3 ELSE prev_index)

\* Http_conn::deliver with the next n characters.
deliver(n) ==
    LET all == inbuf \o SubSeq(coming, 1, n)
        start == search_start(Len(inbuf))
        at == strnstr(SubSeq(all, start + 1, Len(all)), Terminator)
        msg_len == start + at + 4
    IN  /\ state = "open" /\ n <= Len(coming)
        /\ coming' = SubSeq(coming, n + 1, Len(coming))
        /\ UNCHANGED <<file, requests>>
        /\ IF at < 0 THEN inbuf' = all /\ UNCHANGED <<state, asked, reader, inf, replies>>
           ELSE inbuf' = SubSeq(all, msg_len + 1, Len(all)) /\ http_request

-----------------------------------------------------------------------------
(* Pages *)

Read(data) == FoldSeq(LAMBDA piece, n : n + Len(piece), 0, data)

\* prepare_new_read and aio_read at the offset data_len.
start_read(data) == reader' = [data |-> data, aio |-> "busy"]

\* Http_reader::~Http_reader: conn->inf is closed (a second time, after read_eof).
Http_reader_delete ==
    /\ reader' = None
    /\ inf' = -1

\* Http_reader::read_eof: a header with the length, the page with the address in
\* it, in one reply; then close_socket deletes the reader.
read_eof ==
    LET text == FlattenSeq(reader.data)
    IN  /\ replies' = Append(replies, IF Len(text) > Len(Key) + 2
                                      THEN substitute_ip_port(text) ELSE text)
        /\ Http_reader_delete
        /\ asked' = "none"

\* Http_reader::deliver, whenever the page is readable, which is always.
Http_reader_deliver ==
    /\ state = "open"
    /\ \/ reader.aio = "new" /\ start_read(<<>>) /\ UNCHANGED <<inf, replies, asked>>
       \/ /\ reader.aio = "done"
          /\ LET from == Read(reader.data)
                 left == Len(file) - from
                 piece == SubSeq(file, from + 1, from + (IF left < ReadSize THEN left
                                                                           ELSE ReadSize))
             IN  IF piece = <<>> THEN read_eof
                 ELSE start_read(Append(reader.data, piece))
                      /\ UNCHANGED <<inf, replies, asked>>
    /\ UNCHANGED <<state, file, coming, inbuf, requests>>

\* The system completes the read.
aio_completes ==
    /\ reader.aio = "busy"
    /\ reader' = [reader EXCEPT !.aio = "done"]
    /\ UNCHANGED <<state, file, coming, asked, inbuf, inf, replies, requests>>

\* The client hangs up, or the socket to be closed is writable: ~Http_conn.
Http_conn_delete ==
    /\ state \in {"open", "web socket", "closing"} /\ asked = "none"
    /\ state' = "closed"
    /\ UNCHANGED <<file, coming, asked, inbuf, reader, inf, replies, requests>>

Next ==
    \/ \E h \in Headers, k \in {"page", "missing", "dotdot", "other", "upgrade"} :
          ClientAsks(h, k)
    \/ \E n \in 1 .. 9 : deliver(n)
    \/ Http_reader_deliver \/ aio_completes \/ Http_conn_delete
    \/ state = "closed" /\ UNCHANGED vars

\* What the client sent arrives, and the program polls.
Fairness == /\ WF_vars(\E n \in 1 .. 9 : deliver(n))
            /\ WF_vars(Http_reader_deliver) /\ WF_vars(aio_completes)

Spec == Init /\ [][Next]_vars

-----------------------------------------------------------------------------
(* Properties *)

\* The page with Key, where it is, replaced by Address.
Page == LET at == strnstr(file, Key)
        IN  IF at < 0 \/ Len(file) <= Len(Key) + 2 THEN file ELSE Replaced(file, at, Address)

\* A page that is sent is the whole file, with the address of the server where
\* the key was, even if the key is divided between two reads.
PageSent == \A i \in DOMAIN replies : \/ replies[i] \in {<<"101">>, <<"400">>, <<"404">>}
                                      \/ replies[i] = Page

\* A request is taken up when its last character has come, however its
\* terminator was cut.
RequestSeen == coming = <<>> /\ asked # "none" => reader # None

\* Each request is replied to once.
Replied == []<>(Len(replies) = requests)
=============================================================================
