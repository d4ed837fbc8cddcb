---------------------------- MODULE MCTransports ----------------------------
(***************************************************************************)
(* What connects a process to the rest of the world, for model checking:   *)
(* the start with STUN, MQTT (processes and the byte stream of the broker), *)
(* web sockets and the web server.  They share no state; each is a scene,  *)
(* chosen in the initial state.  In the other scenes its variables keep    *)
(* their initial values, in which none of its fair actions is enabled.     *)
(***************************************************************************)
EXTENDS Mqtt

VARIABLES scene,
          stream, arrived, dropped, handling, acks, delivered,
          network_enabled, internet_enabled, o2_ensemble_name, o2n_public_ip, proc,
          stun_info, stun_try_count, o2_stun_query_running, ipq, queries, phase2,
          waiting, mqtt, hub, runs, enables,
          conn, sent, ws_arrived, ws_dropped, ws_msg_len, confirmed_ensemble,
          outgoing, out, pending_ws_senders, busy, provider, appMsgs,
          state, file, coming, asked, inbuf, reader, inf, replies, requests

commVars == <<stream, arrived, dropped, handling, acks, delivered>>
startVars == <<network_enabled, internet_enabled, o2_ensemble_name, o2n_public_ip,
               proc, stun_info, stun_try_count, o2_stun_query_running, ipq, queries,
               phase2, waiting, mqtt, hub, runs, enables>>
sockVars == <<conn, sent, ws_arrived, ws_dropped, ws_msg_len, confirmed_ensemble,
              outgoing, out, pending_ws_senders, busy, provider, appMsgs>>
httpVars == <<state, file, coming, asked, inbuf, reader, inf, replies, requests>>
mcvars == <<scene, vars, commVars, startVars, sockVars, httpVars>>

\* Remaining lengths below, at and above the limit of one byte.
Stream == INSTANCE MqttComm WITH
    Published <- << [topic |-> 2, payload |-> 0], [topic |-> 3, payload |-> 121],
                    [topic |-> 3, payload |-> 130], [topic |-> 2, payload |-> 1] >>,
    Garbage <- {0, 127, 128, 255}, sent <- stream

Start == INSTANCE Startup WITH MaxRuns <- 3, MaxEnables <- 2

\* Payloads below, at and above the limit of a short frame.
Kinds == {"dy", "sv", "ask", "fragment", "close", "wrong", "to", "ping", "bad", "binary"}
Lengths == [k \in Kinds |-> CASE k = "dy" -> 20 [] k = "sv" -> 125 [] k = "ask" -> 126
                              [] k = "to" -> 383 [] OTHER -> 4]
Said == [a |-> {<<"dy", "sv", "ask">>},
         b |-> {<<"dy", "sv", "to">>, <<"dy", "sv", "close">>, <<"wrong", "dy">>,
                <<"dy", "ping", "ask">>, <<"dy", "bad">>, <<"fragment">>, <<"to">>}]
Browsers == INSTANCE Websock WITH
    Clients <- {"a", "b"}, Scripts <- Said, PayloadLen <- Lengths,
    Cuts <- {5, 134}, MaxSends <- 1, arrived <- ws_arrived, dropped <- ws_dropped

\* Pages with the key at and across the ends of reads; "qwq" is the key.
Pages == {<<"q", "w">>, <<"q", "w", "q">>, <<"q", "q", "w", "q", "x", "x">>,
          <<"x", "q", "w", "q", "w", "q", "w">>, <<"x", "q", "x", "q", "q", "w", "q">>,
          <<"x", "x", "x", "x", "x", "q", "w">>}
Web == INSTANCE Http WITH
    Headers <- {<<"c", "r", "n", "r", "n">>, <<"c", "r", "n", "r", "c", "r", "n", "r", "n">>},
    Files <- Pages, Key <- <<"q", "w", "q">>, Address <- <<"Q", "W", "Q">>,
    ReadSize <- 2, MaxRequests <- 2

\* Two processes in all networks, up to the names of these; and the pair of case 2C2
\* with a third process, whose /bye makes the other two look for times that are over.
Meeting ==
    /\ up[1] = "off" /\ up[2] = "off" /\ net[3] = "open"
    /\ \/ net[1] # "y" /\ up[3] = "gone"
       \/ net[1] = "x" /\ net[2] = "y"

\* What a scene does not use has one value.
MCInit ==
    /\ scene \in {"mqtt", "stream", "start", "websock", "http"}
    /\ Init /\ (IF scene = "mqtt" THEN Meeting ELSE net = [p \in Procs |-> "open"] /\ \A p \in Procs : up[p] = "off")
    /\ Stream!Init
    /\ Start!Init /\ (scene # "start" => network_enabled = TRUE)
    /\ Web!Init /\ (scene # "http" => file = <<"q", "w">>)
    /\ Browsers!Init
    /\ scene # "websock" => sent = [c \in {"a", "b"} |-> Browsers!Layout(
                                      IF c = "a" THEN <<"dy", "sv", "ask">> ELSE <<"to">>)]

MqttNext == /\ scene = "mqtt" /\ Next
            /\ UNCHANGED <<scene, commVars, startVars, sockVars, httpVars>>
StreamNext == /\ scene = "stream" /\ Stream!Next
              /\ UNCHANGED <<scene, vars, startVars, sockVars, httpVars>>
StartNext == /\ scene = "start" /\ Start!Next
             /\ UNCHANGED <<scene, vars, commVars, sockVars, httpVars>>
SockNext == /\ scene = "websock" /\ Browsers!Next
            /\ UNCHANGED <<scene, vars, commVars, startVars, httpVars>>
HttpNext == /\ scene = "http" /\ Web!Next
            /\ UNCHANGED <<scene, vars, commVars, startVars, sockVars>>

MCNext == MqttNext \/ StreamNext \/ StartNext \/ SockNext \/ HttpNext

MCSpec == /\ MCInit /\ [][MCNext]_mcvars
          /\ Fairness /\ Start!Fairness /\ Browsers!Fairness /\ Web!Fairness


\* Messages are found in the bytes of a connection, in whatever pieces they come:
\* those of the broker (MQTTcomm::deliver), the frames of a web socket, with each reply
\* on its connection and in order, and HTTP requests (Http_conn::deliver).  No whole one
\* stays in the input, nothing leads to an Http_conn that was deleted, and Http_reader
\* sends the page with the key replaced, wherever its reads end.
PiecesJoined ==
    /\ scene = "stream" => Stream!AtBoundary /\ Stream!NothingLeft
    /\ scene = "websock" => /\ Browsers!TypeOK /\ Browsers!Framing
                            /\ Browsers!NothingWaits /\ Browsers!NoDangling
    /\ scene = "http" => Web!RequestSeen /\ Web!PageSent

\* Processes that stay with the broker meet and keep each other's services, but for the
\* server of case 2C2, and one that says goodbye is forgotten by all
\* (O2_MQTTcomm::disc_handler, o2_mqtt_finish).
BrokerIntroduces == AllMeet /\ ByeHeard

\* Every question is answered: a process gets a name although no STUN server replies,
\* messages postponed by Http_conn::send go out with the next bridge_poll, and each HTTP
\* request gets its reply.
Answered == Start!NamedEventually /\ Browsers!RepliesSent /\ Web!Replied
=============================================================================
