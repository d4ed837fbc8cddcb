-------------------------------- MODULE Mqtt --------------------------------
(***************************************************************************)
(* Discovery and connections through an MQTT broker: mqtt.cpp.  Every      *)
(* process subscribes to O2-ens/disc and to a topic of its own.  The       *)
(* broker is external: it passes on what one process publishes in order,   *)
(* to each subscriber.  Names are numbers, compared as strcmp compares the *)
(* names.                                                                  *)
(***************************************************************************)
EXTENDS Integers, Sequences, FiniteSets

CONSTANTS
    Procs,      \* processes, by their names
    Networks,   \* public IP addresses; "open" is a host whose two addresses agree
    Crashes,    \* a process may stop without a /bye
    MaxInbox    \* bound on messages under way when a keep-alive is published

ASSUME MqttAssumption == Procs \subseteq Int

VARIABLES
    net,        \* process -> "open" or the public address it is behind
    up,         \* process -> "off", "on", "gone" or "dead" (crashed)
    inbox,      \* what the broker has yet to pass on to each process
    procs,      \* o2_mqtt_procs of each process
    expired,    \* the processes in procs whose timeout has passed
    tcp,        \* pairs of processes joined by ordinary discovery
    checking,   \* processes with a !_o2/mqtt/ct message scheduled
    learned,    \* <<p, q>>: p has received the services of q
    orphans     \* <<p, q>>: p dropped services of q because q was not known

vars == <<net, up, inbox, procs, expired, tcp, checking, learned, orphans>>

On(p) == up[p] = "on"
Joined(p, q) == {p, q} \in tcp

\* A process that is "gone" from the start is one that will not come.
Init ==
    /\ net \in [Procs -> Networks]
    /\ up \in [Procs -> {"off", "gone"}]
    /\ inbox = [p \in Procs |-> <<>>]
    /\ procs = [p \in Procs |-> {}] /\ expired = [p \in Procs |-> {}]
    /\ tcp = {} /\ checking = {} /\ learned = {} /\ orphans = {}

-----------------------------------------------------------------------------
(* Publishing *)

\* MQTTcomm::publish to the discovery topic: all subscribers get it.
ToDisc(box, p, what) ==
    [q \in Procs |-> IF On(q) \/ q = p THEN Append(box[q], [what |-> what, from |-> p])
                                       ELSE box[q]]

\* MQTT_info::send, publish to the topic of one process.
ToProc(box, p, q, what) ==
    IF On(q) THEN [box EXCEPT ![q] = Append(@, [what |-> what, from |-> p])] ELSE box

\* o2_mqtt_enable once the public address is known, o2_mqtt_initialize: the
\* subscriptions, the first discovery message and the two timers.
o2_mqtt_initialize(p) ==
    /\ up[p] = "off"
    /\ up' = [up EXCEPT ![p] = "on"]
    /\ inbox' = ToDisc(inbox, p, "disc")
    /\ checking' = checking \cup {p}
    /\ UNCHANGED <<net, procs, expired, tcp, learned, orphans>>

\* mqtt_ping_send: the keep-alive, then mqtt_ping_sched again.
mqtt_ping_send(p) ==
    /\ On(p)
    /\ \A q \in Procs : Len(inbox[q]) < MaxInbox
    /\ inbox' = ToDisc(inbox, p, "disc")
    /\ UNCHANGED <<net, up, procs, expired, tcp, checking, learned, orphans>>

\* o2_mqtt_disconnect and o2_mqtt_finish, called by o2_finish.
o2_mqtt_finish(p) ==
    /\ On(p)
    /\ up' = [up EXCEPT ![p] = "gone"]
    /\ inbox' = [ToDisc(inbox, p, "bye") EXCEPT ![p] = <<>>]
    /\ procs' = [procs EXCEPT ![p] = {}]
    /\ expired' = [expired EXCEPT ![p] = {}]
    /\ tcp' = {pair \in tcp : p \notin pair}
    /\ checking' = checking \ {p}
    /\ UNCHANGED <<net, learned, orphans>>

Crash(p) ==
    /\ up' = [up EXCEPT ![p] = "dead"]
    /\ inbox' = [inbox EXCEPT ![p] = <<>>]
    /\ procs' = [procs EXCEPT ![p] = {}]
    /\ expired' = [expired EXCEPT ![p] = {}]
    /\ tcp' = {pair \in tcp : p \notin pair}
    /\ checking' = checking \ {p}
    /\ UNCHANGED <<net, learned, orphans>>

-----------------------------------------------------------------------------
(* Receiving.  Each handler takes the inboxes without the message it handles *)

\* o2_send_services to a process that is new; a known one has its timeout set
\* anew, and is sent nothing.
create_mqtt_connection(box, p, q, from_disc) ==
    IF q \in procs[p] \/ Joined(p, q)
    THEN /\ expired' = [expired EXCEPT ![p] = @ \ {q}]
         /\ inbox' = box
         /\ UNCHANGED <<procs, tcp>>
    ELSE /\ procs' = [procs EXCEPT ![p] = @ \cup {q}]
         /\ inbox' = ToProc(IF from_disc THEN ToProc(box, p, q, "mqtt/dy") ELSE box,
                            p, q, "sv")
         /\ UNCHANGED <<expired, tcp>>

\* o2_discovered_a_remote_process_name: the discovery module joins the two by
\* TCP, as long as the other is there.
discovered(box, p, q) ==
    /\ tcp' = IF On(q) THEN tcp \cup {{p, q}} ELSE tcp
    /\ inbox' = box
    /\ UNCHANGED <<procs, expired>>

send_callback_via_mqtt(box, p, q) ==
    /\ inbox' = ToProc(box, p, q, "callback")
    /\ UNCHANGED <<procs, expired, tcp>>

\* Mutant: case 2B for names of either order.
disc_cases_any_order(box, p, q) ==
    CASE net[q] = "open" /\ (p < q \/ net[p] = "open") -> discovered(box, p, q)
      [] net[q] = "open" /\ p > q /\ net[p] # "open" ->
            create_mqtt_connection(box, p, q, TRUE)
      [] net[q] # "open" /\ net[p] = net[q] -> discovered(box, p, q)
      [] OTHER -> create_mqtt_connection(box, p, q, TRUE)

\* Case 2C2: both are behind NATs of their own, and p, the server, does nothing with the
\* name of q.  Then the keep-alives of q do not set its timeout anew either.
Unrefreshed(p, q) == net[q] # "open" /\ net[p] \notin {net[q], "open"} /\ p > q

\* What to do about a name on the discovery topic: the cases of doc/mqtt.txt,
\* as disc_handler has them.
disc_cases(box, p, q) ==
    \/ net[q] = "open" /\ p < q /\ discovered(box, p, q)                     \* 1A
    \/ net[q] = "open" /\ p > q /\ net[p] = "open" /\ discovered(box, p, q)  \* 1B1
    \/ /\ net[q] = "open" /\ p > q /\ net[p] # "open"                       \* 1B2
       /\ create_mqtt_connection(box, p, q, TRUE)
    \/ /\ net[q] # "open" /\ net[p] = net[q] /\ p > q                       \* 2A1
       /\ send_callback_via_mqtt(box, p, q)
    \/ net[q] # "open" /\ net[p] = net[q] /\ p < q /\ discovered(box, p, q)  \* 2A2
    \/ /\ net[q] # "open" /\ net[p] # net[q] /\ p < q                       \* 2B
       /\ create_mqtt_connection(box, p, q, TRUE)
    \/ /\ net[q] # "open" /\ net[p] = "open" /\ p > q                       \* 2C1
       /\ send_callback_via_mqtt(box, p, q)
    \/ Unrefreshed(p, q) /\ inbox' = box /\ UNCHANGED <<procs, expired, tcp>>  \* 2C2

\* A discovery message, our own one ignored.
disc_handler(box, p, q) ==
    /\ IF p = q THEN inbox' = box /\ UNCHANGED <<procs, expired, tcp>>
                ELSE disc_cases(box, p, q)
    /\ UNCHANGED <<net, up, checking, learned, orphans>>

\* mqtt_check_timeouts: the MQTT_infos whose time is over are deleted.
delete_procs(p, gone) ==
    /\ procs' = [procs EXCEPT ![p] = @ \ gone]
    /\ expired' = [expired EXCEPT ![p] = @ \ gone]
    /\ learned' = {l \in learned : ~(l[1] = p /\ l[2] \in gone)}

\* Mutant: a /bye is taken as one more sign of life.
bye_handler_refreshes(box, p, q) ==
    /\ inbox' = box
    /\ UNCHANGED <<net, up, procs, expired, tcp, checking, learned, orphans>>

\* A /bye.  For a process we know it sets the timeout to 0 and checks the
\* timeouts at once (and, user_data not being NULL, schedules another check); a
\* process we do not know is treated as discovered, and then the missing action
\* field is read through a null pointer.
bye_handler(box, p, q) ==
    \/ /\ q \in procs[p]
       /\ delete_procs(p, {q} \cup expired[p])
       /\ checking' = checking \cup {p}
       /\ inbox' = box
       /\ UNCHANGED <<net, up, tcp, orphans>>
    \/ /\ q \notin procs[p] /\ Joined(p, q)
       /\ inbox' = box
       /\ UNCHANGED <<net, up, procs, expired, tcp, checking, learned, orphans>>
    \/ /\ q \notin procs[p] /\ ~Joined(p, q)
       /\ Crash(p)

\* !_o2/mqtt/dy, from a process that has made a connection to us.
o2_mqtt_discovery_handler(box, p, q) ==
    /\ create_mqtt_connection(box, p, q, FALSE)
    /\ UNCHANGED <<net, up, checking, learned, orphans>>

\* !_o2/dy with O2_DY_CALLBACK: discovery makes the TCP connection.
callback_handler(box, p, q) ==
    /\ discovered(box, p, q)
    /\ UNCHANGED <<net, up, checking, learned, orphans>>

\* !_o2/sv, which is ignored when its sender is not known.
services_handler(box, p, q) ==
    /\ inbox' = box
    /\ IF q \in procs[p]
       THEN learned' = learned \cup {<<p, q>>} /\ UNCHANGED orphans
       ELSE orphans' = orphans \cup {<<p, q>>} /\ UNCHANGED learned
    /\ UNCHANGED <<net, up, procs, expired, tcp, checking>>

\* MQTTcomm::deliver and deliver_mqtt_msg for the next message of the broker.
deliver_mqtt_msg(p) ==
    /\ On(p) /\ inbox[p] # <<>>
    /\ LET m == Head(inbox[p])
           box == [inbox EXCEPT ![p] = Tail(@)]
       IN  \/ m.what = "disc" /\ disc_handler(box, p, m.from)
           \/ m.what = "bye" /\ bye_handler(box, p, m.from)
           \/ m.what = "mqtt/dy" /\ o2_mqtt_discovery_handler(box, p, m.from)
           \/ m.what = "callback" /\ callback_handler(box, p, m.from)
           \/ m.what = "sv" /\ services_handler(box, p, m.from)

-----------------------------------------------------------------------------
(* Timers *)

\* The check that o2_mqtt_initialize or a /bye has scheduled.  Its user_data is
\* NULL, so it schedules no other.
mqtt_check_timeouts(p) ==
    /\ p \in checking
    /\ delete_procs(p, expired[p])
    /\ checking' = checking \ {p}
    /\ UNCHANGED <<net, up, inbox, tcp, orphans>>

\* MQTT_TIMEOUT_PERIOD since create_mqtt_connection was last called for q.  A keep-alive
\* of q, which is more frequent, calls it again except in case 2C2.
TimeoutPasses(p, q) ==
    /\ q \in procs[p] \ expired[p]
    /\ On(q) => Unrefreshed(p, q)
    /\ ~\E i \in DOMAIN inbox[p] : inbox[p][i].from = q
    /\ expired' = [expired EXCEPT ![p] = @ \cup {q}]
    /\ UNCHANGED <<net, up, inbox, procs, tcp, checking, learned, orphans>>

Next ==
    \/ \E p \in Procs :
          \/ o2_mqtt_initialize(p) \/ mqtt_ping_send(p) \/ o2_mqtt_finish(p)
          \/ deliver_mqtt_msg(p) \/ mqtt_check_timeouts(p)
          \/ Crashes /\ On(p) /\ Crash(p)
          \/ \E q \in Procs : TimeoutPasses(p, q)
    \/ (\A p \in Procs : ~On(p)) /\ UNCHANGED vars

\* The program polls, the timers go off, and the broker passes messages on.
Fairness == \A p \in Procs :
    /\ SF_vars(mqtt_ping_send(p)) /\ WF_vars(deliver_mqtt_msg(p))
    /\ WF_vars(mqtt_check_timeouts(p))
    /\ WF_vars(\E q \in Procs : TimeoutPasses(p, q))

Spec == Init /\ [][Next]_vars

-----------------------------------------------------------------------------
(* Properties *)

TypeOK ==
    /\ up \in [Procs -> {"off", "on", "gone", "dead"}]
    /\ \A p \in Procs : procs[p] \subseteq Procs \ {p} /\ expired[p] \subseteq procs[p]
    /\ \A pair \in tcp : \E p, q \in Procs : p # q /\ pair = {p, q}
    /\ checking \subseteq {p \in Procs : On(p)}

\* Both sides come to the same decision: two processes are never joined by TCP
\* while one of them also sends to the other through the broker, although each
\* decides by itself, from a message the other sent before knowing it.
OneTransport == \A p, q \in Procs : q \in procs[p] => ~Joined(p, q)

\* The services a process sends through the broker when it connects find it known at
\* the receiver (the !_o2/mqtt/dy that makes it known is sent first), so none are
\* dropped unless it has left, also where the receiver had given it up by mistake.
NoOrphans == \A o \in orphans : ~On(o[2])

\* Two processes are never joined by TCP and by the broker, and services that the broker
\* brings are not dropped by a receiver that stays (disc_handler, create_mqtt_connection).
JoinedOnce == TypeOK /\ OneTransport /\ NoOrphans

\* Two processes that stay get joined, and through the broker each gets the other's
\* services, whatever the order of their names and networks.  It keeps them, except
\* the server in case 2C2: its time for the client passes although the client lives,
\* the check that the /bye of a third process makes deletes the client
\* (mqtt.cpp:438), and its services are never sent again.
AllMeet ==
    \A p, q \in Procs : p # q =>
        ((<>[](On(p) /\ On(q))) =>
            /\ <>(Joined(p, q) \/ <<p, q>> \in learned)
            /\ <>[](Unrefreshed(p, q) \/ Joined(p, q) \/ <<p, q>> \in learned))

\* A process that has left with a /bye is forgotten by all.
ByeHeard == <>[](\A p, q \in Procs : up[q] = "gone" => q \notin procs[p])
=============================================================================
