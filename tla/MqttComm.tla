------------------------------ MODULE MqttComm ------------------------------
(***************************************************************************)
(* MQTT messages: mqttcomm.cpp.  The broker's bytes arrive in pieces of    *)
(* any size and are put together in mqtt_input, which is the part of the   *)
(* stream between the indices dropped and arrived.  A length is read one   *)
(* byte past the end of the input when the input ends before it: what the  *)
(* memory holds there is any byte.                                         *)
(***************************************************************************)
EXTENDS Integers, Sequences, FiniteSets

CONSTANTS
    Published,   \* the messages published: sequence of [topic, payload], lengths
    Garbage      \* bytes there may be behind the end of the input

VARIABLES
    sent,               \* what the broker sends: messages with their places
    arrived, dropped,   \* mqtt_input is the stream from dropped + 1 to arrived
    handling,           \* MQTTcomm::deliver is in its loop
    acks,               \* connack_count + suback_count
    delivered           \* lengths given to deliver_mqtt_msg

vars == <<sent, arrived, dropped, handling, acks, delivered>>

MQTT_PUBLISH == 48
MQTT_CONNACK == 32
MQTT_PUBACK == 64
MQTT_SUBACK == 144

mqtt_append_int16(i) == <<i \div 256, i % 256>>

\* The command, the length in groups of 7 bits, lowest first, and the first bytes of
\* the body; the other bytes do not matter and are 0.
mqtt_finish_msg(command, len, first) ==
    LET groups == CHOOSE n \in 1 .. 4 :
                     len < 128 ^ n /\ (n = 1 \/ len >= 128 ^ (n - 1))
        group(i) == (len \div 128 ^ (i - 1)) % 128
    IN  [head |-> <<command>>
                  \o [i \in 1 .. groups |-> IF i < groups THEN group(i) + 128 ELSE group(i)]
                  \o first,
         size |-> 1 + groups + len]

\* mqtt_append_topic, the packet id and the payload.
publish(m) ==
    mqtt_finish_msg(MQTT_PUBLISH, 2 + m.topic + 2 + m.payload, mqtt_append_int16(m.topic))

\* What the broker sends: the answers to initialize and to the two subscribe
\* calls, and the publications.
Parts == <<mqtt_finish_msg(MQTT_CONNACK, 2, <<>>), mqtt_finish_msg(MQTT_SUBACK, 3, <<>>),
           mqtt_finish_msg(MQTT_SUBACK, 3, <<>>)>>
         \o [i \in 1 .. Len(Published) |-> publish(Published[i])]

\* The messages lie behind each other: bytes from + 1 to end.
Placed(parts) ==
    LET end[n \in 0 .. Len(parts)] == IF n = 0 THEN 0 ELSE end[n - 1] + parts[n].size
    IN  [n \in 1 .. Len(parts) |-> [head |-> parts[n].head, from |-> end[n - 1], end |-> end[n]]]

Before(n) == IF n = 0 THEN 0 ELSE sent[n].end
Total == Before(Len(sent))

StreamByte(i) ==
    LET m == CHOOSE m \in {sent[n] : n \in 1 .. Len(sent)} : m.from < i /\ i <= m.end
    IN  IF i - m.from <= Len(m.head) THEN m.head[i - m.from] ELSE 0

Init ==
    /\ sent = Placed(Parts)
    /\ arrived = 0 /\ dropped = 0
    /\ handling = FALSE
    /\ acks = 0
    /\ delivered = <<>>

size == arrived - dropped

\* mqtt_input[i], counted from 0.
input(i) == StreamByte(dropped + i + 1)

\* The length field that begins at byte 1 of the input: its value, or -1 if more
\* bytes are needed, and the position behind it.
mqtt_int_len(garbage) ==
    LET byte(i) == IF i < size THEN input(i) ELSE garbage
        n == CHOOSE k \in 1 .. 4 :
               (byte(k) < 128 \/ k = 4) /\ \A j \in 1 .. (k - 1) : byte(j) >= 128
        sum[i \in 0 .. n] == IF i = 0 THEN 0
                             ELSE sum[i - 1] + (byte(i) % 128) * 128 ^ (i - 1)
    IN  IF n > size THEN [len |-> -1, posn |-> n + 1]
                    ELSE [len |-> sum[n], posn |-> n + 1]

drop_front(n) == dropped' = dropped + n

\* MQTT_CONNACK and MQTT_SUBACK of handle_first_msg.
handle_ack(length) ==
    IF size < length THEN handling' = FALSE /\ UNCHANGED <<dropped, acks, delivered>>
    ELSE /\ drop_front(length)
         /\ acks' = acks + 1
         /\ handling' = (size > length)
         /\ UNCHANGED delivered

handle_publish(garbage) ==
    LET h == mqtt_int_len(garbage)
        topic_len == input(h.posn) * 256 + input(h.posn + 1)
    IN  IF h.len < 0 \/ h.posn + h.len > size
        THEN handling' = FALSE /\ UNCHANGED <<dropped, acks, delivered>>
        ELSE /\ delivered' = Append(delivered, [topic |-> topic_len,
                                                payload |-> h.len - topic_len - 4])
             /\ drop_front(h.posn + h.len)
             /\ handling' = (size > h.posn + h.len)
             /\ UNCHANGED acks

\* An input that begins otherwise is thrown away.
handle_unknown ==
    /\ drop_front(size)
    /\ handling' = FALSE
    /\ UNCHANGED <<acks, delivered>>

handle_first_msg ==
    LET first == input(0)
    IN  /\ handling
        /\ CASE first \div 16 = MQTT_PUBLISH \div 16 ->
                   \E g \in Garbage : handle_publish(g)
             [] first \in {MQTT_CONNACK, MQTT_PUBACK} -> handle_ack(4)
             [] first = MQTT_SUBACK -> handle_ack(5)
             [] OTHER -> handle_unknown
        /\ UNCHANGED <<sent, arrived>>

\* MQTT_info::deliver with the bytes that one recv returned.
deliver(n) ==
    /\ ~handling /\ arrived + n <= Total
    /\ arrived' = arrived + n
    /\ handling' = TRUE
    /\ UNCHANGED <<sent, dropped, acks, delivered>>

Next == \/ \E n \in 1 .. Total : deliver(n)
        \/ handle_first_msg
        \/ arrived = Total /\ ~handling /\ UNCHANGED vars

Spec == Init /\ [][Next]_vars

-----------------------------------------------------------------------------
(* Properties *)

\* However the bytes are cut into pieces and whatever lies behind the input,
\* messages are recognized exactly where they begin, and what is delivered is
\* what was published, in its order.
AtBoundary ==
    \E n \in 0 .. Len(sent) :
        /\ dropped = Before(n) /\ dropped <= arrived
        /\ acks = IF n < 3 THEN n ELSE 3
        /\ delivered = IF n < 3 THEN <<>> ELSE SubSeq(Published, 1, n - 3)

\* No complete message is left waiting for bytes of the next one.
NothingLeft ==
    ~handling => \A n \in 0 .. Len(sent) : Before(n) <= arrived => Before(n) <= dropped
=============================================================================
