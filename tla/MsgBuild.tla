------------------------------ MODULE MsgBuild ------------------------------
(***************************************************************************)
(* Building messages and bundles (message.cpp part 3, o2_message_build) and *)
(* the conversion of their byte order for the network (o2_msg_swap_endian).*)
(*                                                                         *)
(* A message is the sequence of its bytes: length, misc, timestamp, address,*)
(* types, data, laid out as in memory in words of four bytes.  A byte has  *)
(* the values 0 .. Base - 1, so that lengths of real messages reach every  *)
(* case that 8-bit bytes have; characters are numbers from 100.  One type  *)
(* stands for all that are treated alike: "i" for i, f, c, B, m; "h" for h,*)
(* d, t; "s" for s, S; "T" for T, F, N, I; "[" for [ and ].                *)
(***************************************************************************)
EXTENDS Integers, Sequences, SequencesExt

CONSTANTS Args,        \* the arguments: [t, e, x], e the element type of a vector
          Builds,      \* arguments of calls of o2_send: sequences of Args
          MaxTypes,    \* bound on msg_types while arguments are added
          MaxMessage   \* bound on the bytes of a message added to a bundle

VARIABLES building_message_lock, is_bundle, is_normal,
          msg_types, msg_data,
          added,       \* what the calls that returned O2_SUCCESS added
          msg          \* the last message finished: [bytes, parts, bundle]

vars == <<building_message_lock, is_bundle, is_normal, msg_types, msg_data, added, msg>>

Base == 8
Word(x) == [k \in 1 .. 4 |-> (x \div Base ^ (k - 1)) % Base]
Long(x) == Word(x) \o Word(0)

Kinds == <<"#", "/", ",", "i", "h", "s", "T", "b", "v", "[", "z">>
Char(c) == 100 + (CHOOSE k \in DOMAIN Kinds : Kinds[k] = c)
Zeros(n) == [k \in 1 .. n |-> 0]
Padding(n) == (4 - (n % 4)) % 4
Padded(s) == s \o Zeros(Padding(Len(s)))
Terminated(s) == Padded(Append(s, 0))

NoMsg == [bytes |-> <<>>, parts |-> <<>>, bundle |-> FALSE]

Init == /\ building_message_lock = FALSE /\ is_bundle = FALSE /\ is_normal = FALSE
        /\ msg_types = <<>> /\ msg_data = <<>>
        /\ added = <<>>
        /\ msg = NoMsg

-----------------------------------------------------------------------------
(* Adding arguments.  b is the state of the builder. *)

builder == [lock |-> building_message_lock, bundle |-> is_bundle, normal |-> is_normal,
            types |-> msg_types, data |-> msg_data, added |-> added]
Becomes(b) == /\ building_message_lock' = b.lock
              /\ is_bundle' = b.bundle /\ is_normal' = b.normal
              /\ msg_types' = b.types /\ msg_data' = b.data
              /\ added' = b.added

o2_send_start(b) ==
    IF b.lock THEN b
    ELSE [lock |-> TRUE, bundle |-> FALSE, normal |-> FALSE,
          types |-> <<",">>, data |-> <<>>, added |-> <<>>]

\* o2_add_int64, o2_add_double_or_time and the like; o2_add_string_or_symbol;
\* o2_add_only_typecode.
Scalar(a) == CASE a.t = "i" -> Word(a.x)
               [] a.t = "h" -> Long(a.x)
               [] a.t = "s" -> Terminated(a.x)
               [] OTHER -> <<>>

o2_add_blob_data(a) == Word(Len(a.x)) \o Padded(a.x)

o2_add_vector(a) ==
    LET size == IF a.e = "h" THEN 8 ELSE 4
    IN  Word(size * Len(a.x)) \o
        FlattenSeq([k \in 1 .. Len(a.x) |-> IF a.e = "h" THEN Long(a.x[k]) ELSE Word(a.x[k])])

\* One argument: nothing is added to a bundle, and no vector of an unknown type.
o2_add(b, a) ==
    CASE b.bundle -> b
      [] ~b.bundle /\ a.t = "v" /\ a.e \notin {"i", "h"} -> [b EXCEPT !.normal = TRUE]
      [] OTHER -> [b EXCEPT !.normal = TRUE,
                            !.types = @ \o IF a.t = "v" THEN <<"v", a.e>> ELSE <<a.t>>,
                            !.data = @ \o (CASE a.t = "b" -> o2_add_blob_data(a)
                                             [] a.t = "v" -> o2_add_vector(a)
                                             [] OTHER -> Scalar(a)),
                            !.added = Append(@, a)]

o2_add_message(b, m) ==
    IF b.normal THEN b
    ELSE [b EXCEPT !.bundle = TRUE, !.data = @ \o Padded(m.bytes), !.added = Append(@, m)]

types_size(b) ==
    IF b.bundle THEN <<>> ELSE Terminated([k \in 1 .. Len(b.types) |-> Char(b.types[k])])

\* Misc and timestamp are 1 and 2; the address is one word.
o2_service_message_finish(b) ==
    LET rest == Word(1) \o Long(2) \o
                <<Char(IF b.bundle THEN "#" ELSE "/"), 0, 0, 0>> \o types_size(b) \o b.data
    IN  [bytes |-> Word(Len(rest)) \o rest, parts |-> b.added, bundle |-> b.bundle]

-----------------------------------------------------------------------------
(* The calls of the program *)

send_start == /\ ~building_message_lock
              /\ Becomes(o2_send_start(builder))
              /\ UNCHANGED msg

add(a) == /\ building_message_lock
          /\ Len(msg_types) < MaxTypes
          /\ Becomes(o2_add(builder, a))
          /\ UNCHANGED msg

add_message == /\ building_message_lock
               /\ msg # NoMsg
               /\ Len(msg.bytes) <= MaxMessage /\ Len(added) < MaxTypes
               /\ Becomes(o2_add_message(builder, msg))
               /\ UNCHANGED msg

message_finish == /\ building_message_lock
                  /\ Becomes([builder EXCEPT !.lock = FALSE])
                  /\ msg' = o2_service_message_finish(builder)

\* o2_send: the message is started (unless one is being built), its arguments are
\* added, and it is finished unless the markers behind them are missing.
o2_message_build(s, marked) ==
    LET b == FoldLeft(o2_add, o2_send_start(builder), s)
    IN  /\ Len(msg_types) < MaxTypes
        /\ IF marked THEN /\ Becomes([b EXCEPT !.lock = FALSE])
                          /\ msg' = o2_service_message_finish(b)
           ELSE /\ Becomes(b)
                /\ UNCHANGED msg

Next == \/ send_start
        \/ \E a \in Args : add(a)
        \/ add_message
        \/ message_finish
        \/ \E s \in Builds, marked \in BOOLEAN : o2_message_build(s, marked)

Spec == Init /\ [][Next]_vars

-----------------------------------------------------------------------------
(* o2_msg_swap_endian.  m: the memory; positions are counted from 1. *)

At(m, p) == IF p \in DOMAIN m THEN m[p] ELSE 0
Swap(m, p, n) == [k \in DOMAIN m |-> IF k \in p .. p + n - 1 THEN At(m, 2 * p + n - 1 - k) ELSE m[k]]

swap64(m, p) == Swap(m, p, 8)

Value(m, p) ==
    LET u == At(m, p) + Base * At(m, p + 1) + Base ^ 2 * At(m, p + 2) + Base ^ 3 * At(m, p + 3)
    IN  IF u >= Base ^ 4 \div 2 THEN u - Base ^ 4 ELSE u

\* The size of the string at p with its padding.
o2_strsize(m, p) ==
    LET n == CHOOSE n \in 0 .. Len(m) : /\ At(m, p + n) = 0
                                         /\ \A k \in 0 .. n - 1 : At(m, p + k) # 0
    IN  n + 1 + Padding(n + 1)

o2_msg_data_types(m, p) == p + 16 + o2_strsize(m, p + 16) + 1
O2_MSG_DATA_END(m, p) == p + 4 + Value(m, p)

\* The length at d in host order, when it is swapped.
HostValue(m, d, is_host_order) == Value(IF is_host_order THEN m ELSE Swap(m, d, 4), d)

\* The arguments from type t and data d on.  The type of a vector is read where 'v'
\* is, so that its elements are neither swapped nor skipped.
RECURSIVE swap_args(_, _, _, _, _)
swap_args(m, t, d, end, is_host_order) ==
    LET Is(c) == At(m, t) = Char(c)
        size == HostValue(m, d, is_host_order)
    IN  CASE At(m, t) = 0 \/ d >= end -> m
          [] At(m, t) # 0 /\ d < end ->
               CASE Is("i") /\ d + 4 <= end ->
                      swap_args(Swap(m, d, 4), t + 1, d + 4, end, is_host_order)
                 [] Is("h") /\ d + 8 <= end ->
                      swap_args(swap64(m, d), t + 1, d + 8, end, is_host_order)
                 [] Is("s") /\ d + o2_strsize(m, d) <= end ->
                      swap_args(m, t + 1, d + o2_strsize(m, d), end, is_host_order)
                 [] Is("T") -> swap_args(m, t + 1, d, end, is_host_order)
                 [] Is("b") /\ d + 4 <= end ->
                      IF d + 4 + size > end THEN Swap(m, d, 4)
                      ELSE swap_args(Swap(m, d, 4), t + 1, d + 4 + size, end, is_host_order)
                 [] Is("v") /\ d + 4 <= end ->
                      IF d + 4 + size > end THEN Swap(m, d, 4)
                      ELSE swap_args(Swap(m, d, 4), t + 2, d + 4, end, is_host_order)
                 [] OTHER -> m

host_length(m, p, is_host_order) == HostValue(m, p, is_host_order)

\* The messages of a bundle from e on; o2_msg_swap_endian of the message at p.
RECURSIVE o2_msg_swap_endian(_, _, _), swap_embedded(_, _, _, _, _)
swap_embedded(m, p, e, end, is_host_order) ==
    LET len == host_length(m, e, is_host_order)
    IN  IF e >= end THEN m
        ELSE IF p + len + 4 > end THEN Swap(m, e, 4)
        ELSE swap_embedded(o2_msg_swap_endian(Swap(m, e, 4), e, is_host_order),
                           p, e + len + 4, end, is_host_order)

o2_msg_swap_endian(m, p, is_host_order) ==
    LET m1 == swap64(Swap(m, p + 4, 4), p + 8)
        t == o2_msg_data_types(m, p)
        types == SelectInSubSeq(m, t, Len(m), LAMBDA c : c = 0)
        end == O2_MSG_DATA_END(m, p)
    IN  IF m[p + 16] = Char("#")
        THEN swap_embedded(m1, p, t - 1, end, is_host_order)
        ELSE swap_args(m1, t, types + 1 + Padding(types), end, is_host_order)

-----------------------------------------------------------------------------
(* Properties *)

\* The bytes of a message in the order of the host or of the network, written from
\* its parts; for the latter the length of the message itself, which the network
\* layer converts, stays as it is.
Reversed(s) == [k \in 1 .. Len(s) |-> s[Len(s) + 1 - k]]
RECURSIVE Layout(_, _)
Layout(m, net) ==
    LET O(s) == IF net THEN Reversed(s) ELSE s
        Arg(a) == CASE a.t = "i" -> O(Word(a.x))
                    [] a.t = "h" -> O(Long(a.x))
                    [] a.t = "s" -> a.x \o Zeros(4 - (Len(a.x) % 4))
                    [] a.t = "b" -> O(Word(Len(a.x))) \o a.x \o Zeros((-Len(a.x)) % 4)
                    [] a.t = "v" -> O(Word(Len(a.x) * IF a.e = "h" THEN 8 ELSE 4)) \o
                                    FlattenSeq([k \in DOMAIN a.x |->
                                       O(IF a.e = "h" THEN Long(a.x[k]) ELSE Word(a.x[k]))])
                    [] OTHER -> <<>>
        Codes(a) == IF a.t = "v" THEN <<Char("v"), Char(a.e)>> ELSE <<Char(a.t)>>
        codes == <<Char(",")>> \o FlattenSeq([k \in DOMAIN m.parts |-> Codes(m.parts[k])])
        Part(q) == LET inner == Layout(q, net)
                   IN  O(SubSeq(q.bytes, 1, 4)) \o SubSeq(inner, 5, Len(inner))
        head == O(Word(1)) \o O(Long(2)) \o <<Char(IF m.bundle THEN "#" ELSE "/"), 0, 0, 0>>
        body == IF m.bundle THEN FlattenSeq([k \in DOMAIN m.parts |-> Part(m.parts[k])])
                ELSE codes \o Zeros(4 - (Len(codes) % 4)) \o
                     FlattenSeq([k \in DOMAIN m.parts |-> Arg(m.parts[k])])
    IN  Word(Len(head \o body)) \o head \o body

\* A message is made of exactly the arguments, or the messages, whose addition
\* succeeded since building began, never of both, whatever calls were refused in
\* between, and each lies at its place.
AsAdded == msg # NoMsg => msg.bytes = Layout(msg, FALSE)

\* Bundles whose conversion fails: with bundles inside, and with messages whose length
\* is negative when its bytes are swapped, because o2_msg_swap_endian finds the end of
\* an embedded message from a length that has been swapped already.
Nested(m) == m.bundle /\ \E k \in DOMAIN m.parts : m.parts[k].bundle
Unlucky(m) == m.bundle /\ \E k \in DOMAIN m.parts : m.parts[k].bytes[1] >= Base \div 2

\* A message that was converted for the network and back is the message that was
\* sent, also where o2_msg_swap_endian misreads it: both ways take the same steps.
BackAgain(m) ==
    o2_msg_swap_endian(o2_msg_swap_endian(m.bytes, 1, TRUE), 1, FALSE) = m.bytes
RoundTrip == msg # NoMsg /\ ~Nested(msg) /\ ~Unlucky(msg) => BackAgain(msg)

\* What is sent is in the order of the network, byte for byte, where no argument is
\* one that o2_msg_swap_endian does not convert: vectors, arrays, and arguments
\* behind a blob with padding.
Plain(parts) == /\ \A k \in DOMAIN parts : parts[k].t \notin {"v", "["}
                /\ \A k \in DOMAIN parts : parts[k].t = "b" /\ k < Len(parts)
                                              => Len(parts[k].x) % 4 = 0
AllPlain(m) == IF m.bundle THEN \A k \in DOMAIN m.parts : Plain(m.parts[k].parts)
               ELSE Plain(m.parts)
NetworkOrder ==
    msg # NoMsg /\ ~Nested(msg) /\ ~Unlucky(msg) => 
        (AllPlain(msg) => o2_msg_swap_endian(msg.bytes, 1, TRUE) = Layout(msg, TRUE))
=============================================================================
