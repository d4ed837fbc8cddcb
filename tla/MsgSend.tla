------------------------------ MODULE MsgSend ------------------------------
(***************************************************************************)
(* Delivery of messages inside one O2 process, from src/src/msgsend.cpp: a *)
(* message on the o2_ctx->msgs stack is delivered to the handler of its    *)
(* service and copied to the service's taps, or postponed on one of the    *)
(* two pending queues when a delivery is already going on.                 *)
(*                                                                         *)
(* The thread of the process is modelled as a stack of calls of            *)
(* o2_msg_deliver, the current one first.  User code runs when the stack   *)
(* is empty and o2_poll is not running, and in handlers; o2n_recv sends    *)
(* the messages that come from the network during o2_poll.  All services   *)
(* are local and have one handler, the taps are by local services and are  *)
(* set again when a tapper is created anew, and the clock is synchronized. *)
(***************************************************************************)
EXTENDS Integers, Sequences, FiniteSets, SequencesExt

CONSTANTS Services,
          Taps,           \* Taps[s]: the tappers of service s, in order
          Bundles,        \* the bundles user code may send: lists of services
          O2_MAX_TAP_FORWARDING,
          MaxSends,       \* bound on the number of calls by user code
          MaxSpecial      \* bound on those other than a plain send

ASSUME MsgSendAssumption ==
    /\ Taps \in [Services -> Seq(Services)]
    /\ Bundles \subseteq Seq(Services)
    /\ O2_MAX_TAP_FORWARDING \in Nat
    /\ MaxSends \in Nat /\ MaxSpecial \in Nat

VARIABLES calls,       \* the calls of o2_msg_deliver in progress
          msgs,        \* o2_ctx->msgs, a stack with the current message first
          anywhere,    \* o2_pending_anywhere
          local,       \* o2_pending_local
          timed,       \* messages held by the global scheduler
          reenter,     \* o2_do_not_reenter
          poll,        \* the part of o2_poll that is running
          live,        \* the services that exist
          sends,       \* number of calls by user code
          special      \* number of those other than a plain send

user == <<sends, special>>
vars == <<calls, msgs, anywhere, local, timed, reenter, poll, live, user>>

Kinds == {"now", "timed", "part", "tap"}

\* id is the address of the message; kind tells whether it was sent by user
\* code, directly or through a scheduler, is a part of a bundle or is a copy
\* for a tap; seq numbers the sends of user code; src names the handler call
\* in which the message was sent, by the sends before it, or is -1.
Msg(id, dest, parts, ttl, kind, seq, src) ==
    [id |-> id, dest |-> dest, parts |-> parts, ttl |-> ttl, kind |-> kind,
     seq |-> seq, src |-> src]

Init ==
    /\ calls = << >> /\ msgs = << >>
    /\ anywhere = << >> /\ local = << >> /\ timed = {}
    /\ reenter = 0
    /\ poll = "no"
    /\ live = Services
    /\ sends = 0 /\ special = 0

InUse == {m.id : m \in Range(msgs) \cup Range(anywhere) \cup Range(local)
                       \cup timed}
NewId == CHOOSE i \in 1..(Cardinality(InUse) + 1) : i \notin InUse

Top == Head(calls)
UserCode == IF calls = << >> THEN poll \in {"no", "recv"}
            ELSE Top.at = "handler"
Source == IF calls = << >> THEN -1 ELSE Top.since

\* A new call of o2_msg_deliver.  guarded: by o2_send_local, which raises
\* o2_do_not_reenter for the time of the call.  since: the number of calls by
\* user code before that of the handler.
Delivery(m, guarded) == [msg |-> m, at |-> "start", i |-> 1,
                         guarded |-> guarded, since |-> 0]

-----------------------------------------------------------------------------
(* Each operator is what a function does with the calls below it in place: *)
(* cs are the calls to return to, ms is o2_ctx->msgs without m.            *)

\* Mutant: the pending queue is a stack.
SendLocalInFront(m, cs, ms) ==
    IF reenter > 0
    THEN /\ anywhere' = IF m.kind = "tap" THEN anywhere ELSE <<m>> \o anywhere
         /\ local' = IF m.kind = "tap" THEN <<m>> \o local ELSE local
         /\ msgs' = ms
         /\ calls' = cs
         /\ UNCHANGED reenter
    ELSE /\ calls' = <<Delivery(m, TRUE)>> \o cs
         /\ msgs' = <<m>> \o ms
         /\ reenter' = 1
         /\ UNCHANGED <<anywhere, local>>

o2_send_local(m, cs, ms) ==
    IF reenter > 0
    THEN /\ anywhere' = IF m.kind = "tap" THEN anywhere ELSE Append(anywhere, m)
         /\ local' = IF m.kind = "tap" THEN Append(local, m) ELSE local
         /\ msgs' = ms
         /\ calls' = cs
         /\ UNCHANGED reenter
    ELSE /\ calls' = <<Delivery(m, TRUE)>> \o cs
         /\ msgs' = <<m>> \o ms
         /\ reenter' = reenter + 1
         /\ UNCHANGED <<anywhere, local>>

\* The message is dropped: o2_complete_delivery frees it.
Drop(cs, ms) ==
    /\ calls' = cs /\ msgs' = ms
    /\ UNCHANGED <<anywhere, local, reenter>>

\* o2_service_msg_send with the lookup of the service before it, which is
\* all of o2_msg_send_now.  A bundle is sent to a service like any message.
o2_service_msg_send(m, cs, ms) ==
    IF m.dest \in live THEN o2_send_local(m, cs, ms) ELSE Drop(cs, ms)

\* o2_message_send schedules a message with a timestamp in the future.
o2_message_send(m, future, cs, ms) ==
    \/ /\ m.dest \notin live \/ ~future
       /\ o2_service_msg_send(m, cs, ms)
       /\ UNCHANGED timed
    \/ /\ m.dest \in live /\ future
       /\ timed' = timed \cup {[m EXCEPT !.kind = "timed"]}
       /\ calls' = cs /\ msgs' = ms
       /\ UNCHANGED <<anywhere, local, reenter>>

-----------------------------------------------------------------------------
(* User code, in a handler or outside.                                     *)
UserCall(isSpecial) ==
    /\ UserCode
    /\ sends < MaxSends
    /\ sends' = sends + 1
    /\ isSpecial => special < MaxSpecial
    /\ special' = IF isSpecial THEN special + 1 ELSE special

\* o2_send_marker or the receipt of a message.
o2_send_marker(s, parts, future) ==
    /\ UserCall(parts # << >> \/ future)
    /\ o2_message_send(Msg(NewId, s, parts, 0, "now", sends + 1, Source),
                       future, calls, msgs)
    /\ UNCHANGED <<poll, live>>

\* o2_schedule_msg with a timestamp that has passed: o2_schedule calls
\* o2_msg_deliver directly.
o2_schedule_msg(s) ==
    /\ UserCall(TRUE)
    /\ LET m == Msg(NewId, s, << >>, 0, "timed", sends + 1, Source)
       IN  /\ calls' = <<Delivery(m, FALSE)>> \o calls
           /\ msgs' = <<m>> \o msgs
    /\ UNCHANGED <<anywhere, local, timed, reenter, poll, live>>

\* A service is removed or created, not one to which a message is being
\* delivered, and not while a list of taps is in use.
ToggleService(s) ==
    /\ UserCall(TRUE)
    /\ \A i \in DOMAIN calls : calls[i].msg.dest # s /\ calls[i].at # "taps"
    /\ live' = IF s \in live THEN live \ {s} ELSE live \cup {s}
    /\ UNCHANGED <<calls, msgs, anywhere, local, timed, reenter, poll>>

HandlerReturns ==
    /\ calls # << >> /\ Top.at = "handler"
    /\ calls' = [calls EXCEPT ![1].at = "return"]
    /\ UNCHANGED <<msgs, anywhere, local, timed, reenter, poll, live, user>>

-----------------------------------------------------------------------------
(* The steps of o2_msg_deliver.                                            *)
Running(at) == calls # << >> /\ Top.at = at

\* Step 0: the parts of a bundle are copied and sent one by one.
Unbundle ==
    /\ Running("start")
    /\ Top.msg.parts # << >>
    /\ IF Top.i > Len(Top.msg.parts)
       THEN /\ calls' = [calls EXCEPT ![1].at = "done"]
            /\ UNCHANGED <<msgs, anywhere, local, timed, reenter>>
       ELSE \E future \in BOOLEAN :
              o2_message_send(
                Msg(NewId, Top.msg.parts[Top.i], << >>, 0, "part", Top.msg.seq,
                    Source),
                future, [calls EXCEPT ![1].i = @ + 1], msgs)
    /\ UNCHANGED <<poll, live, user>>

\* Steps 1 to 5: the handler of the service is called, if it still exists.
Invoke ==
    /\ Running("start")
    /\ Top.msg.parts = << >>
    /\ calls' = [calls EXCEPT ![1].since = sends, ![1].at =
                    IF Top.msg.dest \in live THEN "handler" ELSE "done"]
    /\ UNCHANGED <<msgs, anywhere, local, timed, reenter, poll, live, user>>

\* Mutant: the number of hops is not counted.
o2_send_to_taps_uncounted ==
    /\ Running("return")
    /\ calls' = [calls EXCEPT ![1].at = "taps"]
    /\ UNCHANGED <<msgs, anywhere, local, timed, reenter, poll, live, user>>

\* Step 6: o2_send_to_taps counts the hop and tests the count.
o2_send_to_taps ==
    /\ Running("return")
    /\ LET ttl == Top.msg.ttl + 1
       IN  calls' = [calls EXCEPT ![1].msg.ttl = ttl,
                         ![1].at = IF ttl <= O2_MAX_TAP_FORWARDING THEN "taps"
                                   ELSE "done"]
    /\ UNCHANGED <<msgs, anywhere, local, timed, reenter, poll, live, user>>

\* One tap gets a copy with the same count, flagged as a tap message.
msg_send_to_tap ==
    /\ Running("taps")
    /\ LET taps == Taps[Top.msg.dest]
       IN  IF Top.i > Len(taps)
           THEN /\ calls' = [calls EXCEPT ![1].at = "done"]
                /\ UNCHANGED <<msgs, anywhere, local, reenter>>
           ELSE o2_service_msg_send(
                    Msg(NewId, taps[Top.i], << >>, Top.msg.ttl, "tap",
                        Top.msg.seq, Top.msg.src),
                    [calls EXCEPT ![1].i = @ + 1], msgs)
    /\ UNCHANGED <<timed, poll, live, user>>

\* Mutant: o2_do_not_reenter is lowered after every delivery.
ReturnAlwaysLowers ==
    /\ Running("done")
    /\ msgs' = Tail(msgs)
    /\ calls' = Tail(calls)
    /\ reenter' = reenter - 1
    /\ UNCHANGED <<anywhere, local, timed, poll, live, user>>

\* Step 7: o2_complete_delivery frees the current message, and o2_send_local
\* lowers its counter.
Return ==
    /\ Running("done")
    /\ msgs' = Tail(msgs)
    /\ calls' = Tail(calls)
    /\ reenter' = IF Top.guarded THEN reenter - 1 ELSE reenter
    /\ UNCHANGED <<anywhere, local, timed, poll, live, user>>

-----------------------------------------------------------------------------
(* o2_poll, called outside of handlers: the scheduler, the network, then   *)
(* o2_deliver_pending with its two loops.                                  *)
PollStart ==
    /\ calls = << >> /\ poll = "no"
    /\ poll' = "sched"
    /\ UNCHANGED <<calls, msgs, anywhere, local, timed, reenter, live, user>>

\* A message is due: o2_msg_send_now.
Due(m) ==
    /\ calls = << >> /\ poll = "sched"
    /\ m \in timed
    /\ timed' = timed \ {m}
    /\ o2_service_msg_send(m, calls, msgs)
    /\ UNCHANGED <<poll, live, user>>

PollPending ==
    /\ calls = << >>
    /\ \/ poll = "sched" /\ poll' = "recv"
       \/ poll = "recv" /\ poll' = "anywhere"
       \/ poll = "anywhere" /\ anywhere = << >> /\ poll' = "local"
       \/ poll = "local" /\ local = << >> /\ poll' = "no"
    /\ UNCHANGED <<calls, msgs, anywhere, local, timed, reenter, live, user>>

DeliverAnywhere ==
    /\ calls = << >> /\ poll = "anywhere" /\ anywhere # << >>
    /\ LET m == Head(anywhere)
       IN  IF m.dest \in live
           THEN /\ calls' = <<Delivery(m, TRUE)>>
                /\ msgs' = <<m>> \o msgs
                /\ reenter' = reenter + 1
           ELSE UNCHANGED <<calls, msgs, reenter>>
    /\ anywhere' = Tail(anywhere)
    /\ UNCHANGED <<local, timed, poll, live, user>>

\* The delivery of a postponed tap message is not guarded.
DeliverLocal ==
    /\ calls = << >> /\ poll = "local" /\ local # << >>
    /\ LET m == Head(local)
       IN  IF m.dest \in live
           THEN /\ calls' = <<Delivery(m, FALSE)>>
                /\ msgs' = <<m>> \o msgs
           ELSE UNCHANGED <<calls, msgs>>
    /\ local' = Tail(local)
    /\ UNCHANGED <<anywhere, timed, reenter, poll, live, user>>

-----------------------------------------------------------------------------
Deliver == Unbundle \/ Invoke \/ o2_send_to_taps \/ msg_send_to_tap \/ Return

o2_poll == \/ PollStart
           \/ PollPending
           \/ DeliverAnywhere
           \/ DeliverLocal

Next ==
    \/ \E s \in Services : \/ \E parts \in Bundles \cup {<< >>},
                                future \in BOOLEAN :
                                 o2_send_marker(s, parts, future)
                          \/ o2_schedule_msg(s)
                          \/ ToggleService(s)
    \/ HandlerReturns
    \/ Deliver
    \/ o2_poll
    \/ \E m \in timed : Due(m)

Spec == Init /\ [][Next]_vars

\* Handlers return, the program keeps calling o2_poll, and the time of a
\* scheduled message comes.
Fairness == /\ WF_vars(HandlerReturns)
            /\ WF_vars(Deliver)
            /\ WF_vars(o2_poll)
            /\ SF_vars(\E m \in timed : Due(m))

FairSpec == Spec /\ Fairness

-----------------------------------------------------------------------------
Ids(q) == [i \in DOMAIN q |-> q[i].id]
Positions == {"start", "handler", "return", "taps", "done"}

\* Messages and calls have the form above, and o2_do_not_reenter counts the
\* calls of o2_msg_deliver that o2_send_local has under way: it comes back to
\* 0 on every path, or nothing would be delivered directly any more.
TypeOK ==
    /\ \A m \in Range(msgs) \cup Range(anywhere) \cup Range(local) \cup timed :
          /\ m.dest \in Services
          /\ m.kind \in Kinds
          /\ m.ttl \in 0..O2_MAX_TAP_FORWARDING
          /\ m.seq \in 1..MaxSends
    /\ \A c \in Range(calls) : c.at \in Positions /\ c.guarded \in BOOLEAN
    /\ poll \in {"no", "sched", "recv", "anywhere", "local"}
    /\ live \subseteq Services
    /\ sends \in 0..MaxSends /\ special \in 0..MaxSpecial
    /\ reenter = Cardinality({i \in DOMAIN calls : calls[i].guarded})

\* Ownership: o2_ctx->msgs holds the messages of the deliveries in progress,
\* the innermost first, so that the message o2_complete_delivery frees is the
\* one just delivered; and no message is in two places, whatever handlers
\* send while messages are delivered, postponed and copied.
MessagesOwned ==
    /\ Ids(msgs) = Ids([i \in DOMAIN calls |-> calls[i].msg])
    /\ Cardinality(InUse) = Len(msgs) + Len(anywhere) + Len(local)
                             + Cardinality(timed)
    /\ \A i, j \in DOMAIN msgs : i # j => msgs[i].id # msgs[j].id

\* No overtaking: when a handler is called with a message sent without a
\* timestamp, no earlier message that was sent to the same service by the same
\* caller is still waiting in o2_pending_anywhere.
InSendingOrder ==
    \A c \in Range(calls), m \in Range(anywhere) :
        (/\ c.at = "handler" /\ c.msg.kind = "now" /\ m.kind = "now"
         /\ c.msg.dest = m.dest /\ c.msg.src = m.src)
            => c.msg.seq < m.seq

\* o2_ctx->msgs holds the messages of the deliveries in progress, innermost first, no
\* message is in two places, and o2_do_not_reenter counts the calls of o2_send_local,
\* on whatever path they return.
OwnedOnce == TypeOK /\ MessagesOwned

\* Once user code makes no more calls, all messages are delivered or dropped:
\* services that tap each other do not forward for ever, and no message is
\* left behind in a pending queue or a scheduler.
EventuallyQuiet ==
    <>[](calls = << >> /\ anywhere = << >> /\ local = << >> /\ timed = {})
=============================================================================
