----------------------------- MODULE Sharedmem -----------------------------
(***************************************************************************)
(* The shared memory bridge: sharedmem.cpp and sharedmem.h.  The O2 thread *)
(* and the shared memory threads share two kinds of lock-free lists: the   *)
(* outgoing list of each O2sm_info (O2 to thread) and o2sm_incoming (all   *)
(* threads to O2).  A push or a grab is one step (see O2Queue); lists are  *)
(* LIFO, newest first.  The steps of the O2 thread and of each thread      *)
(* interleave between any two messages.                                    *)
(***************************************************************************)
EXTENDS Integers, Sequences, FiniteSets, SequencesExt

CONSTANTS
    Threads,     \* shared memory threads
    Services,    \* services the threads and the host offer
    HostOffers,  \* services the host itself offers
    Times,       \* timestamps of messages; 0 is "no timestamp"
    MaxSent,     \* bound on messages sent to the threads
    MaxIncoming, \* bound on o2sm_incoming when a thread offers or replies
    MaxTime,     \* bound on o2_global_now
    FinishIn     \* the streams whose handlers may call o2sm_finish

Host == "host"
Nobody == "nobody"

ASSUME SharedmemAssumption ==
    /\ Host \notin Threads /\ Nobody \notin Threads
    /\ Times \subseteq Nat /\ HostOffers \subseteq Services
    /\ MaxSent \in Nat /\ MaxIncoming \in Nat /\ MaxTime \in Nat
    /\ FinishIn \subseteq {"timed", "now"}

VARIABLES
    o2sm_protocol,  \* the protocol exists
    instances,      \* threads with an O2sm_info
    provider,       \* service -> thread offering it, Host or Nobody
    outgoing,       \* messages to each thread
    o2sm_incoming,  \* messages to O2
    arriving,       \* the messages bridge_poll has grabbed and not yet sent
    pc,             \* of each thread: "none", "new", "idle", in o2sm_poll "sort",
                    \* "timed", "now" or "dead" (o2_ctx deleted inside of it), "done"
    unsorted,       \* messages poll_outgoing has grabbed and not yet sorted
    schedule,       \* schedule_head .. schedule_tail of the thread's o2_ctx
    msgs,           \* messages without timestamp that poll_outgoing still holds
    polled,         \* now in poll_outgoing, -1 while there is no global time
    global_now,     \* o2sm_time_get, -1 before the clock is synchronized
    sent,           \* number of messages sent to threads
    handled,        \* messages each thread has dispatched, in order
    freed,          \* messages freed without being dispatched
    fault           \* o2sm_dispatch was called without an o2_ctx

vars == <<o2sm_protocol, instances, provider, outgoing, o2sm_incoming, arriving,
          pc, unsorted, schedule, msgs, polled, global_now, sent, handled, freed, fault>>

o2Side == <<o2sm_protocol, instances, provider, arriving>>
smSide == <<pc, unsorted, schedule, msgs, polled, handled, fault>>

Init ==
    /\ o2sm_protocol = FALSE
    /\ instances = {}
    /\ provider = [s \in Services |-> IF s \in HostOffers THEN Host ELSE Nobody]
    /\ outgoing = [k \in Threads |-> <<>>]
    /\ o2sm_incoming = <<>> /\ arriving = <<>>
    /\ pc = [k \in Threads |-> "none"]
    /\ unsorted = [k \in Threads |-> <<>>]
    /\ schedule = [k \in Threads |-> <<>>]
    /\ msgs = [k \in Threads |-> <<>>]
    /\ polled = [k \in Threads |-> 0]
    /\ global_now = -1
    /\ sent = 0
    /\ handled = [k \in Threads |-> <<>>]
    /\ freed = {}
    /\ fault = FALSE

push(list, msg) == <<msg>> \o list

\* Mutant: the list is handed out as it was grabbed.
messages_not_reversed(list) == list

get_messages_reversed(list) == Reverse(list)

Timed(m) == m.ts # 0

-----------------------------------------------------------------------------
(* The O2 thread *)

o2_shmem_initialize ==
    /\ ~o2sm_protocol
    /\ o2sm_protocol' = TRUE
    /\ UNCHANGED <<instances, provider, arriving, smSide, outgoing, o2sm_incoming,
                   global_now, sent, freed>>

o2_shmem_inst_new(k) ==
    /\ o2sm_protocol /\ pc[k] = "none"
    /\ instances' = instances \cup {k}
    /\ pc' = [pc EXCEPT ![k] = "new"]
    /\ UNCHANGED <<o2sm_protocol, provider, arriving, outgoing, o2sm_incoming,
                   unsorted, schedule, msgs, polled, handled, fault, global_now, sent,
                   freed>>

\* O2sm_info::send, for a message to a service that a thread offers.
O2sm_info_send(s, ts) ==
    LET k == provider[s]
    IN  /\ k \in instances /\ sent < MaxSent
        /\ sent' = sent + 1
        /\ outgoing' = [outgoing EXCEPT ![k] = push(@, [id |-> sent + 1, ts |-> ts])]
        /\ UNCHANGED <<o2Side, smSide, o2sm_incoming, global_now, freed>>

\* bridge_poll grabs the incoming messages, oldest first; o2_message_send then
\* delivers them one by one.
bridge_poll ==
    /\ o2sm_protocol /\ arriving = <<>> /\ o2sm_incoming # <<>>
    /\ arriving' = get_messages_reversed(o2sm_incoming)
    /\ o2sm_incoming' = <<>>
    /\ UNCHANGED <<o2sm_protocol, instances, provider, smSide, outgoing, global_now,
                   sent, freed>>

\* A new service; one that the host or another bridge offers is refused.
o2sm_sv_handler(m) ==
    /\ provider' = IF m.from \in instances /\ provider[m.service] = Nobody
                   THEN [provider EXCEPT ![m.service] = m.from] ELSE provider
    /\ UNCHANGED <<instances, outgoing, freed>>

\* Mutant: the services of a thread that has gone stay.
remove_services_none(k) == provider

\* ~O2sm_info: its services, its messages and its place in instances go.
remove_services(k) == [s \in Services |-> IF provider[s] = k THEN Nobody
                                                             ELSE provider[s]]

o2sm_fin_handler(m) ==
    IF m.from \in instances
    THEN /\ instances' = instances \ {m.from}
         /\ provider' = remove_services(m.from)
         /\ freed' = freed \cup Range(outgoing[m.from])
         /\ outgoing' = [outgoing EXCEPT ![m.from] = <<>>]
    ELSE UNCHANGED <<instances, provider, freed, outgoing>>

bridge_poll_send ==
    /\ arriving # <<>>
    /\ LET m == Head(arriving)
       IN  \/ m.kind = "sv" /\ o2sm_sv_handler(m)
           \/ m.kind = "fin" /\ o2sm_fin_handler(m)
           \/ m.kind = "reply" /\ UNCHANGED <<instances, provider, outgoing, freed>>
    /\ arriving' = Tail(arriving)
    /\ UNCHANGED <<o2sm_protocol, smSide, o2sm_incoming, global_now, sent>>

\* o2_finish deletes the protocol.  The application first waits until
\* o2_shmem_inst_count() is zero.
o2_shmem_finish ==
    /\ o2sm_protocol /\ instances = {} /\ arriving = <<>>
    /\ \A k \in Threads : pc[k] = "done"
    /\ o2sm_protocol' = FALSE
    /\ o2sm_incoming' = <<>>
    /\ UNCHANGED <<instances, provider, arriving, smSide, outgoing, global_now,
                   sent, freed>>

\* Clock synchronization and the passing of time; o2sm_time_get reads them.
o2sm_time_get ==
    /\ global_now < MaxTime
    /\ global_now' = global_now + 1
    /\ UNCHANGED <<o2Side, smSide, outgoing, o2sm_incoming, sent, freed>>

-----------------------------------------------------------------------------
(* A shared memory thread *)

o2sm_initialize(k) ==
    /\ pc[k] = "new"
    /\ pc' = [pc EXCEPT ![k] = "idle"]
    /\ UNCHANGED <<o2Side, unsorted, schedule, msgs, polled, handled, fault, outgoing,
                   o2sm_incoming, global_now, sent, freed>>

\* o2sm_message_send with the messages of o2sm_service_new and of o2sm_send.
o2sm_message_send(m) ==
    /\ Len(o2sm_incoming) + Len(arriving) < MaxIncoming
    /\ o2sm_incoming' = push(o2sm_incoming, m)
    /\ UNCHANGED <<o2Side, smSide, outgoing, global_now, sent, freed>>

o2sm_service_new(k, s) ==
    /\ pc[k] = "idle"
    /\ o2sm_message_send([kind |-> "sv", from |-> k, service |-> s])

\* poll_outgoing reads the time and grabs the messages, oldest first.
poll_outgoing(k) ==
    /\ pc[k] = "idle"
    /\ polled' = [polled EXCEPT ![k] = global_now]
    /\ unsorted' = [unsorted EXCEPT ![k] = get_messages_reversed(outgoing[k])]
    /\ outgoing' = [outgoing EXCEPT ![k] = <<>>]
    /\ pc' = [pc EXCEPT ![k] = "sort"]
    /\ UNCHANGED <<o2Side, schedule, msgs, handled, fault, o2sm_incoming, global_now,
                   sent, freed>>

append_to_schedule(k, m) == schedule' = [schedule EXCEPT ![k] = Append(@, m)]

\* Messages with a timestamp go to the schedule, the others stay in msgs.
poll_sort(k) ==
    /\ pc[k] = "sort" /\ unsorted[k] # <<>>
    /\ LET m == Head(unsorted[k])
       IN  \/ Timed(m) /\ append_to_schedule(k, m) /\ UNCHANGED msgs
           \/ ~Timed(m) /\ msgs' = [msgs EXCEPT ![k] = Append(@, m)] /\ UNCHANGED schedule
    /\ unsorted' = [unsorted EXCEPT ![k] = Tail(@)]
    /\ UNCHANGED <<o2Side, pc, polled, handled, fault, outgoing, o2sm_incoming,
                   global_now, sent, freed>>

\* Without a global time the whole schedule is freed.
poll_sorted(k) ==
    /\ pc[k] = "sort" /\ unsorted[k] = <<>>
    /\ \/ /\ polled[k] < 0
          /\ freed' = freed \cup Range(schedule[k])
          /\ schedule' = [schedule EXCEPT ![k] = <<>>]
       \/ polled[k] >= 0 /\ UNCHANGED <<freed, schedule>>
    /\ pc' = [pc EXCEPT ![k] = "timed"]
    /\ UNCHANGED <<o2Side, unsorted, msgs, polled, handled, fault, outgoing,
                   o2sm_incoming, global_now, sent>>

\* What a handler may do: nothing, send a message to O2, or o2sm_finish, which
\* deletes o2_ctx and sends /_o2/o2sm/fin.
o2sm_finish(k) == o2sm_incoming' = push(o2sm_incoming, [kind |-> "fin", from |-> k])

\* The loop over timed messages returns when o2_ctx is gone; the loop over the
\* others does not look at o2_ctx and goes on.
check_ctx(stream) == IF stream = "timed" THEN "done" ELSE "dead"

HandlerReturns(k, stream) ==
    \/ pc' = pc /\ UNCHANGED o2sm_incoming
    \/ pc' = pc /\ Len(o2sm_incoming) + Len(arriving) < MaxIncoming
       /\ o2sm_incoming' = push(o2sm_incoming, [kind |-> "reply", from |-> k])
    \/ /\ stream \in FinishIn
       /\ pc' = [pc EXCEPT ![k] = check_ctx(stream)]
       /\ o2sm_finish(k)

o2sm_dispatch(k, m, stream) ==
    /\ handled' = [handled EXCEPT ![k] = Append(@, m)]
    /\ HandlerReturns(k, stream)

Ready(k) == schedule[k] # <<>> /\ Head(schedule[k]).ts < polled[k]

\* The messages whose time has come; the loop ends when a handler has called
\* o2sm_finish.
poll_timed(k) ==
    /\ pc[k] = "timed" /\ Ready(k)
    /\ o2sm_dispatch(k, Head(schedule[k]), "timed")
    /\ schedule' = [schedule EXCEPT ![k] = Tail(@)]
    /\ UNCHANGED <<o2Side, unsorted, msgs, polled, fault, outgoing, global_now, sent,
                   freed>>

poll_timed_done(k) ==
    /\ pc[k] = "timed" /\ ~Ready(k)
    /\ pc' = [pc EXCEPT ![k] = "now"]
    /\ UNCHANGED <<o2Side, unsorted, schedule, msgs, polled, handled, fault, outgoing,
                   o2sm_incoming, global_now, sent, freed>>

\* The messages without timestamp.  Once o2_ctx is gone the next dispatch uses a
\* null pointer.
poll_now(k) ==
    /\ pc[k] \in {"now", "dead"} /\ msgs[k] # <<>>
    /\ fault' = (pc[k] = "dead")
    /\ o2sm_dispatch(k, Head(msgs[k]), "now")
    /\ msgs' = [msgs EXCEPT ![k] = Tail(@)]
    /\ UNCHANGED <<o2Side, unsorted, schedule, polled, outgoing, global_now, sent, freed>>

poll_returns(k) ==
    /\ pc[k] \in {"now", "dead"} /\ msgs[k] = <<>>
    /\ pc' = [pc EXCEPT ![k] = IF @ = "now" THEN "idle" ELSE "done"]
    /\ UNCHANGED <<o2Side, unsorted, schedule, msgs, polled, handled, fault, outgoing,
                   o2sm_incoming, global_now, sent, freed>>

\* o2sm_finish outside of o2sm_poll.
thread_finishes(k) ==
    /\ pc[k] = "idle"
    /\ pc' = [pc EXCEPT ![k] = "done"]
    /\ o2sm_finish(k)
    /\ UNCHANGED <<o2Side, unsorted, schedule, msgs, polled, handled, fault, outgoing,
                   global_now, sent, freed>>

-----------------------------------------------------------------------------
o2Thread == \/ bridge_poll \/ bridge_poll_send

smThread(k) == \/ o2sm_initialize(k) \/ poll_sort(k) \/ poll_sorted(k) \/ poll_timed(k) \/ poll_timed_done(k)
               \/ poll_now(k) \/ poll_returns(k)

\* All have finished; the application ends.
Ended == pc = [k \in Threads |-> "done"] /\ ~o2sm_protocol /\ UNCHANGED vars

Next ==
    \/ o2_shmem_initialize /\ \A k \in Threads : pc[k] = "none"
    \/ o2Thread \/ o2_shmem_finish \/ o2sm_time_get
    \/ \E s \in Services, ts \in Times : O2sm_info_send(s, ts)
    \/ \E k \in Threads :
          \/ o2_shmem_inst_new(k) \/ smThread(k) \/ poll_outgoing(k)
          \/ thread_finishes(k)
          \/ \E s \in Services : o2sm_service_new(k, s)
    \/ Ended

\* o2_poll is called again and again, and a thread that has begun a poll ends it.
Fairness == /\ WF_vars(o2Thread)
            /\ \A k \in Threads : WF_vars(smThread(k))

Spec == Init /\ [][Next]_vars

-----------------------------------------------------------------------------
(* Properties *)

Message == [id : 1 .. MaxSent, ts : Times]
Incoming == [kind : {"sv"}, from : Threads, service : Services]
            \cup [kind : {"fin", "reply"}, from : Threads]

TypeOK ==
    /\ o2sm_protocol \in BOOLEAN /\ fault \in BOOLEAN
    /\ instances \subseteq Threads
    /\ provider \in [Services -> Threads \cup {Host, Nobody}]
    /\ o2sm_incoming \in Seq(Incoming) /\ arriving \in Seq(Incoming)
    /\ pc \in [Threads -> {"none", "new", "idle", "sort", "timed", "now", "dead", "done"}]
    /\ {outgoing, unsorted, schedule, msgs, handled} \subseteq [Threads -> Seq(Message)]
    /\ polled \in [Threads -> -1 .. MaxTime]
    /\ global_now \in -1 .. MaxTime /\ sent \in 0 .. MaxSent
    /\ freed \subseteq Message

\* A thread that has not finished keeps its O2sm_info, however the O2 thread's
\* polls and the messages of the threads interleave, and a service never leads
\* to an O2sm_info that was deleted.
InstanceAlive ==
    /\ \A k \in Threads : pc[k] \notin {"none", "dead", "done"} => k \in instances
    /\ \A s \in Services : provider[s] \in Threads => provider[s] \in instances

Places(k) == <<Range(outgoing[k]), Range(unsorted[k]), Range(schedule[k]),
               Range(msgs[k]), Range(handled[k])>>

\* A message to a thread is in exactly one place: none is lost between the grab, the
\* two lists and the handlers, none is handled twice or by another thread, and none is
\* freed that a list still holds.
MessageInOnePlace ==
    /\ \A k, l \in Threads : \A i, j \in 1 .. 5 :
          <<k, i>> # <<l, j>> => Places(k)[i] \cap Places(l)[j] = {}
    /\ \A k \in Threads, i \in 1 .. 5 : Places(k)[i] \cap freed = {}
    /\ 1 .. sent = {m.id : m \in freed \cup
                        UNION {Places(k)[i] : k \in Threads, i \in 1 .. 5}}

\* Each of the two streams of a thread is handled in the order in which it was
\* sent, although the shared list is LIFO; a message with a timestamp waits
\* behind the earlier ones even if its own time is smaller ("A timestamp out of
\* order will be considered to be at the time just after the previous").
StreamsInOrder ==
    \A k \in Threads : \A i, j \in DOMAIN handled[k] :
        (i < j /\ Timed(handled[k][i]) = Timed(handled[k][j]))
            => handled[k][i].id < handled[k][j].id

\* No message is handled after its thread's context was deleted.
NoFault == ~fault

\* Between a thread and O2, no message is lost, duplicated or freed while a list holds
\* it, each of the two streams of a thread keeps its order, a running thread keeps its
\* O2sm_info, and poll_outgoing dispatches nothing after o2sm_finish was called by the
\* handler of a timed message.
BridgeIntact == TypeOK /\ InstanceAlive /\ MessageInOnePlace /\ StreamsInOrder /\ NoFault

\* "After all O2SM threads call o2sm_finish() and their fin messages are
\* handled, there will be no more O2sm_info instances": as long as the O2 thread
\* polls, a thread that has finished loses its instance and its services.
FinishSeen == \A k \in Threads :
    <>[](pc[k] = "done" => k \notin instances /\ \A s \in Services : provider[s] # k)
=============================================================================
