--------------------------- MODULE SharedmemProofs ---------------------------
(***************************************************************************)
(* Proofs about the shared memory bridge, for any number of threads,       *)
(* services and messages: every message to a thread is in one place, each  *)
(* of the two streams of a thread is handled in the order in which it was  *)
(* sent, and a thread that runs keeps its O2sm_info (BridgeIntact).        *)
(***************************************************************************)
EXTENDS Sharedmem, TLAPS

-----------------------------------------------------------------------------
(* The inductive invariant.                                                *)

\* q is in the order of sending, or in the opposite order.
Ascending(q) == \A i, j \in 1 .. Len(q) : i < j => q[i].id < q[j].id
Descending(q) == \A i, j \in 1 .. Len(q) : i < j => q[j].id < q[i].id

\* Every message of the set P was sent before every message of Q.
Before(P, Q) == \A m \in P, n \in Q : m.id < n.id

\* The same for messages of the same stream.
StreamBefore(P, Q) == \A m \in P, n \in Q : Timed(m) = Timed(n) => m.id < n.id

\* Each stream of what a thread has handled is in the order of sending.
InStreams(q) == \A i, j \in 1 .. Len(q) :
                   (i < j /\ Timed(q[i]) = Timed(q[j])) => q[i].id < q[j].id

\* The messages of a thread that are not in its outgoing list; all of them.
Grabbed(k) == Range(unsorted[k]) \cup Range(schedule[k]) \cup Range(msgs[k])
                \cup Range(handled[k])
All(k) == Range(outgoing[k]) \cup Grabbed(k)

Everywhere == UNION {All(k) : k \in Threads}

\* What was grabbed is older than what was not, and what was sorted older than
\* what was not; each stream waits in order, behind what was handled of it.
Line(k) ==
    /\ Descending(outgoing[k]) /\ Ascending(unsorted[k])
    /\ Ascending(schedule[k]) /\ Ascending(msgs[k])
    /\ Before(Grabbed(k), Range(outgoing[k]))
    /\ Before(Range(schedule[k]) \cup Range(msgs[k]) \cup Range(handled[k]),
              Range(unsorted[k]))
    /\ StreamBefore(Range(handled[k]), Range(schedule[k]) \cup Range(msgs[k]))
    /\ \A m \in Range(schedule[k]) : Timed(m)
    /\ \A m \in Range(msgs[k]) : ~Timed(m)
    /\ InStreams(handled[k])
    /\ pc[k] # "sort" => unsorted[k] = <<>>

\* No two threads have the same message, none has a freed one, and all messages
\* that were sent are somewhere.
Apart ==
    /\ \A k, l \in Threads : k # l => All(k) \cap All(l) = {}
    /\ \A k \in Threads : All(k) \cap freed = {}
    /\ 1 .. sent = {m.id : m \in freed \cup Everywhere}

\* Only a thread that has called o2sm_finish has a fin message on its way.
FinIsLast ==
    \A m \in Range(o2sm_incoming) \cup Range(arriving) :
        m.kind = "fin" => pc[m.from] \in {"dead", "done"}

\* Everything that TypeOK and the properties need.
IInv == /\ TypeOK /\ InstanceAlive /\ FinIsLast /\ Apart
        /\ \A k \in Threads : Line(k)
-----------------------------------------------------------------------------
(* Sequences of messages.                                                  *)

\* A sequence is the set of its elements in some order.
LEMMA RangeSeq ==
    ASSUME NEW S, NEW q \in Seq(S)
    PROVE  /\ Range(q) = {q[i] : i \in 1 .. Len(q)} /\ Range(q) \subseteq S
           /\ \A i \in 1 .. Len(q) : q[i] \in Range(q)
           /\ \A m \in Range(q) : \E i \in 1 .. Len(q) : m = q[i]
  BY DEF Range

\* Nothing is in the empty list.
LEMMA RangeEmpty == Range(<<>>) = {}
  BY DEF Range

\* append_to_schedule and the like add one message at the end.
LEMMA AppendSeq ==
    ASSUME NEW S, NEW q \in Seq(S), NEW m \in S
    PROVE  /\ Append(q, m) \in Seq(S) /\ Range(Append(q, m)) = Range(q) \cup {m}
           /\ Len(Append(q, m)) = Len(q) + 1
           /\ \A i \in 1 .. Len(q) : Append(q, m)[i] = q[i]
           /\ Append(q, m)[Len(q) + 1] = m
<1>1. /\ Append(q, m) \in Seq(S) /\ Len(Append(q, m)) = Len(q) + 1
      /\ \A i \in 1 .. Len(q) : Append(q, m)[i] = q[i]
      /\ Append(q, m)[Len(q) + 1] = m
  OBVIOUS
<1>a. Range(Append(q, m)) = {Append(q, m)[i] : i \in 1 .. Len(Append(q, m))}
  BY <1>1, RangeSeq
<1>b. \A i \in 1 .. Len(q) : q[i] \in Range(q)
  BY RangeSeq
<1>2. Range(Append(q, m)) \subseteq Range(q) \cup {m}
  <2>1. SUFFICES ASSUME NEW i \in 1 .. Len(Append(q, m))
                 PROVE  Append(q, m)[i] \in Range(q) \cup {m}
    BY <1>a
  <2>2. CASE i \in 1 .. Len(q)
    BY <1>1, <1>b, <2>2
  <2>3. CASE i = Len(q) + 1
    BY <1>1, <2>3
  <2>4. QED
    BY <1>1, <2>2, <2>3
<1>3. Range(q) \subseteq Range(Append(q, m))
  <2>1. SUFFICES ASSUME NEW i \in 1 .. Len(q)
                 PROVE  q[i] \in Range(Append(q, m))
    BY RangeSeq
  <2>2. i \in 1 .. Len(Append(q, m)) /\ Append(q, m)[i] = q[i]
    BY <1>1
  <2>3. QED
    BY <1>a, <2>2
<1>4. m \in Range(Append(q, m))
  <2>1. Len(q) + 1 \in 1 .. Len(Append(q, m))
    BY <1>1
  <2>2. QED
    BY <1>1, <1>a, <2>1
<1>5. QED
  BY <1>1, <1>2, <1>3, <1>4

\* push puts a message in front.
LEMMA PushSeq ==
    ASSUME NEW S, NEW q \in Seq(S), NEW m \in S
    PROVE  /\ push(q, m) \in Seq(S) /\ Range(push(q, m)) = Range(q) \cup {m}
           /\ Len(push(q, m)) = Len(q) + 1
           /\ \A i \in 1 .. Len(q) : push(q, m)[i + 1] = q[i]
           /\ push(q, m)[1] = m
<1>1. /\ push(q, m) \in Seq(S) /\ Len(push(q, m)) = Len(q) + 1
      /\ \A i \in 1 .. Len(q) : push(q, m)[i + 1] = q[i]
      /\ push(q, m)[1] = m
  BY DEF push
<1>a. Range(push(q, m)) = {push(q, m)[i] : i \in 1 .. Len(push(q, m))}
  BY <1>1, RangeSeq
<1>b. \A i \in 1 .. Len(q) : q[i] \in Range(q)
  BY RangeSeq
<1>2. Range(push(q, m)) \subseteq Range(q) \cup {m}
  <2>1. SUFFICES ASSUME NEW i \in 1 .. Len(push(q, m))
                 PROVE  push(q, m)[i] \in Range(q) \cup {m}
    BY <1>a
  <2>2. CASE i = 1
    BY <1>1, <2>2
  <2>3. CASE i # 1
    <3>1. i - 1 \in 1 .. Len(q) /\ i = (i - 1) + 1
      BY <1>1, <2>3
    <3>2. push(q, m)[i] = q[i - 1]
      BY <1>1, <3>1
    <3>3. QED
      BY <1>b, <3>1, <3>2
  <2>4. QED
    BY <2>2, <2>3
<1>3. Range(q) \subseteq Range(push(q, m))
  <2>1. SUFFICES ASSUME NEW i \in 1 .. Len(q)
                 PROVE  q[i] \in Range(push(q, m))
    BY RangeSeq
  <2>2. i + 1 \in 1 .. Len(push(q, m)) /\ push(q, m)[i + 1] = q[i]
    BY <1>1
  <2>3. QED
    BY <1>a, <2>2
<1>4. m \in Range(push(q, m))
  <2>1. 1 \in 1 .. Len(push(q, m))
    BY <1>1
  <2>2. QED
    BY <1>1, <1>a, <2>1
<1>5. QED
  BY <1>1, <1>2, <1>3, <1>4

\* A list is its first message and the rest.
LEMMA TailSeq ==
    ASSUME NEW S, NEW q \in Seq(S), q # <<>>
    PROVE  /\ Tail(q) \in Seq(S) /\ Head(q) \in S /\ Head(q) = q[1] /\ Len(q) > 0
           /\ Range(q) = {Head(q)} \cup Range(Tail(q))
           /\ Len(Tail(q)) = Len(q) - 1
           /\ \A i \in 1 .. Len(Tail(q)) : Tail(q)[i] = q[i + 1]
<1>1. /\ Tail(q) \in Seq(S) /\ Head(q) \in S /\ Head(q) = q[1]
      /\ Len(Tail(q)) = Len(q) - 1 /\ Len(q) > 0
      /\ \A i \in 1 .. Len(Tail(q)) : Tail(q)[i] = q[i + 1]
  OBVIOUS
<1>a. Range(Tail(q)) = {Tail(q)[i] : i \in 1 .. Len(Tail(q))}
  BY <1>1, RangeSeq
<1>b. \A i \in 1 .. Len(q) : q[i] \in Range(q)
  BY RangeSeq
<1>2. {Head(q)} \cup Range(Tail(q)) \subseteq Range(q)
  <2>1. Head(q) \in Range(q)
    BY <1>1, <1>b
  <2>2. ASSUME NEW i \in 1 .. Len(Tail(q))
        PROVE  Tail(q)[i] \in Range(q)
    <3>1. i + 1 \in 1 .. Len(q)
      BY <1>1
    <3>2. QED
      BY <1>1, <1>b, <3>1
  <2>3. QED
    BY <1>a, <2>1, <2>2
<1>3. Range(q) \subseteq {Head(q)} \cup Range(Tail(q))
  <2>1. SUFFICES ASSUME NEW i \in 1 .. Len(q)
                 PROVE  q[i] \in {Head(q)} \cup Range(Tail(q))
    BY RangeSeq
  <2>2. CASE i = 1
    BY <1>1, <2>2
  <2>3. CASE i # 1
    <3>1. i - 1 \in 1 .. Len(Tail(q)) /\ i = (i - 1) + 1
      BY <1>1, <2>3
    <3>2. Tail(q)[i - 1] = q[i]
      BY <1>1, <3>1
    <3>3. QED
      BY <1>a, <3>1, <3>2
  <2>4. QED
    BY <2>2, <2>3
<1>4. QED
  BY <1>1, <1>2, <1>3

\* get_messages_reversed keeps the messages.
LEMMA ReverseSeq ==
    ASSUME NEW S, NEW q \in Seq(S)
    PROVE  /\ get_messages_reversed(q) \in Seq(S)
           /\ Range(get_messages_reversed(q)) = Range(q)
           /\ Len(get_messages_reversed(q)) = Len(q)
           /\ \A i \in 1 .. Len(q) : get_messages_reversed(q)[i] = q[Len(q) - i + 1]
<1> DEFINE r == get_messages_reversed(q)
<1>1. /\ r \in Seq(S) /\ Len(r) = Len(q)
      /\ \A i \in 1 .. Len(q) : r[i] = q[Len(q) - i + 1]
  BY DEF get_messages_reversed, Reverse
<1>2. ASSUME NEW i \in 1 .. Len(q)
      PROVE  r[i] \in Range(q) /\ q[i] \in Range(r)
  <2>1. Len(q) - i + 1 \in 1 .. Len(q) /\ Len(q) - (Len(q) - i + 1) + 1 = i
    OBVIOUS
  <2>2. r[i] = q[Len(q) - i + 1] /\ r[Len(q) - i + 1] = q[i]
    BY <1>1, <2>1
  <2>3. q[Len(q) - i + 1] \in Range(q)
    BY <2>1, RangeSeq
  <2> HIDE DEF r
  <2>4. r[Len(q) - i + 1] \in Range(r)
    BY <1>1, <2>1, RangeSeq
  <2>5. QED
    BY <2>2, <2>3, <2>4
<1> HIDE DEF r
<1>a. Range(r) = {r[i] : i \in 1 .. Len(q)}
  BY <1>1, RangeSeq
<1>b. Range(q) = {q[i] : i \in 1 .. Len(q)}
  BY RangeSeq
<1>3. Range(r) = Range(q)
  BY <1>a, <1>b, <1>2
<1>4. QED
  BY <1>1, <1>3 DEF r

\* A message sent later goes to the end of a list that is in the order of sending.
LEMMA AscendingAppend ==
    ASSUME NEW q \in Seq(Message), NEW m \in Message, Ascending(q), Before(Range(q), {m})
    PROVE  Ascending(Append(q, m))
<1>1. SUFFICES ASSUME NEW i \in 1 .. Len(q) + 1, NEW j \in 1 .. Len(q) + 1, i < j
               PROVE  Append(q, m)[i].id < Append(q, m)[j].id
  BY AppendSeq DEF Ascending
<1>2. i \in 1 .. Len(q) /\ Append(q, m)[i] = q[i] /\ q[i] \in Range(q)
  BY <1>1, AppendSeq, RangeSeq
<1>3. CASE j \in 1 .. Len(q)
  BY <1>1, <1>2, <1>3, AppendSeq DEF Ascending
<1>4. CASE j = Len(q) + 1
  BY <1>2, <1>4, AppendSeq DEF Before
<1>5. QED
  BY <1>3, <1>4

\* The rest of a list in the order of sending was sent after its first message.
LEMMA AscendingTail ==
    ASSUME NEW q \in Seq(Message), q # <<>>, Ascending(q)
    PROVE  Ascending(Tail(q)) /\ Before({Head(q)}, Range(Tail(q)))
<1>1. ASSUME NEW i \in 1 .. Len(Tail(q))
      PROVE  /\ Tail(q)[i] = q[i + 1] /\ i + 1 \in 1 .. Len(q) /\ 1 < i + 1
             /\ 1 \in 1 .. Len(q)
  BY TailSeq
<1>2. Ascending(Tail(q))
  BY <1>1 DEF Ascending
<1>3. \A i \in 1 .. Len(Tail(q)) : Head(q).id < Tail(q)[i].id
  BY <1>1, TailSeq DEF Ascending
<1>4. Tail(q) \in Seq(Message)
  BY TailSeq
<1>5. Range(Tail(q)) = {Tail(q)[i] : i \in 1 .. Len(Tail(q))}
  BY <1>4, RangeSeq
<1>6. QED
  BY <1>2, <1>3, <1>5 DEF Before

\* A message sent later goes to the front of a list that is newest first.
LEMMA DescendingPush ==
    ASSUME NEW q \in Seq(Message), NEW m \in Message, Descending(q), Before(Range(q), {m})
    PROVE  Descending(push(q, m))
<1>a. /\ Len(push(q, m)) = Len(q) + 1 /\ push(q, m)[1] = m
      /\ \A i \in 1 .. Len(q) : push(q, m)[i + 1] = q[i]
  BY PushSeq
<1>1. SUFFICES ASSUME NEW i \in 1 .. Len(q) + 1, NEW j \in 1 .. Len(q) + 1, i < j
               PROVE  push(q, m)[j].id < push(q, m)[i].id
  BY <1>a DEF Descending
<1>2. /\ j - 1 \in 1 .. Len(q) /\ j = (j - 1) + 1
      /\ push(q, m)[j] = q[j - 1] /\ q[j - 1] \in Range(q)
  <2>1. j - 1 \in 1 .. Len(q) /\ j = (j - 1) + 1
    BY <1>1
  <2>2. QED
    BY <1>a, <2>1, RangeSeq
<1>3. CASE i = 1
  BY <1>a, <1>2, <1>3 DEF Before
<1>4. CASE i # 1
  <2>1. i - 1 \in 1 .. Len(q) /\ i = (i - 1) + 1 /\ i - 1 < j - 1
    BY <1>1, <1>4
  <2>2. push(q, m)[i] = q[i - 1]
    BY <1>a, <2>1
  <2>3. QED
    BY <1>2, <2>1, <2>2 DEF Descending
<1>5. QED
  BY <1>3, <1>4

\* Reversing restores the order of sending.
LEMMA ReverseAscending ==
    ASSUME NEW q \in Seq(Message), Descending(q)
    PROVE  Ascending(get_messages_reversed(q))
<1>1. ASSUME NEW i \in 1 .. Len(q), NEW j \in 1 .. Len(q), i < j
      PROVE  get_messages_reversed(q)[i].id < get_messages_reversed(q)[j].id
  <2>1. /\ Len(q) - i + 1 \in 1 .. Len(q) /\ Len(q) - j + 1 \in 1 .. Len(q)
        /\ Len(q) - j + 1 < Len(q) - i + 1
    BY <1>1
  <2>2. QED
    BY <2>1, ReverseSeq DEF Descending
<1>2. QED
  BY <1>1, ReverseSeq DEF Ascending

\* A message is handled after those of its stream that were sent before it.
LEMMA InStreamsAppend ==
    ASSUME NEW q \in Seq(Message), NEW m \in Message, InStreams(q),
           StreamBefore(Range(q), {m})
    PROVE  InStreams(Append(q, m))
<1>1. SUFFICES ASSUME NEW i \in 1 .. Len(q) + 1, NEW j \in 1 .. Len(q) + 1, i < j,
                      Timed(Append(q, m)[i]) = Timed(Append(q, m)[j])
               PROVE  Append(q, m)[i].id < Append(q, m)[j].id
  BY AppendSeq DEF InStreams
<1>2. i \in 1 .. Len(q) /\ Append(q, m)[i] = q[i] /\ q[i] \in Range(q)
  BY <1>1, AppendSeq, RangeSeq
<1>3. CASE j \in 1 .. Len(q)
  BY <1>1, <1>2, <1>3, AppendSeq DEF InStreams
<1>4. CASE j = Len(q) + 1
  BY <1>1, <1>2, <1>4, AppendSeq DEF StreamBefore
<1>5. QED
  BY <1>3, <1>4

-----------------------------------------------------------------------------
(* Steps that leave all messages to threads where they are.                *)

\* The lists of the threads, by themselves.
LEMMA Lists ==
    ASSUME TypeOK, NEW k \in Threads
    PROVE  /\ outgoing[k] \in Seq(Message) /\ unsorted[k] \in Seq(Message)
           /\ schedule[k] \in Seq(Message) /\ msgs[k] \in Seq(Message)
           /\ handled[k] \in Seq(Message)
  BY DEF TypeOK

\* Messages to O2 are what the threads make.
LEMMA IncomingIs ==
    ASSUME NEW k \in Threads
    PROVE  /\ [kind |-> "fin", from |-> k] \in Incoming
           /\ [kind |-> "reply", from |-> k] \in Incoming
           /\ \A s \in Services : [kind |-> "sv", from |-> k, service |-> s] \in Incoming
  BY DEF Incoming

\* A message to O2 has a sender, and one about a service names it.
LEMMA IncomingHas ==
    ASSUME NEW m \in Incoming
    PROVE  /\ m.kind \in {"sv", "fin", "reply"} /\ m.from \in Threads
           /\ m.kind = "sv" => m.service \in Services
  BY DEF Incoming

\* Where no list changes, the order within the lists stays.
LEMMA LineSame ==
    ASSUME NEW k \in Threads, Line(k),
           outgoing'[k] = outgoing[k], unsorted'[k] = unsorted[k],
           schedule'[k] = schedule[k], msgs'[k] = msgs[k], handled'[k] = handled[k],
           pc'[k] = pc[k] \/ pc'[k] = "sort" \/ unsorted[k] = <<>>
    PROVE  Line(k)'
<1>1. Grabbed(k)' = Grabbed(k)
  BY DEF Grabbed
<1>2. QED
  BY <1>1 DEF Line

\* Where messages only move within the lists of their thread, they stay apart.
LEMMA ApartSame ==
    ASSUME Apart, sent' = sent, freed' = freed, \A k \in Threads : All(k)' = All(k)
    PROVE  Apart'
<1>1. Everywhere' = Everywhere
  BY DEF Everywhere
<1>2. QED
  BY <1>1 DEF Apart

\* The same when no message moves at all.
LEMMA Quiet ==
    ASSUME IInv, UNCHANGED <<outgoing, unsorted, schedule, msgs, handled, freed, sent>>,
           \A k \in Threads : pc'[k] = pc[k] \/ pc'[k] = "sort" \/ unsorted[k] = <<>>
    PROVE  Apart' /\ \A k \in Threads : Line(k)'
<1>1. ASSUME NEW k \in Threads
      PROVE  Line(k)' /\ All(k)' = All(k)
  BY <1>1, LineSame DEF IInv, All, Grabbed
<1>2. QED
  BY <1>1, ApartSame DEF IInv

\* o2_shmem_initialize makes the protocol.
LEMMA StepInitialize ==
    ASSUME IInv, o2_shmem_initialize
    PROVE  IInv'
<1>1. TypeOK' /\ InstanceAlive' /\ FinIsLast'
  BY DEF IInv, TypeOK, InstanceAlive, FinIsLast, o2_shmem_initialize, smSide
<1>2. Apart' /\ \A k \in Threads : Line(k)'
  BY Quiet DEF o2_shmem_initialize, smSide
<1>3. QED
  BY <1>1, <1>2 DEF IInv

\* o2_shmem_inst_new gives a thread its O2sm_info before it runs.
LEMMA StepInstNew ==
    ASSUME IInv, NEW k \in Threads, o2_shmem_inst_new(k)
    PROVE  IInv'
<1>1. TypeOK'
  BY DEF IInv, TypeOK, o2_shmem_inst_new
<1>2. InstanceAlive' /\ FinIsLast'
  <2>1. /\ instances' = instances \cup {k} /\ pc' = [pc EXCEPT ![k] = "new"]
        /\ provider' = provider /\ arriving' = arriving /\ o2sm_incoming' = o2sm_incoming
        /\ DOMAIN pc = Threads /\ pc[k] = "none"
    BY DEF IInv, TypeOK, o2_shmem_inst_new
  <2>2. InstanceAlive'
    BY <2>1 DEF IInv, InstanceAlive
  <2>3. FinIsLast'
    BY <2>1, IncomingHas DEF IInv, TypeOK, FinIsLast
  <2> QED  BY <2>2, <2>3
<1>3. Apart' /\ \A l \in Threads : Line(l)'
  <2>1. unsorted[k] = <<>>
    BY DEF IInv, Line, o2_shmem_inst_new
  <2>2. \A l \in Threads : pc'[l] = pc[l] \/ unsorted[l] = <<>>
    BY <2>1 DEF IInv, TypeOK, o2_shmem_inst_new
  <2>3. QED
    BY <2>2, Quiet DEF o2_shmem_inst_new
<1>4. QED
  BY <1>1, <1>2, <1>3 DEF IInv

\* bridge_poll moves the messages to O2 from one list to the other.
LEMMA StepBridgePoll ==
    ASSUME IInv, bridge_poll
    PROVE  IInv'
<1>1. /\ arriving' \in Seq(Incoming) /\ Range(arriving') = Range(o2sm_incoming)
      /\ o2sm_incoming' = <<>> /\ Range(o2sm_incoming') = {}
  BY ReverseSeq, RangeEmpty DEF IInv, TypeOK, bridge_poll
<1>2. TypeOK' /\ InstanceAlive'
  BY <1>1 DEF IInv, TypeOK, InstanceAlive, bridge_poll, smSide
<1>3. FinIsLast'
  BY <1>1 DEF IInv, FinIsLast, bridge_poll, smSide
<1>4. Apart' /\ \A k \in Threads : Line(k)'
  BY Quiet DEF bridge_poll, smSide
<1>5. QED
  BY <1>2, <1>3, <1>4 DEF IInv

\* o2_finish deletes the protocol.
LEMMA StepFinish ==
    ASSUME IInv, o2_shmem_finish
    PROVE  IInv'
<1>1. o2sm_incoming' = <<>> /\ Range(o2sm_incoming') = {} /\ arriving' = arriving
  BY RangeEmpty DEF o2_shmem_finish
<1>2. TypeOK' /\ InstanceAlive'
  BY <1>1 DEF IInv, TypeOK, InstanceAlive, o2_shmem_finish, smSide
<1>3. FinIsLast'
  BY <1>1 DEF IInv, FinIsLast, o2_shmem_finish, smSide
<1>4. Apart' /\ \A k \in Threads : Line(k)'
  BY Quiet DEF o2_shmem_finish, smSide
<1>5. QED
  BY <1>2, <1>3, <1>4 DEF IInv

\* Time passes.
LEMMA StepTime ==
    ASSUME IInv, o2sm_time_get
    PROVE  IInv'
<1>1. TypeOK'
  BY SharedmemAssumption DEF IInv, TypeOK, o2sm_time_get, o2Side, smSide
<1>2. InstanceAlive' /\ FinIsLast'
  BY DEF IInv, InstanceAlive, FinIsLast, o2sm_time_get, o2Side, smSide
<1>3. Apart' /\ \A k \in Threads : Line(k)'
  BY Quiet DEF o2sm_time_get, o2Side, smSide
<1>4. QED
  BY <1>1, <1>2, <1>3 DEF IInv

\* The messages to O2 after one more was pushed.
LEMMA PushIncoming ==
    ASSUME NEW q \in Seq(Incoming), NEW m \in Incoming
    PROVE  push(q, m) \in Seq(Incoming) /\ Range(push(q, m)) = Range(q) \cup {m}
  BY PushSeq

\* A thread sends a message to O2: only o2sm_finish sends fin.
LEMMA Sends ==
    ASSUME IInv, NEW m \in Incoming, o2sm_incoming' = push(o2sm_incoming, m),
           arriving' = arriving,
           \A k \in Threads : pc[k] \in {"dead", "done"} => pc'[k] \in {"dead", "done"},
           m.kind = "fin" => pc'[m.from] \in {"dead", "done"}
    PROVE  o2sm_incoming' \in Seq(Incoming) /\ FinIsLast'
<1>1. /\ o2sm_incoming' \in Seq(Incoming)
      /\ Range(o2sm_incoming') = Range(o2sm_incoming) \cup {m}
  <2>1. o2sm_incoming \in Seq(Incoming)
    BY DEF IInv, TypeOK
  <2>2. /\ push(o2sm_incoming, m) \in Seq(Incoming)
        /\ Range(push(o2sm_incoming, m)) = Range(o2sm_incoming) \cup {m}
    BY <2>1, PushIncoming
  <2>3. QED
    BY <2>2
<1>2. Range(o2sm_incoming) \subseteq Incoming /\ Range(arriving) \subseteq Incoming
  BY RangeSeq DEF IInv, TypeOK
<1>3. \A n \in Range(o2sm_incoming) \cup Range(arriving) :
         n.kind = "fin" => pc[n.from] \in {"dead", "done"} /\ n.from \in Threads
  BY <1>2, IncomingHas DEF IInv, FinIsLast
<1>4. QED
  BY <1>1, <1>3 DEF FinIsLast

\* o2sm_service_new tells O2 of a service.
LEMMA StepServiceNew ==
    ASSUME IInv, NEW k \in Threads, NEW s \in Services, o2sm_service_new(k, s)
    PROVE  IInv'
<1> USE DEF o2sm_service_new, o2sm_message_send, o2Side, smSide
<1>1. o2sm_incoming' \in Seq(Incoming) /\ FinIsLast'
  <2>1. [kind |-> "sv", from |-> k, service |-> s] \in Incoming
    BY IncomingIs
  <2>2. QED
    BY <2>1, Sends
<1>2. TypeOK' /\ InstanceAlive'
  BY <1>1 DEF IInv, TypeOK, InstanceAlive
<1>3. Apart' /\ \A l \in Threads : Line(l)'
  BY Quiet
<1>4. QED
  BY <1>1, <1>2, <1>3 DEF IInv

\* o2sm_initialize, and the ends of the loops in poll_outgoing.
LEMMA StepPc ==
    ASSUME IInv, NEW k \in Threads,
           o2sm_initialize(k) \/ poll_timed_done(k) \/ poll_returns(k)
    PROVE  IInv'
<1> USE DEF o2sm_initialize, poll_timed_done, poll_returns, o2Side
<1>1. TypeOK'
  <2>1. \E w \in {"idle", "now", "done"} : pc' = [pc EXCEPT ![k] = w]
    OBVIOUS
  <2>2. pc' \in [Threads -> {"none", "new", "idle", "sort", "timed", "now", "dead", "done"}]
    BY <2>1 DEF IInv, TypeOK
  <2>3. UNCHANGED <<o2sm_protocol, instances, provider, outgoing, o2sm_incoming, arriving,
                    unsorted, schedule, msgs, polled, global_now, sent, handled, freed,
                    fault>>
    OBVIOUS
  <2>4. QED
    BY <2>2, <2>3 DEF IInv, TypeOK
<1>2. InstanceAlive'
  BY DEF IInv, TypeOK, InstanceAlive
<1>3. FinIsLast'
  <2>1. Range(o2sm_incoming) \subseteq Incoming /\ Range(arriving) \subseteq Incoming
    BY RangeSeq DEF IInv, TypeOK
  <2>2. \A l \in Threads : pc[l] \in {"dead", "done"} => pc'[l] \in {"dead", "done"}
    BY DEF IInv, TypeOK
  <2>3. QED
    BY <2>1, <2>2, IncomingHas DEF IInv, FinIsLast
<1>4. Apart' /\ \A l \in Threads : Line(l)'
  <2>1. unsorted[k] = <<>>
    BY DEF IInv, Line
  <2>2. \A l \in Threads : pc'[l] = pc[l] \/ unsorted[l] = <<>>
    BY <2>1 DEF IInv, TypeOK
  <2>3. QED
    BY <2>2, Quiet
<1>5. QED
  BY <1>1, <1>2, <1>3, <1>4 DEF IInv

\* o2sm_finish outside of o2sm_poll.
LEMMA StepThreadFinishes ==
    ASSUME IInv, NEW k \in Threads, thread_finishes(k)
    PROVE  IInv'
<1> USE DEF thread_finishes, o2Side
<1>1. o2sm_incoming' \in Seq(Incoming) /\ FinIsLast'
  <2>1. [kind |-> "fin", from |-> k] \in Incoming
    BY IncomingIs
  <2>2. \A l \in Threads : pc[l] \in {"dead", "done"} => pc'[l] \in {"dead", "done"}
    BY DEF IInv, TypeOK
  <2>3. pc'[k] = "done"
    BY DEF IInv, TypeOK
  <2>4. QED
    BY <2>1, <2>2, <2>3, Sends DEF o2sm_finish
<1>2. TypeOK'
  BY <1>1 DEF IInv, TypeOK
<1>3. InstanceAlive'
  BY DEF IInv, TypeOK, InstanceAlive
<1>4. Apart' /\ \A l \in Threads : Line(l)'
  <2>1. unsorted[k] = <<>>
    BY DEF IInv, Line
  <2>2. \A l \in Threads : pc'[l] = pc[l] \/ unsorted[l] = <<>>
    BY <2>1 DEF IInv, TypeOK
  <2>3. QED
    BY <2>2, Quiet
<1>5. QED
  BY <1>1, <1>2, <1>3, <1>4 DEF IInv

\* The sv message of a thread: only a thread that has an O2sm_info gets a service.
LEMMA StepNewService ==
    ASSUME IInv, bridge_poll_send, Head(arriving).kind = "sv"
    PROVE  IInv'
<1> DEFINE m == Head(arriving)
<1>1. /\ m \in Incoming /\ arriving' \in Seq(Incoming)
      /\ Range(arriving') \subseteq Range(arriving)
  BY TailSeq DEF IInv, TypeOK, bridge_poll_send
<1>2. o2sm_sv_handler(m)
  BY DEF bridge_poll_send
<1>3. TypeOK'
  <2>1. m.from \in Threads /\ m.service \in Services
    BY <1>1, IncomingHas
  <2>2. provider' \in [Services -> Threads \cup {Host, Nobody}]
    BY <1>2, <2>1 DEF IInv, TypeOK, o2sm_sv_handler
  <2>3. QED
    BY <1>1, <1>2, <2>2 DEF IInv, TypeOK, bridge_poll_send, o2sm_sv_handler, smSide
<1>4. InstanceAlive'
  BY <1>2 DEF IInv, TypeOK, InstanceAlive, bridge_poll_send, o2sm_sv_handler, smSide
<1>5. FinIsLast'
  BY <1>1 DEF IInv, FinIsLast, bridge_poll_send, smSide
<1>6. Apart' /\ \A k \in Threads : Line(k)'
  BY <1>2, Quiet DEF bridge_poll_send, o2sm_sv_handler, smSide
<1>7. QED
  BY <1>3, <1>4, <1>5, <1>6 DEF IInv

\* A reply is delivered.
LEMMA StepReply ==
    ASSUME IInv, bridge_poll_send, Head(arriving).kind = "reply"
    PROVE  IInv'
<1>1. /\ arriving' \in Seq(Incoming) /\ Range(arriving') \subseteq Range(arriving)
      /\ UNCHANGED <<instances, provider, outgoing, freed, o2sm_protocol, smSide,
                     o2sm_incoming, global_now, sent>>
  BY TailSeq DEF IInv, TypeOK, bridge_poll_send
<1>2. TypeOK' /\ InstanceAlive' /\ FinIsLast'
  BY <1>1 DEF IInv, TypeOK, InstanceAlive, FinIsLast, smSide
<1>3. Apart' /\ \A k \in Threads : Line(k)'
  BY <1>1, Quiet DEF smSide
<1>4. QED
  BY <1>2, <1>3 DEF IInv

-----------------------------------------------------------------------------
(* Steps that move messages to threads.                                    *)

\* Messages that are freed come from one thread, which no longer has them.
LEMMA Freeing ==
    ASSUME Apart, NEW k \in Threads, NEW X, freed' = freed \cup X, sent' = sent,
           All(k) = All(k)' \cup X, All(k)' \cap X = {},
           \A l \in Threads \ {k} : All(l)' = All(l)
    PROVE  Apart'
<1>1. \A l \in Threads : All(l) \subseteq All(l)' \cup X /\ All(l)' \subseteq All(l)
  OBVIOUS
<1>2. \A l \in Threads : All(l)' \subseteq All(l) /\ (l # k => All(l) \cap X = {})
  BY DEF Apart
<1>3. freed' \cup Everywhere' = freed \cup Everywhere
  <2>1. \A n : n \in Everywhere <=> \E l \in Threads : n \in All(l)
    BY DEF Everywhere
  <2>2. \A n : n \in Everywhere' <=> \E l \in Threads : n \in All(l)'
    BY DEF Everywhere
  <2>3. X \subseteq Everywhere
    BY <2>1
  <2>4. Everywhere' \subseteq Everywhere
    BY <1>1, <2>1, <2>2
  <2>5. Everywhere \subseteq Everywhere' \cup X
    BY <1>1, <2>1, <2>2
  <2>6. QED
    BY <2>3, <2>4, <2>5
<1>4. \A l, o \in Threads : l # o => All(l)' \cap All(o)' = {}
  BY <1>2 DEF Apart
<1>5. \A l \in Threads : All(l)' \cap freed' = {}
  BY <1>2 DEF Apart
<1>6. QED
  BY <1>3, <1>4, <1>5 DEF Apart

\* What was sent earlier is another message.
LEMMA BeforeApart ==
    ASSUME NEW P \in SUBSET Message, NEW Q \in SUBSET Message, Before(P, Q)
    PROVE  P \cap Q = {}
  BY DEF Before, Message

\* The fin message of a thread: its O2sm_info goes with its services and messages.
LEMMA StepFin ==
    ASSUME IInv, bridge_poll_send, Head(arriving).kind = "fin"
    PROVE  IInv'
<1> DEFINE m == Head(arriving)
<1>1. /\ m \in Incoming /\ arriving' \in Seq(Incoming) /\ m \in Range(arriving)
      /\ Range(arriving') \subseteq Range(arriving)
  BY TailSeq DEF IInv, TypeOK, bridge_poll_send
<1>2. PICK f \in Threads : f = m.from
  BY <1>1, IncomingHas
<1>a. pc[f] \in {"dead", "done"}
  BY <1>1, <1>2 DEF IInv, FinIsLast
<1>3. /\ o2sm_fin_handler(m)
      /\ UNCHANGED <<o2sm_protocol, smSide, o2sm_incoming, global_now, sent>>
  BY DEF bridge_poll_send
<1> HIDE DEF m
<1>4. CASE f \notin instances
  <2>1. UNCHANGED <<instances, provider, freed, outgoing>>
    BY <1>2, <1>3, <1>4 DEF o2sm_fin_handler
  <2>2. TypeOK' /\ InstanceAlive' /\ FinIsLast'
    BY <1>1, <1>3, <2>1 DEF IInv, TypeOK, InstanceAlive, FinIsLast, smSide
  <2>3. Apart' /\ \A k \in Threads : Line(k)'
    BY <1>3, <2>1, Quiet DEF smSide
  <2>4. QED
    BY <2>2, <2>3 DEF IInv
<1>5. CASE f \in instances
  <2>1. /\ instances' = instances \ {f} /\ provider' = remove_services(f)
        /\ freed' = freed \cup Range(outgoing[f])
        /\ outgoing' = [outgoing EXCEPT ![f] = <<>>]
    BY <1>2, <1>3, <1>5 DEF o2sm_fin_handler
  <2>2. Range(outgoing[f]) \subseteq Message
    BY <1>2, Lists, RangeSeq DEF IInv
  <2>3. provider' \in [Services -> Threads \cup {Host, Nobody}]
    BY <2>1 DEF IInv, TypeOK, remove_services
  <2>4. TypeOK'
    BY <1>1, <1>2, <1>3, <2>1, <2>2, <2>3 DEF IInv, TypeOK, smSide
  <2>5. \A s \in Services : provider'[s] \in Threads
                              => provider'[s] = provider[s] /\ provider[s] # f
    BY <2>1, SharedmemAssumption DEF IInv, TypeOK, remove_services
  <2>6. InstanceAlive'
    BY <1>a, <1>3, <2>1, <2>5 DEF IInv, InstanceAlive, smSide
  <2>7. FinIsLast'
    BY <1>1, <1>3 DEF IInv, FinIsLast, smSide
  <2>8. ASSUME NEW k \in Threads
        PROVE  /\ Grabbed(k)' = Grabbed(k)
               /\ k # f => outgoing'[k] = outgoing[k]
               /\ k = f => outgoing'[k] = <<>> /\ Range(outgoing'[k]) = {}
    BY <1>3, <2>1, RangeEmpty DEF IInv, TypeOK, smSide, Grabbed
  <2>9. ASSUME NEW k \in Threads
        PROVE  Line(k)'
    <3>1. CASE k # f
      BY <1>3, <2>8, <3>1, LineSame DEF IInv, smSide
    <3>2. CASE k = f
      <4>1. Descending(<<>>) /\ \A P : Before(P, {})
        BY DEF Descending, Before
      <4>2. QED
        BY <1>3, <2>8, <3>2, <4>1 DEF IInv, Line, smSide
    <3>3. QED
      BY <3>1, <3>2
  <2>10. Apart'
    <3>1. Grabbed(f) \subseteq Message
      BY <1>2, Lists, RangeSeq DEF IInv, Grabbed
    <3>2. Grabbed(f) \cap Range(outgoing[f]) = {}
      BY <1>2, <2>2, <3>1, BeforeApart DEF IInv, Line
    <3>3. All(f) = All(f)' \cup Range(outgoing[f]) /\ All(f)' \cap Range(outgoing[f]) = {}
      BY <1>2, <2>8, <3>2 DEF All
    <3>4. \A l \in Threads \ {f} : All(l)' = All(l)
      BY <2>8 DEF All
    <3>5. QED
      BY <1>2, <1>3, <2>1, <3>3, <3>4, Freeing DEF IInv
  <2>11. QED
    BY <2>4, <2>6, <2>7, <2>9, <2>10 DEF IInv
<1>6. QED
  BY <1>4, <1>5

\* Messages are numbered in the order in which they are sent.
LEMMA Numbered ==
    ASSUME IInv
    PROVE  /\ freed \subseteq Message /\ \A m \in freed : m.id <= sent
           /\ \A k \in Threads : All(k) \subseteq Message /\ Grabbed(k) \subseteq Message
           /\ \A k \in Threads : \A m \in All(k) : m.id <= sent
<1>1. \A m \in freed \cup Everywhere : m.id \in 1 .. sent
  BY DEF IInv, Apart
<1>2. \A k \in Threads : All(k) \subseteq Message /\ Grabbed(k) \subseteq Message
  BY Lists, RangeSeq DEF IInv, All, Grabbed
<1>3. \A k \in Threads : All(k) \subseteq Everywhere
  BY DEF Everywhere
<1>4. freed \subseteq Message
  BY DEF IInv, TypeOK
<1>5. QED
  BY <1>1, <1>2, <1>3, <1>4

\* The list of a thread after one more message was pushed.
LEMMA PushMessage ==
    ASSUME NEW q \in Seq(Message), NEW m \in Message
    PROVE  push(q, m) \in Seq(Message) /\ Range(push(q, m)) = Range(q) \cup {m}
  BY PushSeq

\* O2sm_info::send numbers the message and puts it in front of the list.
LEMMA StepSend ==
    ASSUME IInv, NEW s \in Services, NEW ts \in Times, O2sm_info_send(s, ts)
    PROVE  IInv'
<1> DEFINE m == [id |-> sent + 1, ts |-> ts]
<1>1. PICK k \in Threads : k = provider[s]
  BY DEF IInv, TypeOK, O2sm_info_send
<1>2. /\ outgoing' = [outgoing EXCEPT ![k] = push(@, m)]
      /\ sent < MaxSent /\ sent' = sent + 1
      /\ UNCHANGED <<o2Side, smSide, o2sm_incoming, global_now, freed>>
  BY <1>1 DEF O2sm_info_send
<1>3. m \in Message /\ m.id = sent + 1 /\ sent \in Nat
  BY <1>2, SharedmemAssumption DEF IInv, TypeOK, Message
<1> HIDE DEF m
<1>4. /\ push(outgoing[k], m) \in Seq(Message)
      /\ Range(push(outgoing[k], m)) = Range(outgoing[k]) \cup {m}
  <2>1. outgoing[k] \in Seq(Message)
    BY Lists DEF IInv
  <2>2. QED
    BY <1>3, <2>1, PushMessage
<1>5. outgoing'[k] = push(outgoing[k], m) /\ \A l \in Threads \ {k} : outgoing'[l] = outgoing[l]
  BY <1>2 DEF IInv, TypeOK
<1>6. TypeOK'
  BY <1>2, <1>3, <1>4, SharedmemAssumption DEF IInv, TypeOK, o2Side, smSide
<1>7. InstanceAlive' /\ FinIsLast'
  BY <1>2 DEF IInv, InstanceAlive, FinIsLast, o2Side, smSide
<1>8. \A l \in Threads : \A n \in All(l) : n \in Message /\ n.id < m.id
  BY <1>3, Numbered DEF Message
<1>9. \A l \in Threads : Grabbed(l)' = Grabbed(l)
  BY <1>2 DEF Grabbed, smSide
<1>10. ASSUME NEW l \in Threads
       PROVE  Line(l)'
  <2>1. CASE l # k
    BY <1>2, <1>5, <2>1, LineSame DEF IInv, smSide
  <2>2. CASE l = k
    <3>1. Descending(push(outgoing[k], m))
      <4>1. outgoing[k] \in Seq(Message) /\ Descending(outgoing[k])
        BY Lists DEF IInv, Line
      <4>2. Before(Range(outgoing[k]), {m})
        BY <1>8 DEF Before, All
      <4>3. QED
        BY <1>3, <4>1, <4>2, DescendingPush
    <3>2. Before(Grabbed(k), Range(outgoing[k]) \cup {m})
      BY <1>8 DEF IInv, Line, Before, All
    <3>3. QED
      BY <1>2, <1>4, <1>5, <1>9, <2>2, <3>1, <3>2 DEF IInv, Line, smSide
  <2>3. QED
    BY <2>1, <2>2
<1>11. Apart'
  <2>1. All(k)' = All(k) \cup {m} /\ \A l \in Threads \ {k} : All(l)' = All(l)
    BY <1>4, <1>5, <1>9 DEF All
  <2>2. m \notin freed /\ \A l \in Threads : m \notin All(l)
    BY <1>3, <1>8, Numbered DEF Message
  <2>3. \A l, o \in Threads : l # o => All(l)' \cap All(o)' = {}
    BY <2>1, <2>2 DEF IInv, Apart
  <2>4. \A l \in Threads : All(l)' \cap freed' = {}
    BY <1>2, <2>1, <2>2 DEF IInv, Apart
  <2>5. Everywhere' = Everywhere \cup {m}
    <3>1. \A n : n \in Everywhere <=> \E l \in Threads : n \in All(l)
      BY DEF Everywhere
    <3>2. \A n : n \in Everywhere' <=> \E l \in Threads : n \in All(l)'
      BY DEF Everywhere
    <3>3. QED
      BY <2>1, <3>1, <3>2
  <2>6. 1 .. sent' = {n.id : n \in freed' \cup Everywhere'}
    <3>1. 1 .. sent = {n.id : n \in freed \cup Everywhere}
      BY DEF IInv, Apart
    <3>2. 1 .. sent' = 1 .. sent \cup {m.id}
      BY <1>2, <1>3
    <3>3. freed' \cup Everywhere' = (freed \cup Everywhere) \cup {m}
      BY <1>2, <2>5
    <3>4. QED
      BY <3>1, <3>2, <3>3
  <2>7. QED
    BY <2>3, <2>4, <2>6 DEF Apart
<1>12. QED
  BY <1>6, <1>7, <1>10, <1>11 DEF IInv

\* poll_outgoing grabs the list of a thread and reverses it.
LEMMA StepPoll ==
    ASSUME IInv, NEW k \in Threads, poll_outgoing(k)
    PROVE  IInv'
<1> USE DEF poll_outgoing, o2Side
<1>1. /\ get_messages_reversed(outgoing[k]) \in Seq(Message)
      /\ Range(get_messages_reversed(outgoing[k])) = Range(outgoing[k])
      /\ Ascending(get_messages_reversed(outgoing[k]))
  BY Lists, ReverseSeq, ReverseAscending DEF IInv, Line
<1>2. TypeOK'
  BY <1>1 DEF IInv, TypeOK
<1>3. InstanceAlive' /\ \A l \in Threads : pc'[l] # pc[l] => pc[l] = "idle" /\ pc'[l] = "sort"
  BY DEF IInv, TypeOK, InstanceAlive
<1>4. FinIsLast'
  <2>1. Range(o2sm_incoming) \subseteq Incoming /\ Range(arriving) \subseteq Incoming
    BY RangeSeq DEF IInv, TypeOK
  <2>2. QED
    BY <1>3, <2>1, IncomingHas DEF IInv, FinIsLast
<1>5. /\ outgoing'[k] = <<>> /\ Range(outgoing'[k]) = {}
      /\ unsorted'[k] = get_messages_reversed(outgoing[k])
      /\ unsorted[k] = <<>> /\ Range(unsorted[k]) = {} /\ pc'[k] = "sort"
      /\ \A l \in Threads \ {k} : /\ outgoing'[l] = outgoing[l] /\ pc'[l] = pc[l]
                                  /\ unsorted'[l] = unsorted[l]
  BY RangeEmpty DEF IInv, TypeOK, Line
<1>6. ASSUME NEW l \in Threads
      PROVE  Line(l)' /\ All(l)' = All(l)
  <2>1. CASE l # k
    BY <1>5, <2>1, LineSame DEF IInv, All, Grabbed
  <2>2. CASE l = k
    <3>1. Grabbed(k)' = Grabbed(k) \cup Range(outgoing[k]) /\ All(k)' = All(k)
      BY <1>1, <1>5 DEF Grabbed, All
    <3>2. Descending(<<>>) /\ \A P : Before(P, {})
      BY DEF Descending, Before
    <3>3. Before(Range(schedule[k]) \cup Range(msgs[k]) \cup Range(handled[k]),
                 Range(outgoing[k]))
      BY DEF IInv, Line, Before, Grabbed
    <3>4. QED
      BY <1>1, <1>5, <2>2, <3>1, <3>2, <3>3 DEF IInv, Line
  <2>3. QED
    BY <2>1, <2>2
<1>7. QED
  BY <1>2, <1>3, <1>4, <1>6, ApartSame DEF IInv

\* The first message of a list, taken from it.
LEMMA TakeFirst ==
    ASSUME NEW q \in Seq(Message), q # <<>>, Ascending(q)
    PROVE  /\ Head(q) \in Message /\ Tail(q) \in Seq(Message) /\ Ascending(Tail(q))
           /\ Range(q) = {Head(q)} \cup Range(Tail(q))
           /\ \A n \in Range(Tail(q)) : Head(q).id < n.id
  BY TailSeq, AscendingTail DEF Before

\* A list of messages with one more at its end.
LEMMA AddLast ==
    ASSUME NEW q \in Seq(Message), NEW m \in Message
    PROVE  Append(q, m) \in Seq(Message) /\ Range(Append(q, m)) = Range(q) \cup {m}
  BY AppendSeq

\* poll_outgoing sorts one message, into the schedule if it has a timestamp.
LEMMA StepSort ==
    ASSUME IInv, NEW k \in Threads, poll_sort(k)
    PROVE  IInv'
<1> DEFINE m == Head(unsorted[k])
<1>1. /\ m \in Message /\ Tail(unsorted[k]) \in Seq(Message)
      /\ Ascending(Tail(unsorted[k]))
      /\ Range(unsorted[k]) = {m} \cup Range(Tail(unsorted[k]))
      /\ \A n \in Range(Tail(unsorted[k])) : m.id < n.id
  <2>1. unsorted[k] \in Seq(Message) /\ unsorted[k] # <<>> /\ Ascending(unsorted[k])
    BY Lists DEF IInv, Line, poll_sort
  <2>2. QED
    BY <2>1, TakeFirst
<1>2. /\ unsorted'[k] = Tail(unsorted[k]) /\ pc[k] = "sort"
      /\ \A l \in Threads \ {k} : unsorted'[l] = unsorted[l]
      /\ UNCHANGED <<o2Side, pc, polled, handled, fault, outgoing, o2sm_incoming,
                     global_now, sent, freed>>
  BY DEF IInv, TypeOK, poll_sort
<1>3. \/ Timed(m) /\ schedule' = [schedule EXCEPT ![k] = Append(@, m)] /\ msgs' = msgs
      \/ ~Timed(m) /\ msgs' = [msgs EXCEPT ![k] = Append(@, m)] /\ schedule' = schedule
  BY DEF poll_sort, append_to_schedule
<1>4. TypeOK'
  <2>1. unsorted' \in [Threads -> Seq(Message)]
    BY <1>1 DEF IInv, TypeOK, poll_sort
  <2>2. schedule' \in [Threads -> Seq(Message)] /\ msgs' \in [Threads -> Seq(Message)]
    <3>1. Append(schedule[k], m) \in Seq(Message) /\ Append(msgs[k], m) \in Seq(Message)
      BY <1>1, Lists, AddLast DEF IInv
    <3>2. /\ schedule \in [Threads -> Seq(Message)] /\ msgs \in [Threads -> Seq(Message)]
      BY DEF IInv, TypeOK
    <3> HIDE DEF m
    <3>3. QED
      BY <1>3, <3>1, <3>2
  <2>3. QED
    BY <1>2, <2>1, <2>2 DEF IInv, TypeOK, o2Side
<1>5. InstanceAlive' /\ FinIsLast'
  BY <1>2 DEF IInv, InstanceAlive, FinIsLast, o2Side
<1>6. /\ Before(Range(schedule[k]) \cup Range(msgs[k]) \cup Range(handled[k]), {m})
      /\ Before(Range(schedule[k]) \cup Range(msgs[k]) \cup Range(handled[k]),
                Range(unsorted'[k]))
      /\ Before({m}, Range(unsorted'[k]))
  BY <1>1, <1>2 DEF IInv, Line, Before
<1> HIDE DEF m
<1>7. CASE Timed(m)
  <2>1. /\ schedule'[k] = Append(schedule[k], m) /\ msgs' = msgs
        /\ \A l \in Threads \ {k} : schedule'[l] = schedule[l]
    BY <1>3, <1>7 DEF IInv, TypeOK
  <2>2. schedule[k] \in Seq(Message) /\ Ascending(schedule[k])
    BY Lists DEF IInv, Line
  <2>3. Range(schedule'[k]) = Range(schedule[k]) \cup {m}
    BY <1>1, <2>1, <2>2, AddLast
  <2>4. Ascending(schedule'[k])
    <3>1. Before(Range(schedule[k]), {m})
      BY <1>6 DEF Before
    <3>2. QED
      BY <1>1, <2>1, <2>2, <3>1, AscendingAppend
  <2>5. Grabbed(k)' = Grabbed(k)
    BY <1>1, <1>2, <2>1, <2>3 DEF Grabbed
  <2>6. ASSUME NEW l \in Threads
        PROVE  Line(l)' /\ All(l)' = All(l)
    <3>1. CASE l # k
      BY <1>2, <2>1, <3>1, LineSame DEF IInv, All, Grabbed
    <3>2. CASE l = k
      <4>1. Before(Range(schedule[k]) \cup {m} \cup Range(msgs[k]) \cup Range(handled[k]),
                   Range(unsorted'[k]))
        BY <1>6 DEF Before
      <4>2. StreamBefore(Range(handled[k]), Range(schedule[k]) \cup {m} \cup Range(msgs[k]))
        BY <1>6 DEF IInv, Line, Before, StreamBefore
      <4>3. Line(k)'
        BY <1>1, <1>2, <1>7, <2>1, <2>3, <2>4, <2>5, <4>1, <4>2 DEF IInv, Line
      <4>4. QED
        BY <1>2, <2>5, <3>2, <4>3 DEF All
    <3>3. QED
      BY <3>1, <3>2
  <2>7. QED
    BY <1>2, <1>4, <1>5, <2>6, ApartSame DEF IInv
<1>8. CASE ~Timed(m)
  <2>1. /\ msgs'[k] = Append(msgs[k], m) /\ schedule' = schedule
        /\ \A l \in Threads \ {k} : msgs'[l] = msgs[l]
    BY <1>3, <1>8 DEF IInv, TypeOK
  <2>2. msgs[k] \in Seq(Message) /\ Ascending(msgs[k])
    BY Lists DEF IInv, Line
  <2>3. Range(msgs'[k]) = Range(msgs[k]) \cup {m}
    BY <1>1, <2>1, <2>2, AddLast
  <2>4. Ascending(msgs'[k])
    <3>1. Before(Range(msgs[k]), {m})
      BY <1>6 DEF Before
    <3>2. QED
      BY <1>1, <2>1, <2>2, <3>1, AscendingAppend
  <2>5. Grabbed(k)' = Grabbed(k)
    BY <1>1, <1>2, <2>1, <2>3 DEF Grabbed
  <2>6. ASSUME NEW l \in Threads
        PROVE  Line(l)' /\ All(l)' = All(l)
    <3>1. CASE l # k
      BY <1>2, <2>1, <3>1, LineSame DEF IInv, All, Grabbed
    <3>2. CASE l = k
      <4>1. Before(Range(schedule[k]) \cup (Range(msgs[k]) \cup {m}) \cup Range(handled[k]),
                   Range(unsorted'[k]))
        BY <1>6 DEF Before
      <4>2. StreamBefore(Range(handled[k]), Range(schedule[k]) \cup (Range(msgs[k]) \cup {m}))
        BY <1>6 DEF IInv, Line, Before, StreamBefore
      <4>3. Line(k)'
        BY <1>1, <1>2, <1>8, <2>1, <2>3, <2>4, <2>5, <4>1, <4>2 DEF IInv, Line
      <4>4. QED
        BY <1>2, <2>5, <3>2, <4>3 DEF All
    <3>3. QED
      BY <3>1, <3>2
  <2>7. QED
    BY <1>2, <1>4, <1>5, <2>6, ApartSame DEF IInv
<1>9. QED
  BY <1>7, <1>8

\* After sorting, without a global time, the schedule is freed.
LEMMA StepSorted ==
    ASSUME IInv, NEW k \in Threads, poll_sorted(k)
    PROVE  IInv'
<1> USE DEF poll_sorted, o2Side
<1>1. /\ unsorted[k] = <<>> /\ pc[k] = "sort" /\ pc'[k] = "timed"
      /\ \A l \in Threads \ {k} : pc'[l] = pc[l]
  BY DEF IInv, TypeOK
<1>2. Range(schedule[k]) \subseteq Message
  BY Lists, RangeSeq DEF IInv
<1>3. TypeOK'
  <2>1. freed' \subseteq Message /\ schedule' \in [Threads -> Seq(Message)]
    BY <1>2 DEF IInv, TypeOK
  <2>2. pc' \in [Threads -> {"none", "new", "idle", "sort", "timed", "now", "dead", "done"}]
    BY DEF IInv, TypeOK
  <2>3. QED
    BY <2>1, <2>2 DEF IInv, TypeOK
<1>4. InstanceAlive'
  BY <1>1 DEF IInv, TypeOK, InstanceAlive
<1>5. FinIsLast'
  <2>1. Range(o2sm_incoming) \subseteq Incoming /\ Range(arriving) \subseteq Incoming
    BY RangeSeq DEF IInv, TypeOK
  <2>2. \A l \in Threads : pc[l] \in {"dead", "done"} => pc'[l] \in {"dead", "done"}
    BY <1>1
  <2>3. QED
    BY <2>1, <2>2, IncomingHas DEF IInv, FinIsLast
<1>6. CASE polled[k] >= 0 /\ UNCHANGED <<freed, schedule>>
  <2>1. Apart' /\ \A l \in Threads : Line(l)'
    <3>1. \A l \in Threads : pc'[l] = pc[l] \/ unsorted[l] = <<>>
      BY <1>1
    <3>2. QED
      BY <1>6, <3>1, Quiet
  <2>2. QED
    BY <1>3, <1>4, <1>5, <2>1 DEF IInv
<1>7. CASE /\ freed' = freed \cup Range(schedule[k])
           /\ schedule' = [schedule EXCEPT ![k] = <<>>]
  <2>1. /\ schedule'[k] = <<>> /\ Range(schedule'[k]) = {}
        /\ \A l \in Threads \ {k} : schedule'[l] = schedule[l]
    BY <1>7, RangeEmpty DEF IInv, TypeOK
  <2>2. ASSUME NEW l \in Threads
        PROVE  Line(l)'
    <3>1. CASE l # k
      BY <1>1, <2>1, <3>1, LineSame DEF IInv
    <3>2. CASE l = k
      <4>1. Ascending(<<>>)
        BY DEF Ascending
      <4>2. Grabbed(k)' \subseteq Grabbed(k)
        BY <2>1 DEF Grabbed
      <4>3. /\ Before(Grabbed(k)', Range(outgoing[k]))
            /\ Before(Range(msgs[k]) \cup Range(handled[k]), Range(unsorted[k]))
            /\ StreamBefore(Range(handled[k]), Range(msgs[k]))
        BY <4>2 DEF IInv, Line, Before, StreamBefore
      <4>4. QED
        BY <1>1, <2>1, <3>2, <4>1, <4>3 DEF IInv, Line
    <3>3. QED
      BY <3>1, <3>2
  <2>3. Apart'
    <3>1. /\ Range(schedule[k]) \cap Range(outgoing[k]) = {}
          /\ Range(schedule[k]) \cap Range(msgs[k]) = {}
          /\ Range(schedule[k]) \cap Range(handled[k]) = {}
      <4>1. /\ Range(outgoing[k]) \subseteq Message /\ Range(handled[k]) \subseteq Message
            /\ Range(msgs[k]) \subseteq Message
        BY Lists, RangeSeq DEF IInv
      <4>2. Before(Range(schedule[k]), Range(outgoing[k]))
        BY DEF IInv, Line, Before, Grabbed
      <4>3. \A m \in Range(handled[k]), n \in Range(schedule[k]) :
               Timed(m) = Timed(n) => m.id < n.id
        BY DEF IInv, Line, StreamBefore
      <4>4. \A m \in Range(schedule[k]) : m.id \in Int
        BY <1>2 DEF Message
      <4>5. Range(schedule[k]) \cap Range(outgoing[k]) = {}
        BY <1>2, <4>1, <4>2, BeforeApart
      <4>6. Range(schedule[k]) \cap Range(msgs[k]) = {}
        BY DEF IInv, Line
      <4>7. Range(schedule[k]) \cap Range(handled[k]) = {}
        BY <4>3, <4>4
      <4>8. QED
        BY <4>5, <4>6, <4>7
    <3>2. All(k) = All(k)' \cup Range(schedule[k]) /\ All(k)' \cap Range(schedule[k]) = {}
      BY <1>1, <2>1, <3>1, RangeEmpty DEF All, Grabbed
    <3>3. \A l \in Threads \ {k} : All(l)' = All(l)
      BY <2>1 DEF All, Grabbed
    <3>4. QED
      BY <1>7, <3>2, <3>3, Freeing DEF IInv
  <2>4. QED
    BY <1>3, <1>4, <1>5, <2>2, <2>3 DEF IInv
<1>8. QED
  BY <1>6, <1>7
-----------------------------------------------------------------------------
(* Handlers.                                                               *)

\* Whatever a handler does, only its own thread can end, and that it has ended is
\* what a fin message says.
LEMMA Returns ==
    ASSUME IInv, NEW k \in Threads, NEW stream \in {"timed", "now"},
           HandlerReturns(k, stream), pc[k] \in {"timed", "now", "dead"},
           arriving' = arriving
    PROVE  /\ o2sm_incoming' \in Seq(Incoming) /\ FinIsLast'
           /\ pc' \in [Threads -> {"none", "new", "idle", "sort", "timed", "now",
                                   "dead", "done"}]
           /\ \A l \in Threads : pc'[l] = pc[l] \/ (l = k /\ pc'[l] \in {"dead", "done"})
           /\ stream \notin FinishIn => pc' = pc
<1>1. CASE pc' = pc /\ UNCHANGED o2sm_incoming
  BY <1>1 DEF IInv, TypeOK, FinIsLast
<1>2. CASE /\ pc' = pc
           /\ o2sm_incoming' = push(o2sm_incoming, [kind |-> "reply", from |-> k])
  <2>1. [kind |-> "reply", from |-> k] \in Incoming
    BY IncomingIs
  <2>2. o2sm_incoming' \in Seq(Incoming) /\ FinIsLast'
    BY <1>2, <2>1, Sends
  <2>3. QED
    BY <1>2, <2>2 DEF IInv, TypeOK
<1>3. CASE /\ stream \in FinishIn
           /\ pc' = [pc EXCEPT ![k] = check_ctx(stream)] /\ o2sm_finish(k)
  <2>1. [kind |-> "fin", from |-> k] \in Incoming
    BY IncomingIs
  <2>2. check_ctx(stream) \in {"dead", "done"}
    BY DEF check_ctx
  <2>3. \A l \in Threads : pc'[l] = pc[l] \/ (l = k /\ pc'[l] \in {"dead", "done"})
    BY <1>3, <2>2 DEF IInv, TypeOK
  <2>4. pc'[k] \in {"dead", "done"}
    BY <1>3, <2>2 DEF IInv, TypeOK
  <2>5. o2sm_incoming' \in Seq(Incoming) /\ FinIsLast'
    BY <1>3, <2>1, <2>3, <2>4, Sends DEF o2sm_finish
  <2>6. QED
    BY <1>3, <2>2, <2>3, <2>5 DEF IInv, TypeOK
<1>4. QED
  BY <1>1, <1>2, <1>3 DEF HandlerReturns

\* The loop over the schedule dispatches its first message.
LEMMA StepTimed ==
    ASSUME IInv, NEW k \in Threads, poll_timed(k)
    PROVE  IInv'
<1> DEFINE m == Head(schedule[k])
<1>1. /\ m \in Message /\ Tail(schedule[k]) \in Seq(Message)
      /\ Ascending(Tail(schedule[k]))
      /\ Range(schedule[k]) = {m} \cup Range(Tail(schedule[k]))
      /\ \A n \in Range(Tail(schedule[k])) : m.id < n.id
  <2>1. schedule[k] \in Seq(Message) /\ schedule[k] # <<>> /\ Ascending(schedule[k])
    BY Lists DEF IInv, Line, poll_timed, Ready
  <2>2. QED
    BY <2>1, TakeFirst
<1>2. /\ schedule'[k] = Tail(schedule[k]) /\ handled'[k] = Append(handled[k], m)
      /\ \A l \in Threads \ {k} : schedule'[l] = schedule[l] /\ handled'[l] = handled[l]
      /\ UNCHANGED <<o2Side, unsorted, msgs, polled, fault, outgoing, global_now, sent,
                     freed>>
      /\ pc[k] = "timed" /\ HandlerReturns(k, "timed")
  BY DEF IInv, TypeOK, poll_timed, o2sm_dispatch
<1>3. /\ handled[k] \in Seq(Message) /\ Append(handled[k], m) \in Seq(Message)
      /\ Range(handled'[k]) = Range(handled[k]) \cup {m}
  BY <1>1, <1>2, Lists, AddLast DEF IInv
<1>4. /\ o2sm_incoming' \in Seq(Incoming) /\ FinIsLast'
      /\ pc' \in [Threads -> {"none", "new", "idle", "sort", "timed", "now",
                              "dead", "done"}]
      /\ \A l \in Threads : pc'[l] = pc[l] \/ (l = k /\ pc'[l] \in {"dead", "done"})
  BY <1>2, Returns DEF o2Side
<1>5. TypeOK'
  <2>1. schedule' \in [Threads -> Seq(Message)]
    BY <1>1 DEF IInv, TypeOK, poll_timed
  <2>2. handled' \in [Threads -> Seq(Message)]
    BY <1>3 DEF IInv, TypeOK, poll_timed, o2sm_dispatch
  <2>3. QED
    BY <1>2, <1>4, <2>1, <2>2 DEF IInv, TypeOK, o2Side
<1>6. InstanceAlive'
  BY <1>2, <1>4 DEF IInv, InstanceAlive, o2Side
<1>7. Timed(m) /\ StreamBefore(Range(handled[k]), {m})
  BY <1>1 DEF IInv, Line, StreamBefore
<1>8. InStreams(handled'[k])
  <2>1. InStreams(handled[k])
    BY DEF IInv, Line
  <2> HIDE DEF m
  <2>2. QED
    BY <1>1, <1>2, <1>3, <1>7, <2>1, InStreamsAppend
<1>9. unsorted[k] = <<>>
  BY <1>2 DEF IInv, Line
<1> HIDE DEF m
<1>10. Grabbed(k)' = Grabbed(k)
  BY <1>1, <1>2, <1>3 DEF Grabbed
<1>11. ASSUME NEW l \in Threads
       PROVE  Line(l)' /\ All(l)' = All(l)
  <2>1. CASE l # k
    BY <1>2, <1>4, <2>1, LineSame DEF IInv, All, Grabbed
  <2>2. CASE l = k
    <3>1. Before(Range(schedule'[k]) \cup Range(msgs[k]) \cup Range(handled'[k]),
                 Range(unsorted[k]))
      BY <1>9, RangeEmpty DEF Before
    <3>2. StreamBefore(Range(handled'[k]), Range(schedule'[k]) \cup Range(msgs[k]))
      BY <1>1, <1>2, <1>3, <1>7 DEF IInv, Line, StreamBefore
    <3>3. Line(k)'
      BY <1>1, <1>2, <1>8, <1>9, <1>10, <3>1, <3>2 DEF IInv, Line
    <3>4. QED
      BY <1>2, <1>10, <2>2, <3>3 DEF All
  <2>3. QED
    BY <2>1, <2>2
<1>12. QED
  BY <1>2, <1>4, <1>5, <1>6, <1>11, ApartSame DEF IInv

\* The loop over the messages without timestamp dispatches the first of them.
LEMMA StepNow ==
    ASSUME IInv, NEW k \in Threads, poll_now(k)
    PROVE  IInv'
<1> DEFINE m == Head(msgs[k])
<1>1. /\ m \in Message /\ Tail(msgs[k]) \in Seq(Message)
      /\ Ascending(Tail(msgs[k]))
      /\ Range(msgs[k]) = {m} \cup Range(Tail(msgs[k]))
      /\ \A n \in Range(Tail(msgs[k])) : m.id < n.id
  <2>1. msgs[k] \in Seq(Message) /\ msgs[k] # <<>> /\ Ascending(msgs[k])
    BY Lists DEF IInv, Line, poll_now
  <2>2. QED
    BY <2>1, TakeFirst
<1>2. /\ msgs'[k] = Tail(msgs[k]) /\ handled'[k] = Append(handled[k], m)
      /\ \A l \in Threads \ {k} : msgs'[l] = msgs[l] /\ handled'[l] = handled[l]
      /\ UNCHANGED <<o2Side, unsorted, schedule, polled, outgoing, global_now, sent,
                     freed>>
      /\ pc[k] \in {"now", "dead"} /\ HandlerReturns(k, "now") /\ fault' \in BOOLEAN
  BY DEF IInv, TypeOK, poll_now, o2sm_dispatch
<1>3. /\ handled[k] \in Seq(Message) /\ Append(handled[k], m) \in Seq(Message)
      /\ Range(handled'[k]) = Range(handled[k]) \cup {m}
  BY <1>1, <1>2, Lists, AddLast DEF IInv
<1>4. /\ o2sm_incoming' \in Seq(Incoming) /\ FinIsLast'
      /\ pc' \in [Threads -> {"none", "new", "idle", "sort", "timed", "now",
                              "dead", "done"}]
      /\ \A l \in Threads : pc'[l] = pc[l] \/ (l = k /\ pc'[l] \in {"dead", "done"})
  BY <1>2, Returns DEF o2Side
<1>5. TypeOK'
  <2>1. msgs' \in [Threads -> Seq(Message)]
    BY <1>1 DEF IInv, TypeOK, poll_now
  <2>2. handled' \in [Threads -> Seq(Message)]
    BY <1>3 DEF IInv, TypeOK, poll_now, o2sm_dispatch
  <2>3. QED
    BY <1>2, <1>4, <2>1, <2>2 DEF IInv, TypeOK, o2Side
<1>6. InstanceAlive'
  BY <1>2, <1>4 DEF IInv, InstanceAlive, o2Side
<1>7. ~Timed(m) /\ StreamBefore(Range(handled[k]), {m})
  BY <1>1 DEF IInv, Line, StreamBefore
<1>8. InStreams(handled'[k])
  <2>1. InStreams(handled[k])
    BY DEF IInv, Line
  <2> HIDE DEF m
  <2>2. QED
    BY <1>1, <1>2, <1>3, <1>7, <2>1, InStreamsAppend
<1>9. unsorted[k] = <<>>
  BY <1>2 DEF IInv, Line
<1> HIDE DEF m
<1>10. Grabbed(k)' = Grabbed(k)
  BY <1>1, <1>2, <1>3 DEF Grabbed
<1>11. ASSUME NEW l \in Threads
       PROVE  Line(l)' /\ All(l)' = All(l)
  <2>1. CASE l # k
    BY <1>2, <1>4, <2>1, LineSame DEF IInv, All, Grabbed
  <2>2. CASE l = k
    <3>1. Before(Range(schedule[k]) \cup Range(msgs'[k]) \cup Range(handled'[k]),
                 Range(unsorted[k]))
      BY <1>9, RangeEmpty DEF Before
    <3>2. StreamBefore(Range(handled'[k]), Range(schedule[k]) \cup Range(msgs'[k]))
      BY <1>1, <1>2, <1>3, <1>7 DEF IInv, Line, StreamBefore
    <3>3. Line(k)'
      BY <1>1, <1>2, <1>8, <1>9, <1>10, <3>1, <3>2 DEF IInv, Line
    <3>4. QED
      BY <1>2, <1>10, <2>2, <3>3 DEF All
  <2>3. QED
    BY <2>1, <2>2
<1>12. QED
  BY <1>2, <1>4, <1>5, <1>6, <1>11, ApartSame DEF IInv

-----------------------------------------------------------------------------
(* The theorems.                                                           *)

\* Before o2_shmem_initialize there are no threads and no messages.
LEMMA Initially ==
    ASSUME Init
    PROVE  IInv
<1> USE DEF Init
<1>1. TypeOK
  <2>1. [k \in Threads |-> <<>>] \in [Threads -> Seq(Message)]
    OBVIOUS
  <2>2. provider \in [Services -> Threads \cup {Host, Nobody}]
    OBVIOUS
  <2>3. /\ o2sm_incoming \in Seq(Incoming) /\ arriving \in Seq(Incoming)
        /\ polled \in [Threads -> -1 .. MaxTime] /\ global_now \in -1 .. MaxTime
        /\ sent \in 0 .. MaxSent
    BY SharedmemAssumption
  <2>4. QED
    BY <2>1, <2>2, <2>3 DEF TypeOK
<1>2. InstanceAlive
  BY SharedmemAssumption DEF InstanceAlive
<1>3. FinIsLast
  BY RangeEmpty DEF FinIsLast
<1>4. \A k \in Threads : All(k) = {} /\ Grabbed(k) = {}
  BY RangeEmpty DEF All, Grabbed
<1>5. Apart
  BY <1>4 DEF Apart, Everywhere
<1>6. ASSUME NEW k \in Threads
      PROVE  Line(k)
  BY RangeEmpty DEF Line, Grabbed, Ascending, Descending, InStreams, Before, StreamBefore
<1>7. QED
  BY <1>1, <1>2, <1>3, <1>5, <1>6 DEF IInv

\* Every step of the O2 thread and of the threads keeps the invariant.
LEMMA Inductive ==
    ASSUME IInv, [Next]_vars
    PROVE  IInv'
<1>1. CASE UNCHANGED vars
  <2>1. UNCHANGED <<o2sm_protocol, instances, provider, outgoing, o2sm_incoming, arriving,
                    pc, unsorted, schedule, msgs, polled, global_now, sent, handled,
                    freed, fault>>
    BY <1>1 DEF vars
  <2>2. TypeOK' /\ InstanceAlive' /\ FinIsLast'
    BY <2>1 DEF IInv, TypeOK, InstanceAlive, FinIsLast
  <2>3. QED
    BY <2>1, <2>2, Quiet DEF IInv
<1>2. CASE o2_shmem_initialize
  BY <1>2, StepInitialize
<1>3. CASE bridge_poll_send
  <2>1. Head(arriving).kind \in {"sv", "fin", "reply"}
    BY <1>3 DEF bridge_poll_send
  <2>2. QED
    BY <1>3, <2>1, StepNewService, StepFin, StepReply
<1>4. CASE bridge_poll \/ o2_shmem_finish \/ o2sm_time_get
  BY <1>4, StepBridgePoll, StepFinish, StepTime
<1>5. ASSUME NEW s \in Services, NEW ts \in Times, O2sm_info_send(s, ts)
      PROVE  IInv'
  BY <1>5, StepSend
<1>6. ASSUME NEW k \in Threads,
             \/ o2_shmem_inst_new(k) \/ smThread(k) \/ poll_outgoing(k)
             \/ thread_finishes(k) \/ \E s \in Services : o2sm_service_new(k, s)
      PROVE  IInv'
  BY <1>6, StepInstNew, StepPc, StepSort, StepSorted, StepTimed, StepNow, StepPoll,
     StepThreadFinishes, StepServiceNew DEF smThread
<1>7. QED
  BY <1>1, <1>2, <1>3, <1>4, <1>5, <1>6 DEF Next, o2Thread, Ended

\* The invariant holds in every state.
THEOREM BridgeInvariant == Spec => []IInv
<1>1. Init => IInv
  BY Initially
<1>2. IInv /\ [Next]_vars => IInv'
  BY Inductive
<1>3. QED
  BY <1>1, <1>2, PTL DEF Spec

\* The invariant says where each message is and in which order messages are handled.
LEMMA Consequences ==
    ASSUME IInv
    PROVE  TypeOK /\ InstanceAlive /\ MessageInOnePlace /\ StreamsInOrder
<1>1. StreamsInOrder
  <2>1. ASSUME NEW k \in Threads
        PROVE  DOMAIN handled[k] = 1 .. Len(handled[k])
    BY Lists DEF IInv
  <2>2. QED
    BY <2>1 DEF IInv, Line, InStreams, StreamsInOrder
<1>2. ASSUME NEW k \in Threads
      PROVE  /\ Range(outgoing[k]) \cap Grabbed(k) = {}
             /\ Range(unsorted[k]) \cap (Range(schedule[k]) \cup Range(msgs[k])
                                           \cup Range(handled[k])) = {}
             /\ Range(schedule[k]) \cap Range(msgs[k]) = {}
             /\ Range(handled[k]) \cap (Range(schedule[k]) \cup Range(msgs[k])) = {}
  <2>1. /\ Range(outgoing[k]) \subseteq Message /\ Range(unsorted[k]) \subseteq Message
        /\ Grabbed(k) \subseteq Message
    BY Lists, RangeSeq DEF IInv, Grabbed
  <2>2. Range(outgoing[k]) \cap Grabbed(k) = {}
    BY <2>1, BeforeApart DEF IInv, Line
  <2>3. Range(unsorted[k]) \cap (Range(schedule[k]) \cup Range(msgs[k])
                                   \cup Range(handled[k])) = {}
    BY <2>1, BeforeApart DEF IInv, Line, Grabbed
  <2>4. Range(schedule[k]) \cap Range(msgs[k]) = {}
    BY DEF IInv, Line
  <2>5. \A m \in Range(handled[k]) : m.id \in Int
    BY <2>1 DEF Grabbed, Message
  <2>6. \A m \in Range(handled[k]), n \in Range(schedule[k]) \cup Range(msgs[k]) :
           Timed(m) = Timed(n) => m.id < n.id
    BY DEF IInv, Line, StreamBefore
  <2>7. Range(handled[k]) \cap (Range(schedule[k]) \cup Range(msgs[k])) = {}
    BY <2>5, <2>6
  <2>8. QED
    BY <2>2, <2>3, <2>4, <2>7
<1>3. ASSUME NEW k \in Threads
      PROVE  /\ \A i \in 1 .. 5 : Places(k)[i] \subseteq All(k)
             /\ UNION {Places(k)[i] : i \in 1 .. 5} = All(k)
             /\ \A i, j \in 1 .. 5 : i # j => Places(k)[i] \cap Places(k)[j] = {}
  <2>1. /\ Places(k)[1] = Range(outgoing[k]) /\ Places(k)[2] = Range(unsorted[k])
        /\ Places(k)[3] = Range(schedule[k]) /\ Places(k)[4] = Range(msgs[k])
        /\ Places(k)[5] = Range(handled[k])
    BY DEF Places
  <2>2. \A i \in 1 .. 5 : i \in {1, 2, 3, 4, 5}
    OBVIOUS
  <2>3. \A i, j \in 1 .. 5 : i # j => Places(k)[i] \cap Places(k)[j] = {}
    BY <1>2, <2>1, <2>2 DEF Grabbed
  <2>4. \A i \in 1 .. 5 : Places(k)[i] \subseteq All(k)
    BY <2>1, <2>2 DEF All, Grabbed
  <2>5. \A n \in All(k) : \E i \in {1, 2, 3, 4, 5} : n \in Places(k)[i]
    BY <2>1 DEF All, Grabbed
  <2>6. 1 .. 5 = {1, 2, 3, 4, 5}
    OBVIOUS
  <2>7. UNION {Places(k)[i] : i \in 1 .. 5} = All(k)
    BY <2>4, <2>5, <2>6
  <2>8. QED
    BY <2>3, <2>4, <2>7
<1>4. MessageInOnePlace
  <2>1. ASSUME NEW k \in Threads, NEW l \in Threads, NEW i \in 1 .. 5, NEW j \in 1 .. 5,
               <<k, i>> # <<l, j>>
        PROVE  Places(k)[i] \cap Places(l)[j] = {}
    <3>1. CASE k = l
      BY <1>3, <2>1, <3>1
    <3>2. CASE k # l
      BY <1>3, <3>2 DEF IInv, Apart
    <3>3. QED
      BY <3>1, <3>2
  <2>2. \A k \in Threads, i \in 1 .. 5 : Places(k)[i] \cap freed = {}
    BY <1>3 DEF IInv, Apart
  <2>3. UNION {Places(k)[i] : k \in Threads, i \in 1 .. 5} = Everywhere
    <3>1. \A n : n \in Everywhere <=> \E k \in Threads : n \in All(k)
      BY DEF Everywhere
    <3>2. \A k \in Threads : \A n : n \in All(k) <=> \E i \in 1 .. 5 : n \in Places(k)[i]
      BY <1>3
    <3>3. QED
      BY <3>1, <3>2
  <2>4. QED
    BY <2>1, <2>2, <2>3 DEF IInv, Apart, MessageInOnePlace
<1>5. QED
  BY <1>1, <1>4 DEF IInv

\* Without a handler that calls o2sm_finish for a message without timestamp, no
\* message is dispatched after o2_ctx was deleted.
LEMMA NeverDead ==
    ASSUME IInv, FinishIn \subseteq {"timed"}, [Next]_vars,
           NoFault, \A k \in Threads : pc[k] # "dead"
    PROVE  NoFault' /\ \A k \in Threads : pc'[k] # "dead"
<1>1. ASSUME NEW k \in Threads, poll_timed(k)
      PROVE  NoFault' /\ \A l \in Threads : pc'[l] # "dead"
  BY <1>1 DEF IInv, TypeOK, NoFault, poll_timed, o2sm_dispatch, HandlerReturns, check_ctx
<1>2. ASSUME NEW k \in Threads, poll_now(k)
      PROVE  NoFault' /\ \A l \in Threads : pc'[l] # "dead"
  <2>1. HandlerReturns(k, "now") /\ "now" \notin FinishIn /\ fault' = FALSE
    BY <1>2 DEF poll_now, o2sm_dispatch
  <2>2. QED
    BY <2>1 DEF NoFault, HandlerReturns
<1>3. ASSUME NEW k \in Threads,
             \/ o2_shmem_inst_new(k) \/ o2sm_initialize(k) \/ poll_sort(k)
             \/ poll_sorted(k) \/ poll_timed_done(k) \/ poll_returns(k)
             \/ poll_outgoing(k) \/ thread_finishes(k)
             \/ \E s \in Services : o2sm_service_new(k, s)
      PROVE  NoFault' /\ \A l \in Threads : pc'[l] # "dead"
  <2>1. pc \in [Threads -> {"none", "new", "idle", "sort", "timed", "now", "dead", "done"}]
    BY DEF IInv, TypeOK
  <2>2. fault' = fault /\ (pc' = pc \/ \E w \in {"new", "idle", "sort", "timed", "now", "done"} :
                                          pc' = [pc EXCEPT ![k] = w])
    BY <1>3, <2>1 DEF o2_shmem_inst_new, o2sm_initialize, poll_sort, poll_sorted,
       poll_timed_done, poll_returns, poll_outgoing, thread_finishes, o2sm_service_new,
       o2sm_message_send, smSide
  <2>3. QED
    BY <2>1, <2>2 DEF NoFault
<1>4. CASE UNCHANGED <<pc, fault>>
  BY <1>4 DEF NoFault
<1>5. QED
  BY <1>1, <1>2, <1>3, <1>4 DEF Next, vars, o2Thread, smThread, Ended, smSide,
     o2_shmem_initialize, bridge_poll, bridge_poll_send, o2_shmem_finish, o2sm_time_get,
     O2sm_info_send

\* The lists between the O2 thread and a thread, the sorting of what was grabbed and
\* the handlers: no message is lost, handled twice or by another thread, or freed while
\* a list holds it; each stream keeps its order; a running thread keeps its O2sm_info.
\* This holds whatever handlers do.
THEOREM MessagesKept ==
    Spec => [](TypeOK /\ InstanceAlive /\ MessageInOnePlace /\ StreamsInOrder)
<1>1. IInv => TypeOK /\ InstanceAlive /\ MessageInOnePlace /\ StreamsInOrder
  BY Consequences
<1>2. QED
  BY <1>1, BridgeInvariant, PTL

\* The same, and nothing is dispatched without an o2_ctx, if only handlers of messages
\* with a timestamp call o2sm_finish inside of o2sm_poll.
THEOREM BridgeSafe ==
    ASSUME FinishIn \subseteq {"timed"}
    PROVE  Spec => []BridgeIntact
<1> DEFINE J == NoFault /\ \A k \in Threads : pc[k] # "dead"
<1>1. Init => J
  BY DEF Init, NoFault
<1>2. IInv /\ J /\ [Next]_vars => J'
  BY NeverDead
<1>3. IInv /\ J => BridgeIntact
  BY Consequences DEF BridgeIntact
<1>4. QED
  BY <1>1, <1>2, <1>3, BridgeInvariant, PTL DEF Spec
=============================================================================
