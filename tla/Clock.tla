------------------------------- MODULE Clock -------------------------------
(***************************************************************************)
(* Clock synchronization as one O2 process sees it, from src/src/clock.cpp *)
(* : pings to the clock service _cs, the window of round trips, the        *)
(* mapping from local to global time with its rate changes, becoming the   *)
(* reference with o2_clock_set, and the exchange of synchronization status *)
(* with other processes.                                                   *)
(*                                                                         *)
(* Time passes in ticks of U units, so that half a round trip and a rate   *)
(* of 0.9 or 1.1 are whole numbers.  Global time is in the same units.     *)
(***************************************************************************)
EXTENDS Integers, Sequences, FiniteSets, FiniteSetsExt

CONSTANTS Refs,         \* other processes that may offer _cs
          RefOff,       \* by how many ticks the clock of each is ahead of ours
          Peers,        \* other processes, as far as status is concerned
          Origins,      \* units by which a time callback is ahead of our clock
          HistoryLen,   \* CLOCK_SYNC_HISTORY_LEN
          Second,       \* one second in ticks
          Gap,          \* ticks between pings: at first, later, in the end
          Later,        \* ticks after which the third gap applies
          MaxTime,      \* bound: ticks
          MaxDelay,     \* bound: ticks from a ping to its reply
          MaxPing,      \* bound: pings sent
          MaxChange     \* bound: changes of the clock service

None == "none"
Self == "_o2"

\* What the constants must satisfy.
ClockAssumption ==
    /\ {None, Self} \cap (Refs \cup Peers) = {}
    /\ RefOff \in [Refs -> Int] /\ Origins \subseteq Int
    /\ HistoryLen \in Nat \ {0} /\ Second \in Nat \ {0}
    /\ Gap \in [1..3 -> Nat \ {0}] /\ Later \in Nat
    /\ MaxTime \in Nat /\ MaxDelay \in Nat /\ MaxPing \in Nat /\ MaxChange \in Nat

U == 20
Rate == [stop |-> 0, slow |-> 18, normal |-> 20, fast |-> 22]   \* per U

VARIABLES now,          \* the clock of the system, in ticks
          origin,       \* of the time source in use
          time_offset,  \* subtracted from the time source
          base,         \* local_time_base, global_time_base, clock_rate
          synced,       \* o2_clock_is_synchronized
          is_refclk,
          gtstart,      \* time at which o2_gtsched was started, or -1
          cs,           \* the active provider of _cs
          ping,         \* ids and times of the ping protocol
          hist,         \* round_trip_time and ref_minus_local
          replies,      \* ping_reply_count
          sched,        \* clock messages in the local scheduler
          net,          \* pings and replies on their way
          peer,         \* what is known of and told to each peer
          changes,      \* changes of _cs so far
          ignored,      \* the jump callback took the last jump and did nothing
          worst         \* history: longest round trip of a reply used

vars == <<now, origin, time_offset, base, synced, is_refclk, gtstart, cs, ping,
          hist, replies, sched, net, peer, changes, ignored, worst>>
mapping == <<base, synced, is_refclk, gtstart, ignored>>
source == <<origin, time_offset>>

Abs(x) == IF x < 0 THEN -x ELSE x

o2_local_time == now * U + origin - time_offset
LOCAL_TO_GLOBAL(b, t) == b.global + ((t - b.local) * b.rate) \div U
o2_time_get == IF is_refclk THEN o2_local_time
               ELSE LOCAL_TO_GLOBAL(base, o2_local_time)
RefTime(r) == (now + RefOff[r]) * U

\* up: connected; tag: O2TAG_SYNCED; told: cs/cs was sent; si: reported status
NoPeer == [up |-> FALSE, tag |-> FALSE, told |-> FALSE, si |-> None]

Init ==
    /\ now = 0 /\ origin = 0 /\ time_offset = 0
    /\ base = [local |-> 0, global |-> -1, rate |-> Rate.stop]
    /\ synced = FALSE /\ is_refclk = FALSE /\ gtstart = -1
    /\ cs = None
    /\ ping = [sync_id |-> 0, process |-> 0, rate_id |-> 0,
               send_time |-> 0, start_time |-> 0, gone |-> FALSE]
    /\ hist = [i \in 0..(HistoryLen - 1) |-> [rtt |-> 0, off |-> 0, ref |-> None,
                                              gone |-> FALSE]]
    /\ replies = 0
    /\ sched = {} /\ net = {}
    /\ peer = [q \in Peers |-> NoPeer]
    /\ changes = 0 /\ ignored = FALSE /\ worst = 0

\* Time passes.  A message of the local scheduler may be a tick late, a ping and
\* its reply take up to MaxDelay; while nothing is on its way, time goes on to the
\* next message.
Tick ==
    LET next == {m.at : m \in sched}
        idle == net = {} /\ next # {} /\ Min(next) > o2_local_time
    IN /\ now' = IF idle THEN now + (Min(next) - o2_local_time + U - 1) \div U
                 ELSE now + 1
       /\ now' <= MaxTime
       /\ next # {} /\ Min(next) > o2_local_time - U
       /\ \A m \in net : o2_local_time - m.sent < MaxDelay * U
       /\ UNCHANGED <<source, mapping, cs, ping, hist, replies, sched, net,
                      peer, changes, worst>>

-----------------------------------------------------------------------------
(* Synchronization status.                                                 *)

Status(p, sy) == IF sy /\ p.tag THEN "O2_REMOTE" ELSE "O2_REMOTE_NOTIME"

\* o2_clock_status_change reports a status only once this process has time.
o2_clock_status_change(p, sy) ==
    IF sy /\ p.tag THEN [p EXCEPT !.si = Status(p, sy)] ELSE p

announce_synchronized ==
    peer' = [q \in Peers |->
               IF peer[q].up
               THEN o2_clock_status_change([peer[q] EXCEPT !.told = TRUE], TRUE)
               ELSE peer[q]]

\* o2_send_clocksync_proc follows the discovery message.
Connect(q) ==
    /\ ~peer[q].up
    /\ peer' = [peer EXCEPT ![q] = [up |-> TRUE, tag |-> FALSE,
                                    told |-> synced,
                                    si |-> "O2_REMOTE_NOTIME"]]
    /\ UNCHANGED <<now, source, mapping, cs, ping, hist, replies, sched, net,
                   changes, worst>>

o2_clocksynced_handler(q) ==
    /\ peer[q].up /\ ~peer[q].tag
    /\ peer' = [peer EXCEPT ![q] =
                  o2_clock_status_change([@ EXCEPT !.tag = TRUE], synced)]
    /\ UNCHANGED <<now, source, mapping, cs, ping, hist, replies, sched, net,
                   changes, worst>>

Disconnect(q) ==
    /\ peer[q].up
    /\ peer' = [peer EXCEPT ![q] = NoPeer]
    /\ UNCHANGED <<now, source, mapping, cs, ping, hist, replies, sched, net,
                   changes, worst>>

\* o2_clock_synchronized: the first time, global time begins.
o2_clock_synchronized(local, ref) ==
    IF synced THEN UNCHANGED <<synced, gtstart, base, peer>>
    ELSE /\ synced' = TRUE
         /\ gtstart' = ref
         /\ base' = [local |-> local, global |-> ref, rate |-> Rate.normal]
         /\ announce_synchronized

-----------------------------------------------------------------------------
(* Pings.  The active provider of _cs comes and goes with the services.    *)

\* o2_start_cs_pings; ref: this process is the reference.
o2_start_cs_pings(ref) ==
    IF ref THEN /\ ping' = [ping EXCEPT !.process = @ + 1]
                /\ UNCHANGED sched
    ELSE /\ ping' = [ping EXCEPT !.process = @ + 1,
                                 !.start_time = o2_local_time]
         /\ sched' = sched \cup {[type |-> "ps", id |-> ping.process + 1,
                                  at |-> o2_local_time]}

NewClockService(r) ==
    /\ cs # r /\ changes < MaxChange
    /\ cs' = r
    /\ changes' = changes + 1
    /\ o2_start_cs_pings(is_refclk)
    /\ UNCHANGED <<now, source, mapping, hist, replies, net, peer, worst>>

\* The active provider goes; another one that was known already may follow,
\* without new pings being started.
ClockServiceGone(r) ==
    /\ cs \in Refs /\ r # cs /\ changes < MaxChange
    /\ IF is_refclk THEN r # None ELSE r # Self
    /\ cs' = r
    /\ changes' = changes + 1
    /\ UNCHANGED <<now, source, mapping, ping, hist, replies, sched, net, peer,
                   worst>>

Due(m) == /\ m \in sched /\ m.at <= o2_local_time
          /\ \A k \in sched : m.at <= k.at

\* The time of the next ping.
When(elapsed) == o2_local_time + U *
    (CASE elapsed > Later * U -> Gap[3]
       [] elapsed <= Later * U /\ elapsed >= HistoryLen * Gap[1] * U -> Gap[2]
       [] OTHER -> Gap[1])

\* Mutant: the id of a ping does not change.
PingSameId(m) ==
    /\ Due(m) /\ m.type = "ps" /\ ~is_refclk /\ cs # None /\ now < MaxTime
    /\ ping' = [ping EXCEPT !.send_time = o2_local_time]
    /\ sched' = (sched \ {m}) \cup
         (IF m.id # ping.process THEN {}
          ELSE {[m EXCEPT !.at = When(o2_local_time - ping.start_time)]})
    /\ net' = net \cup {[type |-> "get", id |-> ping.sync_id, ref |-> cs,
                         sent |-> o2_local_time, time |-> 0]}
    /\ UNCHANGED <<now, source, mapping, cs, hist, replies, peer, changes,
                   worst>>

\* A ping; the next one is scheduled unless a newer sequence was started.
PingSend(m) ==
    /\ Due(m) /\ m.type = "ps" /\ ~is_refclk /\ cs # None
    /\ ping.sync_id < MaxPing
    /\ ping' = [ping EXCEPT !.sync_id = @ + 1, !.send_time = o2_local_time,
                           !.gone = FALSE]
    /\ sched' = (sched \ {m}) \cup
         (IF m.id # ping.process THEN {}
          ELSE {[m EXCEPT !.at = When(o2_local_time - ping.start_time)]})
    /\ net' = net \cup {[type |-> "get", id |-> ping.sync_id + 1, ref |-> cs,
                         sent |-> o2_local_time, time |-> 0]}
    /\ UNCHANGED <<now, source, mapping, cs, hist, replies, peer, changes,
                   worst>>

\* Without a clock service the sequence ends; the time of sending was set.
PingEnds(m) ==
    /\ Due(m) /\ m.type = "ps"
    /\ is_refclk \/ cs = None
    /\ ping' = IF is_refclk THEN ping
               ELSE [ping EXCEPT !.send_time = o2_local_time, !.gone = TRUE]
    /\ sched' = sched \ {m}
    /\ UNCHANGED <<now, source, mapping, cs, hist, replies, net, peer, changes,
                   worst>>

o2_ping_send_handler == \E m \in sched : PingSend(m) \/ PingEnds(m)

\* The reference answers with its time.
cs_ping_handler(m) ==
    /\ m \in net /\ m.type = "get" /\ m.ref \in Refs
    /\ net' = (net \ {m}) \cup {[m EXCEPT !.type = "put",
                                          !.time = RefTime(m.ref)]}
    /\ UNCHANGED <<now, source, mapping, cs, ping, hist, replies, sched, peer,
                   changes, worst>>

\* Pings are datagrams; a lost reply is as a lost ping.
Lose(m) ==
    /\ m \in net /\ m.type = "get"
    /\ net' = net \ {m}
    /\ UNCHANGED <<now, source, mapping, cs, ping, hist, replies, sched, peer,
                   changes, worst>>

-----------------------------------------------------------------------------
(* Replies and the adjustment of the clock.                                *)

\* The cancelled message is found by its id; delay is in units.
will_catch_up_after(s, id, at, delay) ==
    s \cup {[type |-> "cu", id |-> id, at |-> at + delay]}

\* Mutant: the correction starts from the reference, not from the reading.
set_clock_step(local, ref) ==
    LET advance == ref - LOCAL_TO_GLOBAL(base, local)
        id == ping.rate_id + 1
    IN /\ ping' = [ping EXCEPT !.rate_id = id]
       /\ base' = [local |-> local, global |-> ref,
                   rate |-> IF advance > 0 THEN Rate.fast ELSE Rate.slow]
       /\ sched' = will_catch_up_after(sched, id, local, 10 * Abs(advance))
       /\ ignored' = FALSE

\* Mutant: the message that ends the correction carries the id that is cancelled.
set_clock_old_id(local, ref) ==
    LET advance == ref - LOCAL_TO_GLOBAL(base, local)
    IN /\ ping' = [ping EXCEPT !.rate_id = @ + 1]
       /\ base' = [local |-> local, global |-> LOCAL_TO_GLOBAL(base, local),
                   rate |-> IF advance > 0 THEN Rate.fast ELSE Rate.slow]
       /\ sched' = will_catch_up_after(sched, ping.rate_id, local,
                                       10 * Abs(advance))
       /\ ignored' = FALSE

\* set_clock.  In place of a jump, a callback may call o2_clock_jump with the
\* new time, or do nothing; without a callback (or when it returns false) time
\* jumps ahead, or stops.
set_clock(local, ref) ==
    LET global == LOCAL_TO_GLOBAL(base, local)
        advance == ref - global
        id == ping.rate_id + 1
        slew(rate) == /\ base' = [local |-> local, global |-> global,
                                  rate |-> rate]
                      /\ sched' = will_catch_up_after(sched, id, local,
                                                      10 * Abs(advance))
                      /\ ignored' = FALSE
        jump(g, rate, ign) == /\ base' = [local |-> local, global |-> g,
                                          rate |-> rate]
                              /\ ignored' = ign
                              /\ UNCHANGED sched
    IN /\ ping' = [ping EXCEPT !.rate_id = id]
       /\ CASE advance > Second * U -> \/ jump(ref, Rate.normal, FALSE)
                                       \/ jump(global, base.rate, TRUE)
            [] advance \in 1..(Second * U) -> slew(Rate.fast)
            [] advance \in (1 - Second * U)..0 -> slew(Rate.slow)
            [] OTHER -> \/ jump(global, Rate.stop, FALSE)
                        \/ jump(ref, Rate.normal, FALSE)
                        \/ jump(global, base.rate, TRUE)

\* The window entry with the shortest round trip.
Best(h) == CHOOSE i \in DOMAIN h :
             /\ \A j \in DOMAIN h : h[i].rtt <= h[j].rtt
             /\ \A j \in DOMAIN h : j < i => h[i].rtt < h[j].rtt

\* A reply to the latest ping goes into the window; when that is full, its best
\* entry sets the clock.
cs_ping_reply_handler(m) ==
    LET rtt == o2_local_time - ping.send_time
        off == m.time + rtt \div 2 - o2_local_time
        h == [hist EXCEPT ![replies % HistoryLen] =
                [rtt |-> rtt, off |-> off, ref |-> m.ref, gone |-> ping.gone]]
    IN /\ m \in net /\ m.type = "put"
       /\ net' = net \ {m}
       /\ IF m.id # ping.sync_id
          THEN UNCHANGED <<base, synced, gtstart, ping, hist, replies, sched,
                           peer, ignored, worst>>
          ELSE /\ hist' = h
               /\ replies' = replies + 1
               /\ worst' = Max({worst, (IF ping.gone THEN 2 ELSE 1)
                                        * (o2_local_time - m.sent)})
               /\ LET ref == o2_local_time + h[Best(h)].off
                  IN \/ /\ replies + 1 < HistoryLen
                        /\ UNCHANGED <<base, synced, gtstart, ping, sched, peer,
                                       ignored>>
                     \/ /\ replies + 1 >= HistoryLen /\ ~synced
                        /\ o2_clock_synchronized(o2_local_time, ref)
                        /\ UNCHANGED <<ping, sched, ignored>>
                     \/ /\ replies + 1 >= HistoryLen /\ synced
                        /\ set_clock(o2_local_time, ref)
                        /\ UNCHANGED <<synced, gtstart, peer>>
       /\ UNCHANGED <<now, source, is_refclk, cs, changes>>

\* The rate returns to normal as of the time the message was scheduled for.
catch_up_handler(m) ==
    /\ Due(m) /\ m.type = "cu"
    /\ sched' = sched \ {m}
    /\ base' = IF m.id # ping.rate_id THEN base
               ELSE [local |-> m.at, global |-> LOCAL_TO_GLOBAL(base, m.at),
                     rate |-> Rate.normal]
    /\ UNCHANGED <<now, source, synced, is_refclk, gtstart, cs, ping, hist,
                   replies, net, peer, changes, ignored, worst>>

\* o2_clock_set with a callback that is o units ahead of our clock: this
\* process becomes the reference and offers _cs, which makes it the active
\* provider unless a remote one has the greater name.
o2_clock_set(o) ==
    /\ changes < MaxChange
    /\ changes' = changes + 1
    /\ origin' = o
    /\ time_offset' = now * U + o - o2_local_time
    /\ is_refclk' = TRUE
    /\ IF is_refclk THEN UNCHANGED <<synced, gtstart, base, peer, cs, ping, sched>>
       ELSE /\ o2_clock_synchronized(now * U + o, now * U + o)
            /\ \/ cs' = Self /\ o2_start_cs_pings(TRUE)
               \/ cs # None /\ UNCHANGED <<cs, ping, sched>>
    /\ UNCHANGED <<now, hist, replies, net, ignored, worst>>

Next ==
    \/ Tick
    \/ \E q \in Peers : Connect(q) \/ o2_clocksynced_handler(q) \/ Disconnect(q)
    \/ \E r \in Refs : NewClockService(r)
    \/ \E r \in Refs \cup {None, Self} : ClockServiceGone(r)
    \/ o2_ping_send_handler
    \/ \E m \in net : cs_ping_handler(m) \/ cs_ping_reply_handler(m) \/ Lose(m)
    \/ \E m \in sched : catch_up_handler(m)
    \/ \E o \in Origins : o2_clock_set(o)

Spec == Init /\ [][Next]_vars

-----------------------------------------------------------------------------
(* Properties.                                                             *)

TypeOK ==
    /\ now \in 0..MaxTime /\ origin \in Origins \cup {0} /\ time_offset \in Int
    /\ base.local \in Int /\ base.global \in Int /\ base.rate \in {0, 18, 20, 22}
    /\ synced \in BOOLEAN /\ is_refclk \in BOOLEAN /\ gtstart \in Int
    /\ cs \in Refs \cup {None, Self}
    /\ replies \in Nat /\ DOMAIN hist = 0..(HistoryLen - 1)
    /\ \A m \in sched : m.type \in {"ps", "cu"} /\ m.at \in Int
    /\ \A m \in net : m.type \in {"get", "put"} /\ m.id \in 1..ping.sync_id
    /\ \A q \in Peers : peer[q].si \in {None, "O2_REMOTE", "O2_REMOTE_NOTIME"}
    /\ changes \in 0..MaxChange /\ ignored \in BOOLEAN

\* An estimate of the reference made by cs_ping_reply_handler is off by at most
\* half of the round trip that was measured, whatever the delays each way and
\* whichever replies were lost or late, unless the clock service had gone when
\* the next ping was due.
EstimateBound ==
    \A i \in DOMAIN hist :
        LET e == hist[i]
        IN e.ref \in Refs /\ ~e.gone
           => 2 * Abs(e.off - RefOff[e.ref] * U) <= e.rtt

\* When all of the window is about one reference and no correction is under way,
\* o2_time_get differs from the reference by at most half of the longest round
\* trip: rate changes end just when the clocks meet.
TracksReference ==
    \A r \in Refs :
        (/\ synced /\ ~is_refclk /\ ~ignored /\ base.rate = Rate.normal
         /\ \A i \in DOMAIN hist : hist[i].ref = r)
        => 2 * Abs(o2_time_get - RefTime(r)) <= worst

\* While set_clock has time run fast or slow, a catch-up that is not cancelled
\* is scheduled, unless the jump callback has taken over.
CatchUpPending ==
    base.rate \in {Rate.fast, Rate.slow} /\ ~ignored
    => \E m \in sched : m.type = "cu" /\ m.id = ping.rate_id

\* In no time the local clock does not move, whatever source o2_clock_set
\* selects, and global time changes by a jump of more than a second or by a
\* tenth of the time by which a catch-up is late.  Of global time, this is not said of
\* the o2_clock_set by which a process that is synchronized already becomes the
\* reference: from then on o2_time_get is its local time, which may be any time away.
ContinuousTime ==
    now' = now
    => /\ o2_local_time' = o2_local_time
       /\ synced /\ is_refclk' = is_refclk
          => LET step == Abs(o2_time_get' - o2_time_get)
             IN \/ step = 0 \/ step >= Second * U
                \/ \E m \in sched \ sched' :
                     m.type = "cu" /\ 10 * step = o2_local_time - m.at

\* Every connected process has been told that this one has time once it has,
\* and each one's last reported status is the one o2_status would return,
\* whichever of the two was synchronized first.
StatusCurrent ==
    \A q \in Peers : peer[q].up => /\ peer[q].told = synced
                                   /\ peer[q].si = Status(peer[q], synced)

=============================================================================
