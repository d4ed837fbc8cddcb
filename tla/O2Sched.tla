------------------------------ MODULE O2Sched ------------------------------
(***************************************************************************)
(* The timing-wheel schedulers of src/src/o2sched.cpp: o2_ltsched ("lt",   *)
(* local time) and o2_gtsched ("gt", synchronized time).  Time is counted  *)
(* in ticks; a bin is TicksPerBin ticks (10 ms in the code), a second is   *)
(* BinsPerSecond bins (100) and the table has TableLen slots (128).        *)
(*                                                                         *)
(* sched_dispatch is taken apart at the places where it calls user code: a *)
(* handler may schedule more messages, on either scheduler, in the middle  *)
(* of the scan.  run is the activation record of the dispatch in progress: *)
(* run.target is the run_until_time of the outer call and run.until that   *)
(* of the inner one, which advances one second at a time.                  *)
(***************************************************************************)
EXTENDS Integers, Sequences, SequencesExt

CONSTANTS Msgs,            \* the messages that may be scheduled, each once
          TicksPerBin, BinsPerSecond, TableLen,
          MaxTime,         \* bound on both clocks and on timestamps
          StartTimes       \* the reference times at which sync may be obtained

ASSUME SizeAssumption ==
    /\ TicksPerBin \in Nat \ {0}
    /\ BinsPerSecond \in Nat \ {0}
    /\ TableLen \in Nat
    /\ TableLen > BinsPerSecond     \* "greater than 1 second", o2sched.h
    /\ MaxTime \in Nat
    /\ StartTimes \subseteq 0..MaxTime

Scheds == {"lt", "gt"}
Slots == 0..(TableLen - 1)
Time == 0..MaxTime

VARIABLES table,       \* table[s][i]: the list of messages in slot i
          last_bin,    \* last_bin[s]
          last_time,   \* last_time[s]
          started,     \* o2_gtsched_started
          now,         \* now[s]: the clock s follows
          run,         \* the dispatch in progress
          ts,          \* ts[m]: the timestamp of m
          where,       \* where[m]: what became of m
          since,       \* the reference time at which o2_gtsched was started
          late         \* whether it was given a message for an earlier time

vars == <<table, last_bin, last_time, started, now, run, ts, where, since, late>>

O2_SCHED_BIN(t) == t \div TicksPerBin
O2_SCHED_BIN_TO_INDEX(b) == b % TableLen
O2_SCHED_INDEX(t) == O2_SCHED_BIN_TO_INDEX(O2_SCHED_BIN(t))
Second == TicksPerBin * BinsPerSecond

EmptyTable == [i \in Slots |-> << >>]
Idle == [at |-> "idle", sched |-> "lt", until |-> 0, target |-> 0,
         gnow |-> 0]
InTable(s) == UNION {Range(table[s][i]) : i \in Slots}

\* o2_sched_initialize: only the local scheduler runs until there is a clock.
Init ==
    /\ table = [s \in Scheds |-> EmptyTable]
    /\ last_bin = [s \in Scheds |-> 0]
    /\ last_time = [s \in Scheds |-> 0]
    /\ started = FALSE
    /\ now = [s \in Scheds |-> 0]
    /\ run = Idle
    /\ ts = [m \in Msgs |-> 0]
    /\ where = [m \in Msgs |-> "unused"]
    /\ since = 0
    /\ late = FALSE

---------------------------------------------------------------------------
\* User code runs between polls and in the handler of a message.
UserCode == run.at \in {"idle", "handler"}

\* Mutant: new messages go to the front of their slot.
EnqueueFront(s, m, mt) ==
    LET i == O2_SCHED_INDEX(mt)
    IN table' = [table EXCEPT ![s][i] = <<m>> \o @]

\* The sorted list is searched from the front for the first later message.
Enqueue(s, m, mt) ==
    LET i == O2_SCHED_INDEX(mt)
        list == table[s][i]
    IN \E p \in 1..(Len(list) + 1) :
          /\ \A j \in 1..(p - 1) : ts[list[j]] <= mt
          /\ p <= Len(list) => ts[list[p]] > mt
          /\ table' = [table EXCEPT ![s][i] = InsertAt(list, p, m)]

\* o2_schedule, for a message with a timestamp.
Schedule(s, m, mt) ==
    /\ UserCode
    /\ where[m] = "unused"
    /\ ts' = [ts EXCEPT ![m] = mt]
    /\ \/ /\ mt <= 0 \/ mt < last_time[s]
          /\ where' = [where EXCEPT ![m] = "delivered"]
          /\ UNCHANGED <<table, late>>
       \/ /\ mt > 0 /\ mt >= last_time[s]
          /\ s = "gt" /\ ~started
          /\ where' = [where EXCEPT ![m] = "dropped"]
          /\ UNCHANGED <<table, late>>
       \/ /\ mt > 0 /\ mt >= last_time[s]
          /\ s = "lt" \/ started
          /\ where' = [where EXCEPT ![m] = s]
          /\ late' = (late \/ (s = "gt" /\ mt < since))
          /\ Enqueue(s, m, mt)
    /\ UNCHANGED <<last_bin, last_time, started, now, run, since>>

\* o2_sched_start(&o2_gtsched, ref_time), called by o2_clock_synchronized when the
\* clock is first synchronized: by the reply to a ping, which o2_poll receives after
\* the schedulers have run, or by o2_clock_set wherever user code calls it, between
\* polls or in a handler of the local scheduler, inside o2_sched_poll.  g is the global
\* time then; it is t, unless o2_clock_set has a callback whose time is not continuous
\* with the local time: it passes the time of the callback without the offset.
StartGlobal(t, g) ==
    /\ UserCode /\ ~started
    /\ started' = TRUE
    /\ now' = [now EXCEPT !["gt"] = g]
    /\ table' = [table EXCEPT !["gt"] = EmptyTable]
    /\ last_bin' = [last_bin EXCEPT !["gt"] = O2_SCHED_BIN(t)]
    /\ last_time' = [last_time EXCEPT !["gt"] = t]
    /\ since' = t
    /\ UNCHANGED <<run, ts, where, late>>

\* o2_sched_flush frees the messages of the global scheduler.
Flush ==
    /\ UserCode
    /\ InTable("gt") # {}
    /\ table' = [table EXCEPT !["gt"] = EmptyTable]
    /\ where' = [m \in Msgs |-> IF m \in InTable("gt") THEN "flushed"
                                ELSE where[m]]
    /\ UNCHANGED <<last_bin, last_time, started, now, run, ts, since, late>>

---------------------------------------------------------------------------
\* Mutant: one pass to the target, however far away it is.
UntilOnePass(t, target) == target

\* sched_dispatch(s, target) is entered: as long as the target is more than
\* a second away the recursive call runs up to one second first.
Until(t, target) == IF t + Second < target THEN t + Second ELSE target

Enter(s, target, lt, gnow) ==
    [at |-> "scan", sched |-> s, until |-> Until(lt, target),
     target |-> target, gnow |-> gnow]

\* o2_poll fetches both times and calls o2_sched_poll.  Without a global
\* clock o2_global_now is -1.0.
Poll ==
    /\ run.at = "idle"
    /\ run' = Enter("lt", now["lt"], last_time["lt"],
                    IF started THEN now["gt"] ELSE -Second)
    /\ UNCHANGED <<table, last_bin, last_time, started, now, ts, where, since, late>>

Slot == table[run.sched][O2_SCHED_BIN_TO_INDEX(last_bin[run.sched])]
Scanning == run.at = "scan" /\ last_bin[run.sched] <= O2_SCHED_BIN(run.until)

\* Mutant: a message is due only after its time.
DueStrict == Slot # << >> /\ ts[Head(Slot)] < run.until

Due == Slot # << >> /\ ts[Head(Slot)] <= run.until

\* Unlink the first message of the slot and hand it to its handler.
Dispatch ==
    /\ Scanning /\ Due
    /\ LET s == run.sched
           i == O2_SCHED_BIN_TO_INDEX(last_bin[s])
           m == Head(Slot)
       IN /\ table' = [table EXCEPT ![s][i] = Tail(@)]
          /\ last_time' = [last_time EXCEPT ![s] = ts[m]]
          /\ where' = [where EXCEPT ![m] = "delivered"]
          /\ run' = [run EXCEPT !.at = "handler"]
    /\ UNCHANGED <<last_bin, started, now, ts, since, late>>

HandlerReturns ==
    /\ run.at = "handler"
    /\ run' = [run EXCEPT !.at = "scan"]
    /\ UNCHANGED <<table, last_bin, last_time, started, now, ts, where, since, late>>

NextBin ==
    /\ Scanning /\ ~Due
    /\ last_bin' = [last_bin EXCEPT ![run.sched] = @ + 1]
    /\ UNCHANGED <<table, last_time, started, now, run, ts, where, since, late>>

\* The scan is over: step back to the last bin, which is scanned again next
\* time, and return to the caller: the loop of the outer sched_dispatch,
\* then o2_sched_poll, which goes on to the global scheduler if it runs.  If it was
\* started during the scan, o2_poll fetched no global time and it is run to -1.0: its
\* last_time is set back to that and it catches up from there in the polls to come.
EndScan ==
    /\ run.at = "scan" /\ ~Scanning
    /\ last_bin' = [last_bin EXCEPT ![run.sched] = @ - 1]
    /\ last_time' = [last_time EXCEPT ![run.sched] = run.until]
    /\ run' = IF run.until # run.target
              THEN Enter(run.sched, run.target, run.until, run.gnow)
              ELSE IF run.sched = "lt" /\ started
              THEN Enter("gt", run.gnow, last_time["gt"], run.gnow)
              ELSE Idle
    /\ UNCHANGED <<table, started, now, ts, where, since, late>>

\* Time passes, by any amount, between polls and while handlers run.
Tick(s, t) ==
    /\ s = "gt" => started
    /\ t > now[s]
    /\ now' = [now EXCEPT ![s] = t]
    /\ UNCHANGED <<table, last_bin, last_time, started, run, ts, where, since, late>>

\* o2_clock_jump (clock.cpp), called between polls.  With adjust it copies
\* the table, clears it and reinserts what it then finds in the cleared table.
ClockJump(t, adjust) ==
    LET fudge == 2 * TicksPerBin                                \* 20 msec
    IN /\ run.at = "idle" /\ started
       /\ t >= fudge
       /\ now' = [now EXCEPT !["gt"] = t]
       /\ IF adjust
          THEN /\ last_time' = [last_time EXCEPT !["gt"] = t - fudge]
               /\ last_bin' = [last_bin EXCEPT !["gt"] =
                                  O2_SCHED_INDEX(t - fudge)]
               /\ table' = [table EXCEPT !["gt"] = EmptyTable]
               /\ where' = [m \in Msgs |->
                     IF m \in InTable("gt") THEN "leaked" ELSE where[m]]
          ELSE UNCHANGED <<last_time, last_bin, table, where>>
       /\ UNCHANGED <<started, run, ts, since, late>>

Dispatching == Dispatch \/ HandlerReturns \/ NextBin \/ EndScan
Ticks == \E s \in Scheds, t \in Time : Tick(s, t)

Next ==
    \/ Poll
    \/ Dispatching
    \/ Ticks
    \/ Flush
    \/ \E s \in Scheds, m \in Msgs, t \in Time : Schedule(s, m, t)
    \/ \E t, g \in StartTimes : StartGlobal(t, g)

Spec == Init /\ [][Next]_vars

\* The clocks advance and the application keeps calling o2_poll, which runs
\* to completion.
FairSpec ==
    /\ Spec
    /\ WF_vars(Dispatching) /\ WF_vars(Poll)
    /\ \A s \in Scheds : WF_vars(Tick(s, MaxTime))

\* With o2_clock_jump, adjusting the timestamps of pending messages.
AdjustSpec ==
    Init /\ [][Next \/ \E t \in Time : ClockJump(t, TRUE)]_vars

---------------------------------------------------------------------------
\* Type correctness; times stay within the range of the clocks.
TypeOK ==
    /\ table \in [Scheds -> [Slots -> Seq(Msgs)]]
    /\ last_bin \in [Scheds -> Int]
    /\ last_time \in [Scheds -> (-Second)..MaxTime]
    /\ started \in BOOLEAN
    /\ now \in [Scheds -> Time]
    /\ run \in [at : {"idle", "scan", "handler"}, sched : Scheds,
                until : Int, target : Int, gnow : Int]
    /\ ts \in [Msgs -> Time]
    /\ where \in [Msgs -> {"unused", "lt", "gt", "delivered", "dropped",
                           "flushed", "leaked"}]
    /\ since \in Time
    /\ late \in BOOLEAN

\* The order of the global scheduler is claimed as long as it is given no message for
\* a time before the one at which it was started.  o2_schedule delivers such a message
\* at once, unless last_time was set back, because a handler started the scheduler or
\* because it was started ahead of its clock: then the message goes to a slot that the
\* scan, which starts near since, may not visit before the next turn of the wheel.
InOrder(s) == s = "lt" \/ ~late

\* The first bin the scheduler will still visit: a scan that has ended but not
\* returned is about to step back to the bin it came from.
NextVisit(s) ==
    IF run.at = "scan" /\ run.sched = s /\ ~Scanning
    THEN last_bin[s] - 1 ELSE last_bin[s]

\* No message is left behind: whatever is still in a scheduler's table is not
\* earlier than the time the scheduler has reached, and its bin has still to be
\* scanned, however far the clock jumped ahead between two polls, and wherever the
\* global scheduler was started.
NoneOverdue ==
    \A s \in Scheds : \A m \in InTable(s) : InOrder(s) =>
        /\ ts[m] >= last_time[s]
        /\ O2_SCHED_BIN(ts[m]) >= NextVisit(s)

\* A scheduler is never ahead of its clock, so that no message of its table is handed
\* to its handler before its time, except for the global one where it was started
\* ahead of it: there it stays, and dispatches nothing, until the next poll.
NotEarly ==
    \A s \in Scheds : last_time[s] <= now[s] \/ (s = "gt" /\ last_time[s] = since)

\* Each slot is sorted by time and holds messages of its own bins only.
SlotsSorted ==
    \A s \in Scheds, i \in Slots :
        \A j \in 1..Len(table[s][i]) :
            /\ O2_SCHED_INDEX(ts[table[s][i][j]]) = i
            /\ j > 1 => ts[table[s][i][j - 1]] <= ts[table[s][i][j]]

\* A message is in the table of one scheduler exactly when it is waiting
\* there: none is lost, duplicated or delivered twice.
Accounted ==
    \A m \in Msgs, s \in Scheds : where[m] = s <=> m \in InTable(s)

\* Every message that waits is in one slot, the one of its time, behind the
\* earlier ones of any turn of the wheel (o2_schedule); a scheduler is neither
\* behind nor ahead of its clock.
InItsPlace ==
    TypeOK /\ Accounted /\ SlotsSorted /\ NoneOverdue /\ NotEarly

\* A scheduler dispatches in timestamp order, even when the clock advances
\* by more than the table's span and when handlers schedule more messages, or
\* start the global scheduler, during the scan.
EarliestFirst ==
    \A m \in Msgs :
        where[m] \in Scheds /\ InOrder(where[m]) /\ where'[m] = "delivered" =>
            \A k \in InTable(where[m]) : ts[m] <= ts[k]

\* When the dispatch of a scheduler returns to o2_sched_poll, everything due
\* at the time o2_poll read from the clock has been handed to its handler.
ReturnsWhenDone ==
    LET returns == run.at = "scan" /\ (run'.at = "idle" \/ run'.sched # run.sched)
    IN  returns /\ InOrder(run.sched) => \A m \in InTable(run.sched) : ts[m] > run.target

\* sched_dispatch calls handlers in the order of the timestamps, also when the
\* clock advances by more than the table's span and handlers schedule into the
\* scanned slot or synchronize the clock, and it returns when everything due as o2_poll
\* began has been dispatched; of the global scheduler, this is said as long as it was
\* not given a message for a time before the one at which it was started.
DispatchedInOrder == [][EarliestFirst /\ ReturnsWhenDone]_vars

\* A scheduled message is dispatched in the end (or flushed), except where messages
\* for a time before global time began may have to wait for a turn of the wheel.
EventuallyDispatched ==
    \A m \in Msgs : []<>(where[m] \notin {s \in Scheds : InOrder(s)})

\* o2_clock_jump with adjust keeps the pending messages.
JumpKeepsMessages ==
    [][\A m \in Msgs : where[m] = "gt" => where'[m] # "leaked"]_vars
=============================================================================
