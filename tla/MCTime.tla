------------------------------- MODULE MCTime -------------------------------
(***************************************************************************)
(* Time for model checking: the schedulers and clock synchronization.  In  *)
(* the scene "both" the global scheduler is started between polls or in a  *)
(* handler of the local one and runs after it, with fewer messages; in     *)
(* "wheel" the local scheduler has all messages, in slots they share with  *)
(* those of another turn; in "clock" there are two references, whose       *)
(* clocks are less and more than a second apart from ours.                 *)
(***************************************************************************)
EXTENDS O2Sched

CONSTANTS Few,       \* the messages of the scene "both"
          LocalEnd, GlobalEnd  \* the end of time there, of each clock

VARIABLES scene,
          ticks, origin, time_offset, base, synced, is_refclk, gtstart, cs, ping,
          hist, replies, sched, net, peer, changes, ignored, worst

clockVars == <<ticks, origin, time_offset, base, synced, is_refclk, gtstart, cs, ping,
               hist, replies, sched, net, peer, changes, ignored, worst>>

Sync == INSTANCE Clock WITH
    Refs <- {"r1", "r2"}, RefOff <- [r1 |-> 1, r2 |-> 3], Peers <- {"p"},
    Origins <- {0, 7}, HistoryLen <- 2, Second <- 1, Gap <- <<1, 2, 3>>, Later <- 3,
    MaxTime <- 12, MaxDelay <- 2, MaxPing <- 3, MaxChange <- 2, now <- ticks

ASSUME Sync!ClockAssumption

mcvars == <<scene, vars, clockVars>>

MCInit == Sync!Init /\ Init /\ scene \in {"both", "wheel", "clock"}

End == [lt |-> LocalEnd, gt |-> GlobalEnd]

InBoth(A) ==
    /\ scene = "both" /\ A /\ UNCHANGED <<scene, clockVars>>
    /\ \A m \in Msgs : where'[m] = "unused" \/ m \in Few
    /\ \A s \in Scheds : now'[s] <= End[s]
    /\ \A s \in Scheds, m \in Msgs : where'[m] = s => ts'[m] <= End[s]

MCNext ==
    \/ InBoth(Next)
    \/ /\ scene = "wheel" /\ Next /\ UNCHANGED <<scene, clockVars>>
       /\ ~started' /\ \A m \in Msgs : where'[m] # "dropped"
    \/ scene = "clock" /\ Sync!Next /\ UNCHANGED <<scene, vars>>

MCFairness ==
    /\ WF_mcvars(InBoth(Dispatching)) /\ WF_mcvars(InBoth(Poll))
    /\ \A s \in Scheds : WF_mcvars(InBoth(Tick(s, End[s])))

MCSpec == MCInit /\ [][MCNext]_mcvars /\ MCFairness

\* o2_clock_jump with adjust, with the constants of the configuration.
MCAdjustSpec ==
    /\ scene = "both" /\ Init /\ Sync!Init
    /\ [][InBoth(Next \/ \E t \in Time : ClockJump(t, TRUE))]_mcvars

\* A message scheduled is dispatched in the end, or flushed (o2_sched_poll).
AllDispatched == scene = "both" => EventuallyDispatched

\* The estimate that cs_ping_reply_handler makes of the reference is off by at most
\* half of the round trip it measured, whichever pings and replies were late or lost.
EstimateBound == scene = "clock" => Sync!TypeOK /\ Sync!EstimateBound

\* The changes of rate by set_clock end just when our clock meets the reference's, no
\* change of rate is left without a catch_up_handler to end it, and both sides of a
\* connection have the same opinion on who has time, whichever was synchronized first.
TracksReference ==
    scene = "clock" => Sync!TracksReference /\ Sync!CatchUpPending /\ Sync!StatusCurrent

\* Local time does not jump, whatever source o2_clock_set selects, nor global time by
\* less than a second, whenever replies come in, other than in the step in which a
\* synchronized process becomes the reference.
ContinuousTime == [][scene = "clock" => Sync!ContinuousTime]_clockVars
=============================================================================
