----------------------------- MODULE MCServices -----------------------------
(***************************************************************************)
(* The services of an ensemble for model checking.  In the scene "pair"    *)
(* two processes with the constants of the configuration start, end and    *)
(* meet; in "trio" three processes have met and offer, remove and lose     *)
(* one service; in "star" a fourth one, which has met three, hears of the  *)
(* services that these come to offer and remove.  Names of services are    *)
(* above the processes.                                                    *)
(***************************************************************************)
EXTENDS Services

VARIABLE scene

Trio == INSTANCE Services WITH
    Procs <- {1, 2, 3}, Names <- {11}, Props <- {}, Taps <- {}, Freeable <- {11},
    MaxConn <- 3, MaxOps <- 3, MaxCrash <- 1, LateHangUp <- FALSE

Star == INSTANCE Services WITH
    Procs <- {1, 2, 3, 4}, Names <- {11}, Props <- {}, Taps <- {}, Freeable <- {11},
    MaxConn <- 3, MaxOps <- 4, MaxCrash <- 0, LateHangUp <- FALSE

TapOne == {<<11, 12>>}

MCInit == \/ scene = "pair" /\ Init
          \/ scene = "trio" /\ Trio!JoinedInit(<< <<1, 2>>, <<1, 3>>, <<2, 3>> >>)
          \/ scene = "star" /\ Star!JoinedInit(<< <<1, 4>>, <<2, 4>>, <<3, 4>> >>)

MCNext == /\ UNCHANGED scene
          /\ \/ scene = "pair" /\ Next
             \/ scene = "trio" /\ Trio!Next
             \/ scene = "star" /\ Star!Next

PairDoes(A) == scene = "pair" /\ A /\ UNCHANGED scene

MCFairness ==
    /\ \A x \in {y \in Procs \X Procs : y[1] < y[2]} :
           WF_<<vars, scene>>(PairDoes(\E c \in Conns : Connect(c, x[1], x[2])))
    /\ \A c \in Conns : WF_<<vars, scene>>(PairDoes(Accept(c)))
    /\ \A c \in Conns, p \in Procs : WF_<<vars, scene>>(PairDoes(Poll(c, p)))

MCSpec == MCInit /\ [][MCNext]_<<vars, scene>> /\ MCFairness

PairSpec == scene = "pair" /\ Init /\ [][MCNext]_<<vars, scene>> /\ MCFairness

\* Whoever has been told of a provider sends to no lower one, in whatever order
\* providers came and went, unless it offers the service itself; and a provider is in
\* an entry once (add_service, pick_service_provider).
ActiveProvider ==
    CASE scene = "pair" -> ServedByHighest /\ OneProviderPerProcess
      [] scene = "trio" -> Trio!ServedByHighest /\ Trio!OneProviderPerProcess
      [] scene = "star" -> Star!ServedByHighest /\ Star!OneProviderPerProcess

\* Messages to a service are redirected only if its provider is gone or a higher one
\* came (pick_service_provider).
KeepsProvider ==
    [][CASE scene = "pair" -> NoNeedlessSwitch
         [] scene = "trio" -> Trio!NoNeedlessSwitch
         [] scene = "star" -> Star!NoNeedlessSwitch]_vars

\* No provider and no tap leads to a Proc_info that was deleted (~Proc_info), and
\* o2_services_handler finds the sender of what it handles.
NothingDangles ==
    /\ scene = "pair" => TypeOK /\ SenderKnown
    /\ CASE scene = "pair" -> NoDanglingProvider /\ NoDanglingTap
         [] scene = "trio" -> Trio!NoDanglingProvider /\ Trio!NoDanglingTap
         [] scene = "star" -> Star!NoDanglingProvider /\ Star!NoDanglingTap

\* When there are no more changes, processes that stay know each other's services,
\* properties and taps (o2_send_services, o2_notify_others).
Converges == <>[](scene = "pair" => Consistent)
=============================================================================
