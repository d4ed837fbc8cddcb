---------------------------- MODULE MCDiscovery ----------------------------
(***************************************************************************)
(* Processes that find each other, for model checking.  In the scene       *)
(* "near" two processes on one host broadcast to two ports; in "far" three *)
(* hosts cannot broadcast, and one of the processes is the hub; in         *)
(* "zeroconf" one build of MCZeroconf runs.                                *)
(***************************************************************************)
EXTENDS Discovery, MCZeroconf

VARIABLE scene

mcvars == <<scene, vars, zeroconfVars>>

NearHost == [p1 |-> "a", p2 |-> "a"]
NearRank == [n \in {"a", "b", "c"} \X (0 .. 1) |-> 2 - n[2]]  \* all hosts: see Fairness
NoHub == [p1 |-> None, p2 |-> None]

FarHost == [p1 |-> "a", p2 |-> "b", p3 |-> "c"]
HostRank == [a |-> 4, b |-> 2, c |-> 6]
Far == INSTANCE Discovery WITH
    Procs <- {"p1", "p2", "p3"}, Host <- FarHost,
    Rank <- [n \in {"a", "b", "c"} \X (0 .. 1) |-> HostRank[n[1]] + 2 - n[2]],
    PortMax <- 2, o2lite <- FALSE, Broadcasts <- {},
    HubOf <- [p1 |-> None, p2 |-> <<"a", 0>>, p3 |-> <<"a", 0>>],
    MaxConn <- 4, MaxUdp <- 1, MaxEnd <- 0

\* For the scene "zeroconf": no step of Discovery is possible.
Stopped == /\ port = [p1 |-> 0, p2 |-> 1] /\ idx = port /\ fault = TRUE
           /\ count = [p \in Procs |-> 0] /\ lr = [p \in Procs |-> [i \in Ports |-> {}]]
           /\ hub = NoHub /\ conn = [c \in Conns |-> NoConn]
           /\ udp = {} /\ ended = MaxEnd /\ reinit = {}

MCInit == /\ ZeroconfInit
          /\ \/ scene = "near" /\ build = "none" /\ Init
             \/ scene = "far" /\ build = "none" /\ Far!Init
             \/ scene = "zeroconf" /\ build # "none" /\ Stopped
MCNext == /\ UNCHANGED scene
          /\ \/ scene = "near" /\ Next /\ UNCHANGED zeroconfVars
             \/ scene = "far" /\ Far!Next /\ UNCHANGED zeroconfVars
             \/ scene = "zeroconf" /\ ZeroconfNext /\ UNCHANGED vars

\* Of the other scenes only safety is asked.
MCFairness == \/ scene = "near" /\ Fairness
              \/ build = "lite bonjour" /\ LiteBonjourBuild!Fairness
              \/ build = "lite avahi" /\ LiteAvahiBuild!Fairness
              \/ scene = "far" \/ build \in {"bonjour", "avahi"}

MCSpec == MCInit /\ [][MCNext]_mcvars /\ MCFairness

\* Where nothing can be broadcast, two processes that are connected to the same hub have
\* been introduced to each other when all messages are handled (hub_has_new_client), and
\* are connected only once.
IntroducedOnce ==
    IF scene # "far" THEN TypeOK
    ELSE Far!TypeOK /\ Far!OneConnection /\ Far!HubIntroduces

\* Processes on a network with broadcasts find each other, whatever ports they got, and
\* every connection that only carries a request is closed.
ProcessesMeet == scene = "near" => AllMeet /\ TempsClose
=============================================================================
