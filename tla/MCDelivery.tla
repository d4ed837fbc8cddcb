----------------------------- MODULE MCDelivery -----------------------------
(***************************************************************************)
(* Delivery of messages inside a computer, for model checking.  In the     *)
(* scene "local" handlers of one process send to each other: two services  *)
(* that tap each other, and a bundle with a message for each.  The scenes  *)
(* "release" and "debug" are the two builds of the allocator; in "osc"     *)
(* services are delegated to OSC, and messages exchanged with it.          *)
(***************************************************************************)
EXTENDS MsgSend

VARIABLES scene, o2mem_state, chunks, free_lists, ctx, heap, unused, used,
          infos, tree, freed_ports, last

memVars == <<o2mem_state, chunks, free_lists, ctx, heap, unused, used>>
oscVars == <<infos, tree, freed_ports, last>>
mcvars == <<scene, vars, memVars, oscVars>>

TapEachOther == [a |-> <<"b">>, b |-> <<"a">>]
Both == {<<"a", "b">>}

Release == INSTANCE O2Mem WITH
    Threads <- {"main", "k1"}, Main <- "main",
    Requests <- {100, 500, 600, 4000, 8185, 33554432}, Debug <- FALSE,
    MaxBlocks <- 3

Debugging == INSTANCE O2Mem WITH
    Threads <- {"main"}, Main <- "main", Requests <- {500, 1000, 2000, 4000},
    Debug <- TRUE, MaxBlocks <- 4

\* OSC: bundles in bundles with earlier and later times.
Note(id, al) == [bundle |-> FALSE, time |-> 0, id |-> id, al |-> al, data |-> 4, parts |-> <<>>]
Bundle(t, parts) == [bundle |-> TRUE, time |-> t, id |-> 0, al |-> 0, data |-> 0, parts |-> parts]
Exchanged == INSTANCE Osc WITH
    Names <- {"s", "t"}, NameLen <- [s |-> 1, t |-> 4], Ports <- {1}, InfoIds <- 1 .. 3,
    Offset <- 60, freed <- freed_ports,
    Sent <- {Note(1, 3), Note(1, 4), Bundle(3, <<Note(1, 1), Note(2, 2), Note(3, 3)>>),
             Bundle(5, <<Note(1, 7), Bundle(3, <<Note(2, 1), Bundle(7, <<Note(3, 1)>>)>>),
                         Note(4, 4)>>)}

MCInit ==
    /\ Init /\ Exchanged!Init
    /\ \/ scene \in {"local", "debug", "osc"} /\ Debugging!Init
       \/ scene = "release" /\ Release!Init

MCNext ==
    \/ scene = "local" /\ Next /\ UNCHANGED <<scene, memVars, oscVars>>
    \/ scene = "release" /\ Release!Next /\ UNCHANGED <<scene, vars, oscVars>>
    \/ scene = "debug" /\ Debugging!Next /\ UNCHANGED <<scene, vars, oscVars>>
    \/ scene = "osc" /\ Exchanged!Next /\ UNCHANGED <<scene, vars, memVars>>

InLocal(A) == scene = "local" /\ A /\ UNCHANGED <<scene, memVars, oscVars>>

\* A handler returns, o2_poll is called again, and time passes.
MCFairness ==
    /\ WF_mcvars(InLocal(HandlerReturns))
    /\ WF_mcvars(InLocal(Deliver))
    /\ WF_mcvars(InLocal(o2_poll))
    /\ SF_mcvars(InLocal(\E m \in timed : Due(m)))

MCSpec == MCInit /\ [][MCNext]_mcvars /\ MCFairness

\* o2_malloc never gives out memory that is in use or on a free list, what o2_free gets
\* goes to the list of its own size, and payloads are aligned; mem_check_all can walk
\* every chunk of a debugging build.
BlocksIntact ==
    /\ scene = "release" => Release!NoOverlap /\ Release!RightList /\ Release!Aligned
    /\ scene = "debug" => /\ Debugging!NoOverlap /\ Debugging!RightList
                          /\ Debugging!Aligned /\ Debugging!Walkable

\* No service leads to an Osc_info that was deleted, o2_osc_port_free closes a port and
\* its connections; bundles keep their messages, order and times through OSC, and
\* converted messages fit into the memory they are written to.
OscIntact ==
    scene = "osc" => /\ Exchanged!NoDangling /\ Exchanged!PortFreed
                     /\ Exchanged!TimesKept /\ Exchanged!Fits

\* Once user code makes no more calls all messages are delivered or dropped: services
\* that tap each other do not forward for ever (O2_MAX_TAP_FORWARDING).
Settles == scene = "local" => EventuallyQuiet
=============================================================================
