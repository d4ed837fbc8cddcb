------------------------------ MODULE LiteAvahi -----------------------------
(***************************************************************************)
(* How an o2lite client finds a host with Avahi, from                      *)
(* src/src/o2liteavahi.c: the callbacks run inside                         *)
(* avahi_simple_poll_iterate, so shutting down is put off until it returns.*)
(***************************************************************************)
EXTENDS Integers

CONSTANTS Names,    \* services of type _o2proc._tcp
          Hosts,    \* those with the record of an O2 process
          MaxEvents \* bound: failures and changes of the host

VARIABLES tcp, conns,          \* connected; connections opened and not closed
          zc_running,
          zc_objects,          \* zc_poll, zc_client and zc_sb exist
          zc_inside_poll, zc_shutdown_request,
          late,                \* browse_timeout has passed
          unseen,              \* names the browser has still to report
          resolvers,           \* names with a resolver
          up, daemon,          \* host and Avahi server are running
          failures

vars == <<tcp, conns, zc_running, zc_objects, zc_inside_poll, zc_shutdown_request,
          late, unseen, resolvers, up, daemon, failures>>

network == <<tcp, conns, up>>

Failure == failures < MaxEvents /\ failures' = failures + 1

Init ==
    /\ tcp = FALSE /\ conns = 0 /\ late = FALSE
    /\ zc_running = TRUE /\ zc_objects = TRUE
    /\ zc_inside_poll = FALSE /\ zc_shutdown_request = FALSE
    /\ unseen = Names /\ resolvers = {}
    /\ up \in BOOLEAN /\ daemon = TRUE /\ failures = 0

TimePasses ==
    /\ ~late /\ late' = TRUE
    /\ UNCHANGED <<network, zc_running, zc_objects, zc_inside_poll,
                   zc_shutdown_request, unseen, resolvers, daemon, failures>>

\* zc_shutdown while callbacks run.
zc_shutdown ==
    /\ zc_shutdown_request' = TRUE
    /\ UNCHANGED <<zc_objects, zc_running, unseen, resolvers>>

\* zc_shutdown outside of the poll, then o2ldisc_init.
restart == /\ zc_objects' = daemon /\ zc_running' = daemon /\ resolvers' = {}
           /\ unseen' = IF daemon THEN Names ELSE {}

\* The poll in which browse_timeout is found to have passed.
o2ldisc_poll_restarts ==
    /\ ~zc_inside_poll /\ ~tcp /\ late
    /\ late' = FALSE
    /\ restart
    /\ zc_inside_poll' = zc_running'
    /\ UNCHANGED <<network, zc_shutdown_request, daemon, failures>>

o2ldisc_poll ==
    /\ ~zc_inside_poll /\ (tcp \/ ~late) /\ zc_objects /\ zc_running
    /\ zc_inside_poll' = TRUE
    /\ UNCHANGED <<network, zc_running, zc_objects, zc_shutdown_request, late,
                   unseen, resolvers, daemon, failures>>

\* The iteration returns, with an error if ok is FALSE; a shutdown that was asked
\* for is done now.
poll_returns(ok) ==
    /\ zc_inside_poll /\ zc_inside_poll' = FALSE
    /\ IF ok THEN UNCHANGED failures ELSE Failure
    /\ zc_shutdown_request' = FALSE
    /\ IF zc_shutdown_request
       THEN /\ zc_objects' = FALSE /\ zc_running' = FALSE
            /\ unseen' = {} /\ resolvers' = {}
       ELSE zc_running' = ok /\ UNCHANGED <<zc_objects, unseen, resolvers>>
    /\ UNCHANGED <<network, late, daemon>>

zc_browse_callback(n) ==
    /\ zc_inside_poll /\ daemon /\ n \in unseen
    /\ unseen' = unseen \ {n} /\ resolvers' = resolvers \cup {n}
    /\ UNCHANGED <<network, zc_running, zc_objects, zc_inside_poll,
                   zc_shutdown_request, late, daemon, failures>>

\* The resolver is freed; if there is a connection now, so is the rest later.
zc_resolve_callback(n) ==
    /\ zc_inside_poll /\ daemon /\ n \in resolvers
    /\ resolvers' = resolvers \ {n}
    /\ IF n \in Hosts /\ up THEN tcp' = TRUE /\ conns' = conns + 1
       ELSE IF n \in Hosts THEN tcp' = FALSE /\ UNCHANGED conns
       ELSE UNCHANGED <<tcp, conns>>
    /\ zc_shutdown_request' = (zc_shutdown_request \/ tcp')
    /\ UNCHANGED <<up, zc_running, zc_objects, zc_inside_poll, late, unseen, daemon,
                   failures>>

\* zc_client_callback or zc_browse_callback with a failure.
zc_client_callback ==
    /\ zc_inside_poll /\ ~zc_shutdown_request
    /\ IF daemon THEN Failure ELSE UNCHANGED failures
    /\ zc_shutdown
    /\ UNCHANGED <<network, zc_inside_poll, late, daemon>>

disconnect ==
    /\ ~zc_inside_poll /\ tcp /\ Failure
    /\ tcp' = FALSE /\ conns' = conns - 1
    /\ UNCHANGED <<up, zc_running, zc_objects, zc_inside_poll, zc_shutdown_request,
                   late, unseen, resolvers, daemon>>

HostChanges ==
    /\ Failure
    /\ \/ ~tcp /\ up' = ~up /\ UNCHANGED daemon
       \/ daemon' = ~daemon /\ UNCHANGED up
    /\ UNCHANGED <<tcp, conns, zc_running, zc_objects, zc_inside_poll,
                   zc_shutdown_request, late, unseen, resolvers>>

Next == \/ TimePasses \/ o2ldisc_poll_restarts \/ o2ldisc_poll
        \/ poll_returns(TRUE) \/ poll_returns(FALSE)
        \/ zc_client_callback \/ disconnect \/ HostChanges
        \/ \E n \in Names : zc_browse_callback(n) \/ zc_resolve_callback(n)

Spec == Init /\ [][Next]_vars

\* The client polls, time passes, and avahi_simple_poll_iterate runs callbacks
\* about hosts, whose data has arrived, before it returns, at least now and then.
Fairness == /\ WF_vars(TimePasses) /\ WF_vars(o2ldisc_poll)
            /\ WF_vars(o2ldisc_poll_restarts) /\ WF_vars(poll_returns(TRUE))
            /\ \A n \in Hosts : /\ SF_vars(zc_browse_callback(n))
                                /\ SF_vars(zc_resolve_callback(n))

-----------------------------------------------------------------------------
(* Properties.                                                             *)

\* Nothing that avahi_simple_poll_iterate works with is freed by a callback.
NotFreedInside == zc_inside_poll => zc_objects /\ zc_running

\* If a host and the Avahi server stay up, the client is connected again and
\* again, whatever failed before.
FindsHost == <>[](up /\ daemon) => []<>tcp
=============================================================================
