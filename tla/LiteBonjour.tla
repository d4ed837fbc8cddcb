----------------------------- MODULE LiteBonjour ----------------------------
(***************************************************************************)
(* How an o2lite client finds a host with Bonjour, from                    *)
(* src/src/o2litebonjour.c: browsing pushes names on pending_services,     *)
(* which are resolved one at a time until a host accepts a connection.     *)
(***************************************************************************)
EXTENDS Integers, Sequences

CONSTANTS Names,    \* services with the ensemble's name
          Hosts,    \* those with the record of an O2 process
          Silent,   \* those that never answer
          MaxEvents \* bound: failures and changes of the host

VARIABLES tcp_sock,          \* BOOLEAN: connected to a host
          opened,            \* connections opened and not closed
          browse_ref,        \* BOOLEAN: browsing
          news,              \* names the browser has still to report
          pending_services,
          active_service,    \* name, or "none"
          resolve_ref,       \* BOOLEAN: waiting for an answer
          resolve_late,      \* resolve_timeout has passed
          browse_late,       \* browse_timeout has passed
          hostup, events

vars == <<tcp_sock, opened, browse_ref, news, pending_services, active_service,
          resolve_ref, resolve_late, browse_late, hostup, events>>

Event == events < MaxEvents /\ events' = events + 1

Init == /\ tcp_sock = FALSE /\ opened = 0
        /\ browse_ref = TRUE /\ news = Names
        /\ pending_services = << >> /\ active_service = "none"
        /\ resolve_ref = FALSE /\ resolve_late = TRUE /\ browse_late = FALSE
        /\ hostup \in BOOLEAN /\ events = 0

TimePasses ==
    /\ \/ ~resolve_late /\ resolve_late' = TRUE /\ UNCHANGED browse_late
       \/ ~browse_late /\ browse_late' = TRUE /\ UNCHANGED resolve_late
    /\ UNCHANGED <<tcp_sock, opened, browse_ref, news, pending_services,
                   active_service, resolve_ref, hostup, events>>

stop_resolving == resolve_ref' = FALSE /\ active_service' = "none"

\* browse_timeout is set again; a request that fails leaves resolve_timeout.
start_resolving(ok) ==
    /\ active_service' = Head(pending_services)
    /\ pending_services' = Tail(pending_services)
    /\ browse_late' = FALSE
    /\ resolve_ref' = ok
    /\ resolve_late' = ~ok

o2ldisc_init(ok) == browse_ref' = ok /\ news' = IF ok THEN Names ELSE {}

\* The calls of the library succeed, or fail as an event.
Outcome(ok) == IF ok THEN UNCHANGED events ELSE Event

poll_resolves(ok) ==
    /\ ~tcp_sock /\ pending_services # << >> /\ resolve_late
    /\ start_resolving(ok) /\ Outcome(ok)
    /\ UNCHANGED <<tcp_sock, opened, browse_ref, news, hostup>>

\* Mutant: the browser is only started again if there is none.
poll_restarts_closed(ok) ==
    /\ ~tcp_sock /\ pending_services = << >> /\ browse_late /\ ~browse_ref
    /\ stop_resolving /\ o2ldisc_init(ok) /\ Outcome(ok)
    /\ browse_late' = FALSE
    /\ UNCHANGED <<tcp_sock, opened, pending_services, resolve_late, hostup>>

poll_restarts(ok) ==
    /\ ~tcp_sock /\ pending_services = << >> /\ browse_late
    /\ stop_resolving /\ o2ldisc_init(ok) /\ Outcome(ok)
    /\ browse_late' = FALSE
    /\ UNCHANGED <<tcp_sock, opened, pending_services, resolve_late, hostup>>

zc_browse_callback(n) ==
    /\ browse_ref /\ n \in news
    /\ news' = news \ {n}
    /\ pending_services' = <<n>> \o pending_services
    /\ UNCHANGED <<tcp_sock, opened, browse_ref, active_service, resolve_ref,
                   resolve_late, browse_late, hostup, events>>

\* o2l_network_connect.
o2l_network_connect == /\ tcp_sock' = hostup
                       /\ opened' = IF hostup THEN opened + 1 ELSE opened

\* Browsing stops whether or not the connection was made: INVALID_SOCKET is not
\* false.
found_host ==
    /\ o2l_network_connect
    /\ browse_ref' = FALSE /\ news' = {} /\ pending_services' = << >>

zc_resolve_callback ==
    /\ resolve_ref /\ active_service \notin Silent
    /\ IF ~tcp_sock /\ active_service \in Hosts THEN found_host
       ELSE UNCHANGED <<tcp_sock, opened, browse_ref, news, pending_services>>
    /\ stop_resolving
    /\ resolve_late' = TRUE
    /\ UNCHANGED <<browse_late, hostup, events>>

\* zc_handle_event gets an error from either connection to the server.
zc_handle_event ==
    /\ Event
    /\ \/ browse_ref /\ browse_ref' = FALSE /\ news' = {} /\ UNCHANGED resolve_ref
       \/ resolve_ref /\ resolve_ref' = FALSE /\ UNCHANGED <<browse_ref, news>>
    /\ UNCHANGED <<tcp_sock, opened, pending_services, active_service,
                   resolve_late, browse_late, hostup>>

\* disconnect() of o2lite.c after the host closed the connection.
disconnect ==
    /\ tcp_sock /\ Event
    /\ tcp_sock' = FALSE /\ opened' = opened - 1
    /\ UNCHANGED <<browse_ref, news, pending_services, active_service, resolve_ref,
                   resolve_late, browse_late, hostup>>

HostChanges ==
    /\ ~tcp_sock /\ Event
    /\ hostup' = ~hostup
    /\ UNCHANGED <<tcp_sock, opened, browse_ref, news, pending_services,
                   active_service, resolve_ref, resolve_late, browse_late>>

Next == \/ TimePasses \/ zc_resolve_callback \/ zc_handle_event \/ disconnect
        \/ HostChanges
        \/ \E ok \in BOOLEAN : poll_resolves(ok) \/ poll_restarts(ok)
        \/ \E n \in Names : zc_browse_callback(n)

Spec == Init /\ [][Next]_vars

\* The client polls, time passes, and the server reports what it knows; an answer
\* comes within a second of the request at least now and then.
Fairness == /\ WF_vars(TimePasses)
            /\ WF_vars(poll_resolves(TRUE)) /\ WF_vars(poll_restarts(TRUE))
            /\ \A n \in Names : WF_vars(zc_browse_callback(n))
            /\ WF_vars(zc_resolve_callback)
            /\ SF_vars(active_service \in Hosts /\ zc_resolve_callback)

-----------------------------------------------------------------------------
(* Properties.                                                             *)

\* A client has at most one connection, and once it has one there is no request
\* or browser left that could make another.
OneHost ==
    /\ opened = IF tcp_sock THEN 1 ELSE 0
    /\ tcp_sock => ~browse_ref /\ ~resolve_ref /\ pending_services = << >>

\* If a host stays up, the client is connected again and again, whatever failed
\* before.
FindsHost == <>[]hostup => []<>tcp_sock
=============================================================================
