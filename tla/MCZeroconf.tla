----------------------------- MODULE MCZeroconf -----------------------------
(***************************************************************************)
(* Zeroconf discovery for model checking: the two implementations in O2    *)
(* and the two in o2lite.  A build has one of them, chosen in the initial  *)
(* state.  MCDiscovery runs these instances beside broadcast discovery.    *)
(***************************************************************************)
EXTENDS Integers, Sequences
VARIABLES build,
          version, browsed, resolve_pending, resolve_info, watchdog_seq, dogs,
          resolving, errors, restarts, found,
          zc_running, zc_poll, zc_client, zc_sb, zc_group, zc_http_group, zc_name,
          zc_http_name, zc_http_port, started, server, told, events, published, failed,
          tcp_sock, opened, browse_ref, news, pending_services, active_service,
          resolve_ref, resolve_late, browse_late, hostup, faults,
          tcp, conns, running, zc_objects, zc_inside_poll, zc_shutdown_request,
          late, unseen, resolvers, up, daemon, failures

bonjourVars == <<version, browsed, resolve_pending, resolve_info, watchdog_seq,
                 dogs, resolving, errors, restarts, found>>
avahiVars == <<zc_running, zc_poll, zc_client, zc_sb, zc_group, zc_http_group,
               zc_name, zc_http_name, zc_http_port, started, server, told, events,
               published, failed>>
liteBonjourVars == <<tcp_sock, opened, browse_ref, news, pending_services,
                     active_service, resolve_ref, resolve_late, browse_late,
                     hostup, faults>>
liteAvahiVars == <<tcp, conns, running, zc_objects, zc_inside_poll,
                   zc_shutdown_request, late, unseen, resolvers, up, daemon,
                   failures>>
zeroconfVars == <<build, bonjourVars, avahiVars, liteBonjourVars, liteAvahiVars>>

Bonjour == INSTANCE Zcdisc WITH
    Names <- {"n", "m", "bad"}, Named <- {"n", "m"}, Valid <- {"n"},
    MaxVersion <- [n |-> 2, m |-> 1, bad |-> 1],
    MaxRestart <- 1, MaxDog <- 3, MaxSeq <- 1

AvahiBuild == INSTANCE Avahi WITH MaxName <- 3, MaxEvents <- 4, known <- published

LiteBonjourBuild == INSTANCE LiteBonjour WITH
    Names <- {"host", "ghost", "other"}, Hosts <- {"host"}, Silent <- {"ghost"},
    MaxEvents <- 3, events <- faults

LiteAvahiBuild == INSTANCE LiteAvahi WITH
    Names <- {"host", "peer", "other"}, Hosts <- {"host", "peer"}, MaxEvents <- 2,
    zc_running <- running

Builds == {"bonjour", "avahi", "lite bonjour", "lite avahi"}

\* A client of o2lite that was not built stands as one that has its connection:
\* nothing is left to be done, so its fairness asks for nothing.
ZeroconfInit ==
    /\ build \in Builds \cup {"none"}
    /\ Bonjour!Init /\ AvahiBuild!Init
    /\ IF build = "lite bonjour" THEN LiteBonjourBuild!Init
       ELSE /\ tcp_sock = TRUE /\ opened = 1 /\ hostup = TRUE /\ faults = 0
            /\ browse_ref = FALSE /\ resolve_ref = FALSE
            /\ resolve_late = TRUE /\ browse_late = TRUE
            /\ news = {} /\ pending_services = << >> /\ active_service = "none"
    /\ IF build = "lite avahi" THEN LiteAvahiBuild!Init
       ELSE /\ tcp = TRUE /\ conns = 1 /\ up = TRUE /\ daemon = TRUE
            /\ failures = 0 /\ late = TRUE /\ running = FALSE /\ zc_objects = FALSE
            /\ zc_inside_poll = FALSE /\ zc_shutdown_request = FALSE
            /\ unseen = {} /\ resolvers = {}

BonjourNext == /\ build = "bonjour" /\ Bonjour!Next
               /\ UNCHANGED <<build, avahiVars, liteBonjourVars, liteAvahiVars>>
AvahiNext == /\ build = "avahi" /\ AvahiBuild!Next
             /\ UNCHANGED <<build, bonjourVars, liteBonjourVars, liteAvahiVars>>
LiteBonjourNext == /\ build = "lite bonjour" /\ LiteBonjourBuild!Next
                   /\ UNCHANGED <<build, bonjourVars, avahiVars, liteAvahiVars>>
LiteAvahiNext == /\ build = "lite avahi" /\ LiteAvahiBuild!Next
                 /\ UNCHANGED <<build, bonjourVars, avahiVars, liteBonjourVars>>

ZeroconfNext == BonjourNext \/ AvahiNext \/ LiteBonjourNext \/ LiteAvahiNext

\* With Bonjour, a record published by a process is known or still going to be asked
\* for, also when it changed while zc_resolve_callback got an older answer; as long as
\* something is to be resolved the newest watchdog runs, and the context of
\* DNSServiceResolve is not freed while its callback may come.
RecordsFollowed == /\ Bonjour!TypeOK /\ Bonjour!NoStaleRecord
                   /\ Bonjour!AlwaysWatched /\ Bonjour!ContextOwned

\* What leads to an object of Avahi is cleared with it, and under a server that runs
\* this process is published unless its last attempt failed; callbacks of an o2lite
\* client free nothing that Avahi works with, and one that uses Bonjour stops to look
\* for hosts when it has one.
HandlesValid == /\ AvahiBuild!NoDangling /\ AvahiBuild!Published
                /\ LiteBonjourBuild!OneHost /\ LiteAvahiBuild!NotFreedInside

\* An o2lite client connects again as long as there is a host, whatever failed.
FindsHost == LiteBonjourBuild!FindsHost /\ LiteAvahiBuild!FindsHost
=============================================================================
