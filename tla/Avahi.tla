------------------------------- MODULE Avahi -------------------------------
(***************************************************************************)
(* Discovery with the Avahi client library, from section 2 of              *)
(* src/src/o2zcdisc.cpp: the objects O2 owns (poll, client, browser, entry *)
(* groups, names), and the callbacks Avahi makes from avahi_client_new and *)
(* avahi_simple_poll_iterate.  The Avahi server is external.               *)
(***************************************************************************)
EXTENDS Integers, FiniteSets

CONSTANTS MaxName,   \* bound: alternatives of the service name
          MaxEvents  \* bound: changes of the server

VARIABLES zc_running, zc_poll, zc_client, zc_sb,  \* BOOLEAN: set or NULL
          zc_group,       \* "none", "empty", "filled" (but not committed),
          zc_http_group,  \* "committed" or "collided"
          zc_name,        \* which alternative of the name, or 0
          zc_http_name,
          zc_http_port,   \* BOOLEAN: a port was given
          started,        \* O2 is initialized
          server,         \* "running", "registering" or "down"
          told,           \* what the client callback was last told of it
          events,
          known,          \* processes discovered
          failed          \* history: the last zc_create_services did not publish

vars == <<zc_running, zc_poll, zc_client, zc_sb, zc_group, zc_http_group, zc_name,
          zc_http_name, zc_http_port, started, server, told, events, known, failed>>

objects == <<zc_running, zc_poll, zc_client, zc_sb>>
http == <<zc_http_group, zc_http_name, zc_http_port>>

Init ==
    /\ zc_running = FALSE /\ zc_poll = FALSE /\ zc_client = FALSE
    /\ zc_sb = FALSE /\ started = FALSE
    /\ zc_group = "none" /\ zc_http_group = "none"
    /\ zc_name = 0 /\ zc_http_name = 0 /\ zc_http_port = FALSE
    /\ server = "running" /\ told = "none" /\ events = 0 /\ known = FALSE
    /\ failed = FALSE

\* Mutant: the entry groups keep their pointers.
finish_keeps_groups ==
    /\ UNCHANGED <<zc_group, zc_http_group>> /\ zc_http_port' = FALSE
    /\ zc_sb' = FALSE /\ zc_client' = FALSE /\ zc_poll' = FALSE
    /\ zc_name' = 0 /\ zc_http_name' = 0 /\ zc_running' = FALSE /\ failed' = FALSE

o2_zcdisc_finish ==
    /\ zc_group' = "none" /\ zc_http_group' = "none" /\ zc_http_port' = FALSE
    /\ zc_sb' = FALSE /\ zc_client' = FALSE /\ zc_poll' = FALSE
    /\ zc_name' = 0 /\ zc_http_name' = 0 /\ zc_running' = FALSE /\ failed' = FALSE

\* Names a service may end up with: the one it has, or one after collisions.
Alternatives(name) == name..MaxName

\* Group and name after zc_commit_group.  The group is made if there is none; if it
\* is empty it is filled, under an alternative name if the name collides with a local
\* one, and committed.  Each of the three calls may fail and leaves what was done
\* before it; a group with entries, committed or not, is left alone.  Avahi calls a
\* group empty when its entries were withdrawn after a collision.
zc_commit_group(group, name) ==
    IF group \in {"filled", "committed"} THEN {<<group, name>>}
    ELSE ({"empty", "filled", "committed"} \X Alternatives(name))
         \union (({group} \intersect {"none"}) \X {name})

\* Nobody looks at the result of zc_create_services.
zc_create_services(name) ==
    \E new \in zc_commit_group(zc_group, name) :
        zc_group' = new[1] /\ zc_name' = new[2] /\ failed' = (new[1] # "committed")

\* http_group' and http_name' after o2_zc_register_record in a running client.
RegisterRecord ==
    \E new \in zc_commit_group(zc_http_group, 1) :
        zc_http_group' = new[1] /\ zc_http_name' = new[2]

o2_zc_register_record ==
    /\ ~zc_http_port
    /\ zc_http_port' = TRUE
    /\ IF zc_running THEN RegisterRecord
       ELSE UNCHANGED <<zc_http_group, zc_http_name>>
    /\ UNCHANGED <<objects, zc_group, zc_name, started, server, told, events,
                   known, failed>>

\* The poll object, the client (always without a server) or the browser cannot be
\* made, or avahi_client_new calls zc_client_callback before it returns.
o2_zcdisc_initialize ==
    /\ ~started /\ started' = TRUE
    /\ \/ o2_zcdisc_finish /\ UNCHANGED told
       \/ /\ server # "down"
          /\ zc_running' = TRUE /\ zc_poll' = TRUE
          /\ zc_client' = TRUE /\ zc_sb' = TRUE
          /\ told' = server
          /\ IF server = "running" THEN zc_create_services(1)
             ELSE zc_name' = 1 /\ UNCHANGED <<zc_group, failed>>
          /\ IF zc_http_port THEN RegisterRecord
             ELSE UNCHANGED <<zc_http_group, zc_http_name>>
          /\ UNCHANGED zc_http_port
    /\ UNCHANGED <<server, events, known>>

Polled == zc_poll /\ zc_running

\* zc_client_callback from avahi_simple_poll_iterate.  S_COLLISION and
\* S_REGISTERING do the same.
zc_client_callback ==
    /\ Polled /\ told # server
    /\ told' = server
    /\ CASE server = "running" ->
              zc_create_services(zc_name) /\ UNCHANGED <<objects, http>>
         [] server = "registering" ->
              /\ zc_group' = IF zc_group = "none" THEN "none" ELSE "empty"
              /\ UNCHANGED <<objects, http, zc_name, failed>>
         [] server = "down" -> o2_zcdisc_finish
    /\ UNCHANGED <<started, server, events, known>>

\* A collision with a remote service, found after the commit.  Whatever group it
\* is about, zc_name is changed and zc_create_services is called.
entry_group_collision(isHttp) ==
    /\ Polled /\ told = "running" /\ events < MaxEvents /\ zc_name < MaxName
    /\ (IF isHttp THEN zc_http_group ELSE zc_group) = "committed"
    /\ events' = events + 1
    /\ IF isHttp
       THEN zc_http_group' = "collided" /\ zc_create_services(zc_name + 1)
       ELSE /\ UNCHANGED zc_http_group
            /\ \E new \in zc_commit_group("collided", zc_name + 1) :
                  /\ zc_group' = new[1] /\ zc_name' = new[2]
                  /\ failed' = (new[1] # "committed")
    /\ UNCHANGED <<objects, zc_http_name, zc_http_port, started, server, told,
                   known>>

\* AVAHI_ENTRY_GROUP_FAILURE or AVAHI_BROWSER_FAILURE.
Failure ==
    /\ Polled /\ events < MaxEvents
    /\ events' = events + 1
    /\ o2_zcdisc_finish
    /\ UNCHANGED <<started, server, told, known>>

\* zc_browse_callback makes a resolver, whose zc_resolve_callback finds the
\* record of a process.
zc_resolve_callback ==
    /\ Polled /\ zc_sb /\ ~known
    /\ known' = TRUE
    /\ UNCHANGED <<objects, zc_group, zc_name, http, started, server, told, events,
                   failed>>

\* avahi_simple_poll_iterate fails or is told to quit.
o2_poll_avahi ==
    /\ Polled /\ events < MaxEvents
    /\ events' = events + 1
    /\ zc_running' = FALSE
    /\ UNCHANGED <<zc_poll, zc_client, zc_sb, zc_group, zc_name, http, started, server,
                   told, known, failed>>

o2_finish ==
    /\ started /\ started' = FALSE
    /\ o2_zcdisc_finish /\ known' = FALSE
    /\ UNCHANGED <<server, told, events>>

\* The Avahi server registers its host name again, or is restarted.
ServerChanges ==
    /\ events < MaxEvents
    /\ events' = events + 1
    /\ server' \in {"running", "registering", "down"} \ {server}
    /\ UNCHANGED <<objects, zc_group, zc_name, http, started, told, known, failed>>

Next == \/ o2_zcdisc_initialize \/ o2_zc_register_record \/ zc_client_callback
        \/ entry_group_collision(TRUE) \/ entry_group_collision(FALSE)
        \/ Failure \/ zc_resolve_callback \/ o2_poll_avahi \/ o2_finish
        \/ ServerChanges

Spec == Init /\ [][Next]_vars

-----------------------------------------------------------------------------
(* Properties.                                                             *)

\* The pointers to objects of Avahi follow their owner: groups and browser are
\* only set while the client is, the client only with the poll, whichever
\* callback, failure or shutdown came in between.
NoDangling ==
    /\ zc_running => zc_poll /\ zc_client
    /\ zc_sb => zc_client
    /\ zc_client => zc_poll /\ zc_name # 0
    /\ zc_group # "none" \/ zc_http_group # "none" => zc_client
    /\ zc_http_group # "none" => zc_http_name # 0

\* Once the client was told that the server runs, this process is published under
\* its ensemble name or an alternative, also after the server registered its host
\* again, after collisions and when an earlier attempt had failed: unless the last
\* attempt itself failed, of which nobody is told (o2zcdisc.cpp:825).
Published == zc_running /\ told = "running" /\ ~failed => zc_group = "committed"
=============================================================================
