------------------------------ MODULE Startup ------------------------------
(***************************************************************************)
(* Starting and stopping O2: the phases of o2_initialize and o2_finish in  *)
(* o2.cpp, and the STUN protocol of stun.cpp on which the second phase     *)
(* waits.  The STUN server is external: it may answer any query, or not.   *)
(***************************************************************************)
EXTENDS Integers

CONSTANTS
    MaxRuns,       \* bound on calls of o2_initialize
    MaxEnables     \* bound on calls of o2_mqtt_enable while O2 runs

VARIABLES
    network_enabled, internet_enabled,   \* o2n_network_enabled, o2n_internet_enabled
    o2_ensemble_name,   \* O2 is running
    o2n_public_ip,      \* "" while unknown, "00000000" for none, "ip"
    proc,               \* o2_ctx->proc: "null", "unnamed" or its name
    stun_info,          \* the socket of the STUN client is open
    stun_try_count, o2_stun_query_running,
    ipq,                \* number of !_o2/ipq messages scheduled
    queries,            \* queries that may still be answered
    phase2,             \* calls of o2_init_phase2 since o2_initialize
    waiting,            \* o2_mqtt_waiting_for_public_ip
    mqtt,               \* calls of o2_mqtt_initialize that went through
    hub,                \* hub_needs_public_ip
    runs,               \* calls of o2_initialize
    enables             \* calls of o2_mqtt_enable since then

vars == <<network_enabled, internet_enabled, o2_ensemble_name, o2n_public_ip, proc,
          stun_info, stun_try_count, o2_stun_query_running, ipq, queries, phase2,
          waiting, mqtt, hub, runs, enables>>
config == <<network_enabled, internet_enabled>>

MaxTries == 5

Init ==
    /\ network_enabled \in BOOLEAN
    /\ internet_enabled = TRUE
    /\ o2_ensemble_name = FALSE
    /\ o2n_public_ip = ""
    /\ proc = "null"
    /\ stun_info = FALSE
    /\ stun_try_count = 0 /\ o2_stun_query_running = FALSE
    /\ ipq = 0 /\ queries = 0 /\ phase2 = 0
    /\ waiting = FALSE /\ mqtt = 0 /\ hub = FALSE
    /\ runs = 0 /\ enables = 0

\* o2_internet_enable, refused while O2 runs.
o2_internet_enable(enable) ==
    /\ ~o2_ensemble_name
    /\ enable => network_enabled
    /\ internet_enabled' = enable
    /\ UNCHANGED <<network_enabled, o2_ensemble_name, o2n_public_ip, proc, stun_info,
                   stun_try_count, o2_stun_query_running, ipq, queries, phase2,
                   waiting, mqtt, hub, runs, enables>>

\* o2_mqtt_initialize as a function of the address: it waits without one.  Nothing
\* tells it that MQTT runs already.
o2_mqtt_initialize(ip) ==
    IF internet_enabled
    THEN /\ waiting' = (waiting \/ ip = "")
         /\ mqtt' = IF ip = "" THEN mqtt ELSE mqtt + 1
    ELSE UNCHANGED <<waiting, mqtt>>

\* o2_processes_initialize gives the process its name, o2_discovery_init_phase2
\* installs the handlers and calls the hub, and MQTT starts if it waited, in this
\* run of O2 or in an earlier one: o2_mqtt_waiting_for_public_ip is never reset.
o2_init_phase2(ip) ==
    /\ o2n_public_ip' = ip
    /\ proc' = ip
    /\ phase2' = phase2 + 1
    /\ hub' = FALSE
    /\ IF waiting THEN o2_mqtt_initialize(ip) ELSE UNCHANGED <<waiting, mqtt>>

\* Phase 1: o2n_initialize, o2_discovery_initialize, then o2_get_public_ip or,
\* where there can be no public address, phase 2 at once.
o2_initialize ==
    /\ ~o2_ensemble_name /\ runs < MaxRuns
    /\ runs' = runs + 1
    /\ o2_ensemble_name' = TRUE
    /\ UNCHANGED <<config, enables>>
    /\ IF ~network_enabled \/ ~internet_enabled
       THEN /\ o2_init_phase2("00000000")
            /\ o2_stun_query_running' = FALSE
            /\ UNCHANGED <<stun_info, stun_try_count, ipq, queries>>
       ELSE /\ o2n_public_ip' = ""
            /\ proc' = "unnamed"
            /\ stun_info' = TRUE
            /\ stun_try_count' = 1
            /\ o2_stun_query_running' = TRUE
            /\ ipq' = 1 /\ queries' = queries + 1
            /\ UNCHANGED <<phase2, waiting, mqtt, hub>>

\* The handler of !_o2/ipq, every 2 seconds.
o2_stun_query ==
    /\ ipq > 0
    /\ \/ /\ o2n_public_ip # ""
          /\ o2_stun_query_running' = FALSE
          /\ ipq' = ipq - 1
          /\ UNCHANGED <<o2n_public_ip, proc, phase2, waiting, mqtt, hub, queries,
                         stun_try_count>>
       \/ /\ o2n_public_ip = "" /\ stun_try_count >= MaxTries
          /\ o2_init_phase2("00000000")
          /\ o2_stun_query_running' = FALSE
          /\ ipq' = ipq - 1
          /\ UNCHANGED <<queries, stun_try_count>>
       \/ /\ o2n_public_ip = "" /\ stun_try_count < MaxTries
          /\ queries' = queries + 1
          /\ stun_try_count' = stun_try_count + 1
          /\ UNCHANGED <<o2_stun_query_running, ipq, o2n_public_ip, proc, phase2,
                         waiting, mqtt, hub>>
    /\ UNCHANGED <<config, o2_ensemble_name, stun_info, runs, enables>>


\* Stun_info::deliver: the address, then the socket is closed.
Stun_info_deliver ==
    /\ queries > 0 /\ stun_info
    /\ queries' = queries - 1
    /\ stun_info' = FALSE
    /\ o2_init_phase2("ip")
    /\ UNCHANGED <<config, o2_ensemble_name, stun_try_count, o2_stun_query_running,
                   ipq, runs, enables>>

\* A query or its answer is lost, or the answer finds the socket closed.
Lose ==
    /\ queries > 0
    /\ queries' = queries - 1
    /\ UNCHANGED <<config, o2_ensemble_name, o2n_public_ip, proc, stun_info,
                   stun_try_count, o2_stun_query_running, ipq, phase2, waiting,
                   mqtt, hub, runs, enables>>

o2_mqtt_enable ==
    /\ o2_ensemble_name /\ enables < MaxEnables
    /\ enables' = enables + 1
    /\ o2_mqtt_initialize(o2n_public_ip)
    /\ UNCHANGED <<config, o2_ensemble_name, o2n_public_ip, proc, stun_info,
                   stun_try_count, o2_stun_query_running, ipq, queries, phase2, hub,
                   runs>>

\* o2_hub before the name is known: the hub is called in phase 2.
o2_hub ==
    /\ o2_ensemble_name /\ ~hub /\ o2n_public_ip = ""
    /\ hub' = TRUE
    /\ UNCHANGED <<config, o2_ensemble_name, o2n_public_ip, proc, stun_info,
                   stun_try_count, o2_stun_query_running, ipq, queries, phase2,
                   waiting, mqtt, runs, enables>>

\* Sockets are closed, scheduled messages freed, and the process deleted; the
\* public address and the wish for MQTT stay as they are.
o2_finish ==
    /\ o2_ensemble_name
    /\ o2_ensemble_name' = FALSE
    /\ proc' = "null"
    /\ stun_info' = FALSE
    /\ ipq' = 0 /\ phase2' = 0 /\ mqtt' = 0 /\ hub' = FALSE /\ enables' = 0
    /\ UNCHANGED <<config, o2n_public_ip, stun_try_count, o2_stun_query_running,
                   queries, waiting, runs>>

Next == \/ \E enable \in BOOLEAN : o2_internet_enable(enable)
        \/ o2_initialize \/ o2_stun_query
        \/ Stun_info_deliver \/ Lose \/ o2_mqtt_enable \/ o2_hub \/ o2_finish
        \/ runs = MaxRuns /\ UNCHANGED vars

\* o2_poll is called: the scheduler runs, and a datagram arrives or not.
Fairness == WF_vars(o2_stun_query) /\ WF_vars(Lose)

Spec == Init /\ [][Next]_vars

-----------------------------------------------------------------------------
(* Properties *)

TypeOK ==
    /\ o2n_public_ip \in {"", "00000000", "ip"}
    /\ proc \in {"null", "unnamed", "00000000", "ip"}
    /\ stun_try_count \in 0 .. MaxTries /\ ipq \in 0 .. 1 /\ runs \in 0 .. MaxRuns

\* An answer that came after the fifth try had given up (stun.cpp:46): the socket
\* was still open, and is closed now.
LateAnswer == stun_try_count = MaxTries /\ ~stun_info /\ o2n_public_ip = "ip"

\* With five queries under way, several answers, the retries and the giving up,
\* phase 2 runs once, twice only for a late answer; and whatever the order, the name
\* is always the one of the public address that o2_get_addresses reports.
NamedOnce ==
    /\ phase2 = 1 \/ phase2 = 2 => proc = o2n_public_ip
    /\ phase2 <= (IF LateAnswer THEN 2 ELSE 1)
    /\ o2_ensemble_name /\ phase2 = 0 => proc = "unnamed" /\ o2n_public_ip = ""

\* MQTT never starts before the process has the name it subscribes with, and a
\* hub that was asked for earlier has been called by then.
NameFirst == mqtt > 0 => proc \notin {"null", "unnamed"} /\ ~hub

\* A call of o2_mqtt_enable starts MQTT once, at the latest when the process has its
\* name.  Each phase 2 beyond the first, and each in a later run of O2 than the one
\* that waited, starts it once more (mqtt.cpp:31, o2.cpp:1106).
EnableCounts ==
    /\ enables > 0 /\ phase2 > 0 /\ internet_enabled => mqtt > 0
    /\ mqtt <= enables + (IF runs > 1 /\ waiting THEN phase2
                          ELSE IF phase2 > 1 THEN 1 ELSE 0)

\* Initialization comes to an end although no STUN server may ever answer.
NamedEventually == []<>(~o2_ensemble_name \/ phase2 > 0)
=============================================================================
