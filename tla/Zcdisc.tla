------------------------------- MODULE Zcdisc ------------------------------
(***************************************************************************)
(* Discovery by Bonjour in one process, from section 1 of                  *)
(* src/src/o2zcdisc.cpp: names that were browsed wait in resolve_pending,  *)
(* one DNSServiceResolve at a time asks for the record of a name, and a    *)
(* watchdog ends requests that are not answered.                           *)
(***************************************************************************)
EXTENDS Integers, Sequences, FiniteSets, SequencesExt

CONSTANTS Names,       \* service names with the ensemble name as prefix
          Named,       \* those whose TXT record has a name of the right length
          Valid,       \* those that name an O2 process of a known version
          MaxVersion,  \* bound: times the record of each name is published
          MaxRestart,  \* bound: times O2 is finished and initialized again
          MaxDog,      \* bound: watchdogs set
          MaxSeq       \* bound: failed calls of DNSServiceResolve

VARIABLES version,          \* of each record, as published on the network
          browsed,          \* browse events that were not handled yet
          resolve_pending,  \* names with their flag unresolved
          resolve_info,     \* the open request: name and answer, or NoRequest
          watchdog_seq,
          dogs,             \* watchdog messages in the local scheduler
          resolving,        \* in the loop of resolve()
          errors,           \* failed calls so far
          restarts,
          found             \* version with which each process was discovered

vars == <<version, browsed, resolve_pending, resolve_info, watchdog_seq, dogs,
          resolving, errors, restarts, found>>

NoRequest == [name |-> "none", answer |-> 0]

Init == /\ version = [n \in Names |-> 0] /\ browsed = {}
        /\ resolve_pending = << >> /\ resolve_info = NoRequest
        /\ watchdog_seq = 0 /\ dogs = {}
        /\ resolving = FALSE /\ errors = 0 /\ restarts = 0
        /\ found = [n \in Names |-> 0]

\* A process registers, or registers again with a new record.
Publish(n) ==
    /\ version[n] < MaxVersion[n]
    /\ version' = [version EXCEPT ![n] = @ + 1]
    /\ browsed' = browsed \cup {n}
    /\ UNCHANGED <<resolve_pending, resolve_info, watchdog_seq, dogs, resolving,
                   errors, restarts, found>>

\* The answer is made when the server gets to it.
Answer ==
    /\ resolve_info.name # "none" /\ resolve_info.answer = 0
    /\ resolve_info' = [resolve_info EXCEPT !.answer =
                                                 version[resolve_info.name]]
    /\ UNCHANGED <<version, browsed, resolve_pending, watchdog_seq, dogs,
                   resolving, errors, restarts, found>>

Index(n) == SelectInSeq(resolve_pending, LAMBDA rt : rt.name = n)

zc_browse_callback(n) ==
    /\ ~resolving /\ n \in browsed
    /\ browsed' = browsed \ {n}
    /\ IF Index(n) # 0
       THEN /\ resolve_pending' =
                  [resolve_pending EXCEPT ![Index(n)].unresolved = TRUE]
            /\ UNCHANGED resolving
       ELSE /\ resolve_pending' = Append(resolve_pending,
                                         [name |-> n, unresolved |-> TRUE])
            /\ resolving' = TRUE
    /\ UNCHANGED <<version, resolve_info, watchdog_seq, dogs, errors, restarts,
                   found>>

set_watchdog_timer(ok) ==
    /\ watchdog_seq' = watchdog_seq + 1
    /\ dogs' = dogs \cup {watchdog_seq + 1}

\* One turn of the loop of resolve(), in which DNSServiceResolve succeeds or
\* fails.  After a failure the loop goes on.
resolve(ok) ==
    LET rt == [Last(resolve_pending) EXCEPT !.unresolved = FALSE]
    IN /\ resolving /\ resolve_info = NoRequest /\ resolve_pending # << >>
       /\ watchdog_seq < MaxDog /\ (~ok => errors < MaxSeq)
       /\ resolve_info' = IF ok THEN [name |-> rt.name, answer |-> 0]
                          ELSE NoRequest
       /\ errors' = IF ok THEN errors ELSE errors + 1
       /\ resolve_pending' = <<rt>> \o Front(resolve_pending)
       /\ set_watchdog_timer(ok)
       /\ UNCHANGED <<version, browsed, resolving, restarts, found>>

resolve_returns ==
    /\ resolving
    /\ resolve_info # NoRequest \/ resolve_pending = << >>
    /\ resolving' = FALSE
    /\ UNCHANGED <<version, browsed, resolve_pending, resolve_info, watchdog_seq,
                   dogs, errors, restarts, found>>

\* Mutant: the name is done in any case.
DoneAnyway(n) == IF Index(n) = 0 THEN resolve_pending
                 ELSE RemoveAt(resolve_pending, Index(n))

\* The record was read: the name is done, unless it was browsed again meanwhile.
Done(n) ==
    LET i == Index(n)
        rest == RemoveAt(resolve_pending, i)
    IN IF i = 0 THEN resolve_pending
       ELSE IF resolve_pending[i].unresolved
       THEN <<resolve_pending[i]>> \o rest ELSE rest

\* The name of the record has the form of a process name and its port.
is_valid_proc_name(n) == n \in Valid

\* A record without a name leaves the name pending, to be asked for again.
zc_resolve_callback(n) ==
    /\ ~resolving /\ resolve_info.name = n /\ resolve_info.answer # 0
    /\ resolve_pending' = IF n \in Named THEN Done(n) ELSE resolve_pending
    /\ found' = IF is_valid_proc_name(n)
                THEN [found EXCEPT ![n] = resolve_info.answer]
                ELSE found
    /\ resolve_info' = NoRequest
    /\ resolving' = TRUE
    /\ UNCHANGED <<version, browsed, watchdog_seq, dogs, errors, restarts>>

\* The server closes the socket: ~Bonjour_info gives up the lock.
Hangup ==
    /\ ~resolving /\ resolve_info # NoRequest
    /\ resolve_info' = NoRequest
    /\ UNCHANGED <<version, browsed, resolve_pending, watchdog_seq, dogs,
                   resolving, errors, restarts, found>>

resolve_watchdog(d) ==
    /\ ~resolving /\ d \in dogs
    /\ dogs' = dogs \ {d}
    /\ IF d # watchdog_seq THEN UNCHANGED <<resolve_info, resolving>>
       ELSE resolve_info' = NoRequest /\ resolving' = TRUE
    /\ UNCHANGED <<version, browsed, resolve_pending, watchdog_seq, errors,
                   restarts, found>>

\* The names are freed and the sockets closed, which ends the request.
o2_zcdisc_finish ==
    /\ resolve_pending' = << >> /\ resolve_info' = NoRequest

\* o2_finish and o2_initialize: the schedulers are emptied, nothing is known of
\* other processes, and a new browser reports every service again.
Reinitialize ==
    /\ ~resolving /\ restarts < MaxRestart
    /\ restarts' = restarts + 1
    /\ o2_zcdisc_finish
    /\ dogs' = {}
    /\ browsed' = {n \in Names : version[n] > 0}
    /\ found' = [n \in Names |-> 0]
    /\ UNCHANGED <<version, watchdog_seq, resolving, errors>>

Next == \/ \E n \in Names : \/ Publish(n) \/ zc_browse_callback(n)
                            \/ zc_resolve_callback(n)
        \/ Reinitialize \/ Answer \/ Hangup \/ resolve_returns
        \/ resolve(TRUE) \/ resolve(FALSE)
        \/ \E d \in dogs : resolve_watchdog(d)

Spec == Init /\ [][Next]_vars

-----------------------------------------------------------------------------
(* Properties.                                                             *)

TypeOK ==
    /\ \A n \in Names : version[n] \in 0..MaxVersion[n] /\ found[n] \in 0..version[n]
    /\ browsed \subseteq Names
    /\ \A i \in DOMAIN resolve_pending : resolve_pending[i].name \in Names
    /\ watchdog_seq \in 0..MaxDog /\ dogs \subseteq 1..watchdog_seq
    /\ resolving \in BOOLEAN /\ errors \in 0..MaxSeq

\* A record that was published and is not the one a process was discovered with
\* is still going to be asked for, also when it changed while an older answer was
\* on its way.
NoStaleRecord ==
    \A n \in Valid : found[n] # version[n] => n \in browsed \/ Index(n) # 0

\* While names are waiting, a watchdog that is not superseded is set, so that a
\* request that fails, is closed or is never answered is followed by another one.
AlwaysWatched ==
    resolve_pending # << >> /\ ~resolving => watchdog_seq \in dogs

\* The name that DNSServiceResolve got as its context is owned by an entry of
\* resolve_pending as long as the callback may use it.
ContextOwned == resolve_info # NoRequest => Index(resolve_info.name) # 0
=============================================================================
