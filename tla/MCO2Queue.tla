----------------------------- MODULE MCO2Queue -----------------------------
(* An instance of O2Queue for TLC. *)
EXTENDS O2Queue

CONSTANTS n1, n2, t1, t2

TwoNodes == {n1, n2}
TwoThreads == {t1, t2}
=============================================================================
