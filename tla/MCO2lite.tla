------------------------------ MODULE MCO2lite ------------------------------
(***************************************************************************)
(* The o2lite session for model checking: two clients, one of whose        *)
(* services is offered by the other too.                                   *)
(***************************************************************************)
EXTENDS O2lite

MCWanted == [a |-> <<"x", "y">>, b |-> <<"y">>]
=============================================================================
