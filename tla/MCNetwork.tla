----------------------------- MODULE MCNetwork -----------------------------
(* One connection made by this process and one made by a peer.  All of the *)
(* MaxEvents events happen where write_type reads as WRITE_O2, all but one *)
(* where it reads as WRITE_CUSTOM for a socket.                            *)
EXTENDS Network

CONSTANTS a, b

MCClients == {a}
MCAccepts == {b}

MCNext == Next /\ (MayHappen' \/ \A i \in Tcp : info'[i].write_type = "WRITE_O2")

MCSpec == Init /\ [][MCNext]_vars
=============================================================================
