------------------------------- MODULE Stack -------------------------------
(***************************************************************************)
(* What an O2queue (src/src/o2atomic.h) promises its callers: a stack of   *)
(* list elements shared by several threads, in which push, pop and grab    *)
(* each take effect at one instant and an element always has exactly one   *)
(* owner: the stack, the thread that holds it, or the thread that grabbed  *)
(* the list it is on.                                                      *)
(***************************************************************************)
EXTENDS Sequences

CONSTANTS Nodes,      \* the list elements
          Threads     \* the threads that share the queue

VARIABLES stk,        \* the elements in the queue, last pushed first
          held,       \* held[t]: the elements thread t owns
          rest        \* rest[t]: what t still has to visit of a list it grabbed

vars == <<stk, held, rest>>

Init ==
    /\ stk = << >>
    /\ held \in [Threads -> SUBSET Nodes]
    /\ \A s, t \in Threads : s # t => held[s] \cap held[t] = {}
    /\ rest = [t \in Threads |-> << >>]

Push(t, e) ==
    /\ e \in held[t]
    /\ stk' = <<e>> \o stk
    /\ held' = [held EXCEPT ![t] = @ \ {e}]
    /\ UNCHANGED rest

Pop(t) ==
    /\ stk # << >>
    /\ held' = [held EXCEPT ![t] = @ \cup {Head(stk)}]
    /\ stk' = Tail(stk)
    /\ UNCHANGED rest

Grab(t) ==
    /\ stk # << >>
    /\ rest' = [rest EXCEPT ![t] = stk]
    /\ stk' = << >>
    /\ UNCHANGED held

\* The grabbing thread takes the next element of its private list.
Visit(t) ==
    /\ rest[t] # << >>
    /\ held' = [held EXCEPT ![t] = @ \cup {Head(rest[t])}]
    /\ rest' = [rest EXCEPT ![t] = Tail(@)]
    /\ UNCHANGED stk

Next ==
    \E t \in Threads :
        \/ \E e \in Nodes : Push(t, e)
        \/ Pop(t)
        \/ Grab(t)
        \/ Visit(t)

Spec == Init /\ [][Next]_vars
=============================================================================
