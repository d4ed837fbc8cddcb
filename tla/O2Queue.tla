------------------------------ MODULE O2Queue ------------------------------
(***************************************************************************)
(* The lock-free list of src/src/o2atomic.cpp (Linux and macOS branch).    *)
(* Every read or write of memory another thread can reach is one action,   *)
(* so the actions of the threads interleave exactly where the hardware     *)
(* may interleave them: the load of queue_head, the read of ->next of the  *)
(* element that was first when it was loaded (which another thread may     *)
(* have popped, reused or freed by then), the write of ->next by push, and *)
(* the double-width compare and exchange, whose "weak" form may fail even  *)
(* when the comparison succeeds.                                           *)
(*                                                                         *)
(* stk and rest are history variables: no action reads them.               *)
(***************************************************************************)
EXTENDS Naturals, Sequences

CONSTANTS Nodes, Threads, NULL,
          MaxAba      \* bound: no operation starts once aba reached MaxAba

ASSUME NullAssumption == NULL \notin Nodes
ASSUME MaxAbaAssumption == MaxAba \in Nat

VARIABLES head,       \* queue_head: the pair [aba, first]
          next,       \* next[e]: the link word of element e
          pc,         \* where each thread is in pop, push, grab or free
          orig,       \* orig[t]: its orig_head (orig_src in grab)
          newh,       \* newh[t]: its next_head (next_src)
          elem,       \* elem[t]: push's argument
          cur,        \* cur[t]: the list it grabbed ("all" in free)
          held,       \* held[t]: the elements it owns
          stk, rest   \* history: see Stack

vars == <<head, next, pc, orig, newh, elem, cur, held, stk, rest>>

Ptr == Nodes \cup {NULL}
Head0 == [aba |-> 0, first |-> NULL]

\* O2queue::clear: O2_QUEUE_INIT is {0, NULL}.  Elements are created and
\* owned by the threads; a link word has no particular value yet.
Init ==
    /\ head = Head0
    /\ next \in [Nodes -> Ptr]
    /\ pc = [t \in Threads |-> "idle"]
    /\ orig = [t \in Threads |-> Head0]
    /\ newh = [t \in Threads |-> Head0]
    /\ elem = [t \in Threads |-> NULL]
    /\ cur = [t \in Threads |-> NULL]
    /\ held \in [Threads -> SUBSET Nodes]
    /\ \A s, t \in Threads : s # t => held[s] \cap held[t] = {}
    /\ stk = << >>
    /\ rest = [t \in Threads |-> << >>]

---------------------------------------------------------------------------
\* atomic_load(&queue_head) at the start of an operation.
Load(t, label) ==
    /\ pc[t] = "idle"
    /\ head.aba < MaxAba
    /\ orig' = [orig EXCEPT ![t] = head]
    /\ pc' = [pc EXCEPT ![t] = label]

\* A failed compare-exchange stores the current head in orig_head and the
\* loop runs again; being weak, it may fail although the heads are equal.
CasFail(t, label) ==
    /\ orig' = [orig EXCEPT ![t] = head]
    /\ pc' = [pc EXCEPT ![t] = label]
    /\ UNCHANGED <<head, next, newh, elem, cur, held, stk, rest>>

PopLoad(t) ==
    /\ Load(t, "popRead")
    /\ UNCHANGED <<head, next, newh, elem, cur, held, stk, rest>>

PopEmpty(t) ==
    /\ pc[t] = "popRead"
    /\ orig[t].first = NULL
    /\ pc' = [pc EXCEPT ![t] = "idle"]
    /\ UNCHANGED <<head, next, orig, newh, elem, cur, held, stk, rest>>

\* The successor is read from an element that may no longer be in the queue.
PopRead(t) ==
    /\ pc[t] = "popRead"
    /\ orig[t].first # NULL
    /\ newh' = [newh EXCEPT ![t] = [aba |-> orig[t].aba + 1,
                                     first |-> next[orig[t].first]]]
    /\ pc' = [pc EXCEPT ![t] = "popCas"]
    /\ UNCHANGED <<head, next, orig, elem, cur, held, stk, rest>>

\* Mutant: pop compares the pointer only, as if there were no aba word.
PopCasPointerOnly(t) ==
    /\ pc[t] = "popCas"
    /\ head.first = orig[t].first
    /\ head' = newh[t]
    /\ held' = [held EXCEPT ![t] = @ \cup {orig[t].first}]
    /\ pc' = [pc EXCEPT ![t] = "idle"]
    /\ stk' = Tail(stk)
    /\ UNCHANGED <<next, orig, newh, elem, cur, rest>>

\* Mutant: pop stores the new head without comparing.
PopCasNoCompare(t) ==
    /\ pc[t] = "popCas"
    /\ head' = newh[t]
    /\ held' = [held EXCEPT ![t] = @ \cup {orig[t].first}]
    /\ pc' = [pc EXCEPT ![t] = "idle"]
    /\ stk' = IF stk = << >> THEN stk ELSE Tail(stk)
    /\ UNCHANGED <<next, orig, newh, elem, cur, rest>>

PopCas(t) ==
    /\ pc[t] = "popCas"
    /\ head = orig[t]
    /\ head' = newh[t]
    /\ held' = [held EXCEPT ![t] = @ \cup {orig[t].first}]
    /\ pc' = [pc EXCEPT ![t] = "idle"]
    /\ stk' = Tail(stk)
    /\ UNCHANGED <<next, orig, newh, elem, cur, rest>>

PopRetry(t) == pc[t] = "popCas" /\ CasFail(t, "popRead")

PushLoad(t, e) ==
    /\ e \in held[t]
    /\ Load(t, "pushLink")
    /\ elem' = [elem EXCEPT ![t] = e]
    /\ UNCHANGED <<head, next, newh, cur, held, stk, rest>>

PushLink(t) ==
    /\ pc[t] = "pushLink"
    /\ next' = [next EXCEPT ![elem[t]] = orig[t].first]
    /\ newh' = [newh EXCEPT ![t] = [aba |-> orig[t].aba + 1,
                                     first |-> elem[t]]]
    /\ pc' = [pc EXCEPT ![t] = "pushCas"]
    /\ UNCHANGED <<head, orig, elem, cur, held, stk, rest>>

PushCas(t) ==
    /\ pc[t] = "pushCas"
    /\ head = orig[t]
    /\ head' = newh[t]
    /\ held' = [held EXCEPT ![t] = @ \ {elem[t]}]
    /\ pc' = [pc EXCEPT ![t] = "idle"]
    /\ stk' = <<elem[t]>> \o stk
    /\ UNCHANGED <<next, orig, newh, elem, cur, rest>>

PushRetryOldHead(t) ==
    /\ pc[t] = "pushCas"
    /\ pc' = [pc EXCEPT ![t] = "pushLink"]
    /\ UNCHANGED <<head, next, orig, newh, elem, cur, held, stk, rest>>

PushRetry(t) == pc[t] = "pushCas" /\ CasFail(t, "pushLink")

GrabLoad(t) ==
    /\ Load(t, "grabTest")
    /\ UNCHANGED <<head, next, newh, elem, cur, held, stk, rest>>

GrabEmpty(t) ==
    /\ pc[t] = "grabTest"
    /\ orig[t].first = NULL
    /\ pc' = [pc EXCEPT ![t] = "idle"]
    /\ UNCHANGED <<head, next, orig, newh, elem, cur, held, stk, rest>>

GrabTest(t) ==
    /\ pc[t] = "grabTest"
    /\ orig[t].first # NULL
    /\ newh' = [newh EXCEPT ![t] = [aba |-> orig[t].aba + 1, first |-> NULL]]
    /\ pc' = [pc EXCEPT ![t] = "grabCas"]
    /\ UNCHANGED <<head, next, orig, elem, cur, held, stk, rest>>

GrabCas(t) ==
    /\ pc[t] = "grabCas"
    /\ head = orig[t]
    /\ head' = newh[t]
    /\ cur' = [cur EXCEPT ![t] = orig[t].first]
    /\ pc' = [pc EXCEPT ![t] = "walk"]
    /\ rest' = [rest EXCEPT ![t] = stk]
    /\ stk' = << >>
    /\ UNCHANGED <<next, orig, newh, elem, held>>

GrabRetry(t) == pc[t] = "grabCas" /\ CasFail(t, "grabTest")

\* One iteration of the loop in O2queue::free: step to all->next, then the
\* element is the thread's own, to free or to use again.
Walk(t) ==
    /\ pc[t] = "walk"
    /\ cur[t] # NULL
    /\ held' = [held EXCEPT ![t] = @ \cup {cur[t]}]
    /\ cur' = [cur EXCEPT ![t] = next[cur[t]]]
    /\ rest' = [rest EXCEPT ![t] = Tail(@)]
    /\ UNCHANGED <<head, next, pc, orig, newh, elem, stk>>

WalkEnd(t) ==
    /\ pc[t] = "walk"
    /\ cur[t] = NULL
    /\ pc' = [pc EXCEPT ![t] = "idle"]
    /\ UNCHANGED <<head, next, orig, newh, elem, cur, held, stk, rest>>

\* The link word overlays the first 8 bytes of a free block, so the owner of
\* an element may leave anything there.
Scribble(t, e, p) ==
    /\ pc[t] = "idle"
    /\ e \in held[t]
    /\ head.aba < MaxAba
    /\ next' = [next EXCEPT ![e] = p]
    /\ UNCHANGED <<head, pc, orig, newh, elem, cur, held, stk, rest>>

Cas(t) == PopCas(t) \/ PushCas(t) \/ GrabCas(t)

Step(t) ==
    \/ PopEmpty(t) \/ PopRead(t) \/ PopRetry(t)
    \/ PushLink(t) \/ PushRetry(t)
    \/ GrabEmpty(t) \/ GrabTest(t) \/ GrabRetry(t)
    \/ Walk(t) \/ WalkEnd(t)
    \/ Cas(t)

Begin(t) ==
    \/ PopLoad(t)
    \/ GrabLoad(t)
    \/ \E e \in Nodes : PushLoad(t, e) \/ \E p \in Ptr : Scribble(t, e, p)

Next == \E t \in Threads : Step(t) \/ Begin(t)

Spec == Init /\ [][Next]_vars

\* A thread inside an operation keeps running, and a weak compare-exchange
\* does not fail spuriously for ever.
FairSpec == Spec /\ \A t \in Threads : WF_vars(Step(t)) /\ SF_vars(Cas(t))

---------------------------------------------------------------------------
Labels == {"idle", "popRead", "popCas", "pushLink", "pushCas", "grabTest",
           "grabCas", "walk"}
HeadWord == [aba : Nat, first : Ptr]

\* Type correctness of the queue head, the link words and the locals of the
\* three loops.
TypeOK ==
    /\ head \in HeadWord
    /\ next \in [Nodes -> Ptr]
    /\ pc \in [Threads -> Labels]
    /\ orig \in [Threads -> HeadWord]
    /\ newh \in [Threads -> HeadWord]
    /\ elem \in [Threads -> Ptr]
    /\ cur \in [Threads -> Ptr]
    /\ held \in [Threads -> SUBSET Nodes]
    /\ stk \in Seq(Nodes)
    /\ rest \in [Threads -> Seq(Nodes)]

\* p points to the first element of s and the links lead through s, in order,
\* to NULL.
Linked(links, p, s) ==
    /\ p = IF s = << >> THEN NULL ELSE s[1]
    /\ \A i \in 1..Len(s) :
           links[s[i]] = IF i = Len(s) THEN NULL ELSE s[i + 1]

\* The chain reachable from queue_head is the stack of elements pushed and
\* not yet taken, whatever the threads in the middle of pop, push and grab
\* have read before.
QueueLinked == Linked(next, head.first, stk)

\* The list a thread grabbed stays intact while it is walked.
GrabLinked == \A t \in Threads : Linked(next, cur[t], rest[t])

Distinct(s) == \A i, j \in 1..Len(s) : i # j => s[i] # s[j]
Elems(s) == {s[i] : i \in 1..Len(s)}

Disjoint(S, T) == \A x \in S : x \notin T

SingleOwner(s, h, r) ==
    /\ Distinct(s)
    /\ \A t \in Threads :
         /\ Distinct(r[t])
         /\ Disjoint(Elems(s), h[t])
         /\ Disjoint(Elems(s), Elems(r[t]))
         /\ \A u \in Threads : Disjoint(h[t], Elems(r[u]))
         /\ \A u \in Threads : u # t =>
               /\ Disjoint(h[t], h[u])
               /\ Disjoint(Elems(r[t]), Elems(r[u]))

\* An element has one owner: two threads never hold the same element, no
\* thread holds one that is still in the queue or in a list another thread
\* grabbed, and the queue holds none twice.
OneOwner == SingleOwner(stk, held, rest)

\* What a thread in the middle of an operation may rely on: its copy of the
\* head is either the head or carries an older aba, and if it is still the
\* head then what the thread computed from it is still right.
Snapshot ==
    \A t \in Threads :
      /\ pc[t] # "idle" =>
           /\ orig[t].aba <= head.aba
           /\ orig[t].aba = head.aba => orig[t].first = head.first
      /\ pc[t] \in {"popCas", "pushCas", "grabCas"} =>
           newh[t].aba = orig[t].aba + 1
      /\ pc[t] = "popCas" =>
           /\ orig[t].first \in Nodes
           /\ orig[t].aba = head.aba => newh[t].first = next[orig[t].first]
      /\ pc[t] \in {"pushLink", "pushCas"} => elem[t] \in held[t]
      /\ pc[t] = "pushCas" =>
           /\ newh[t].first = elem[t]
           /\ next[elem[t]] = orig[t].first
      /\ pc[t] = "grabCas" =>
           /\ orig[t].first \in Nodes
           /\ newh[t].first = NULL
      /\ pc[t] # "walk" => cur[t] = NULL /\ rest[t] = << >>

\* The inductive invariant.
IInv == TypeOK /\ QueueLinked /\ GrabLinked /\ OneOwner /\ Snapshot

\* Every operation is one atomic step of a stack.
AbstractStack == INSTANCE Stack WITH stk <- stk, held <- held, rest <- rest
StackSpec == AbstractStack!Spec

\* Every started operation returns once other threads stop completing
\* operations of their own (here: once the bound stops new ones): a thread is
\* idle again and again.
OperationsReturn == \A t \in Threads : []<>(pc[t] = "idle")
=============================================================================
