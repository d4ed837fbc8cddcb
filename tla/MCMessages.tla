----------------------------- MODULE MCMessages -----------------------------
(***************************************************************************)
(* What becomes of a message, for model checking: it is built and converted *)
(* for the network (MsgBuild), its handlers are found (HashNode, Pathtree) *)
(* and its arguments are extracted (Extract).  In the scenes "one thread"  *)
(* and "two threads" it goes to and comes from the threads of the shared   *)
(* memory bridge (Sharedmem).  The scenes share no state; one is chosen in *)
(* the initial state.                                                      *)
(***************************************************************************)
EXTENDS Sharedmem

VARIABLES scene,
          building_message_lock, is_bundle, is_normal, msg_types, msg_data, added, msg,
          children, num_children, inner, en, visited, undefined,
          handlers, nodes, grown, full, addressed,
          args, types, data, wants, type_string, how, state, mx_type_next, mx_data_next,
          mode, vtype, mx_vector_remaining, rets, used, overwritten

buildVars == <<building_message_lock, is_bundle, is_normal, msg_types, msg_data, added, msg>>
hashVars == <<children, num_children, inner, en, visited, undefined>>
pathVars == <<handlers, nodes, grown, full, addressed>>
extractVars == <<args, types, data, wants, type_string, how, state, mx_type_next,
                 mx_data_next, mode, vtype, mx_vector_remaining, rets, used, overwritten>>
tables == <<buildVars, hashVars, pathVars, extractVars>>
mcvars == <<scene, vars, tables>>

-----------------------------------------------------------------------------
(* Building: one argument of each kind, blobs with and without padding *)

Part(t, x) == [t |-> t, e |-> "", x |-> x]
Vec(e, x) == [t |-> "v", e |-> e, x |-> x]
Built == INSTANCE MsgBuild WITH
    Args <- {Part("i", 300), Part("h", 9), Part("s", <<1, 2, 3, 4>>), Part("T", 0),
             Part("b", <<1, 2, 3>>), Part("b", <<1, 2, 3, 4>>), Part("[", 0),
             Vec("i", <<1, 9>>), Vec("h", <<70>>), Vec("s", <<>>)},
    Builds <- {<<>>, <<Part("i", 300), Part("h", 9)>>},
    MaxTypes <- 3, MaxMessage <- 44

-----------------------------------------------------------------------------
(* Hash table: names whose hash values fall together in some sizes *)

Hashed == INSTANCE HashNode WITH
    Keys <- {1, 2, 3, 4}, Hash <- <<1, 3, 9, 14>>, Granule <- 2, MaxSize <- 14

-----------------------------------------------------------------------------
(* Addresses: the characters a and b, patterns and what each means *)

A == <<"a">>
AB == <<"a", "b">>
BAB == <<"b", "a", "b">>
Strings == {<<>>} \cup UNION {[1 .. n -> {"a", "b"}] : n \in 1 .. 3}
Element(text, means) == [text |-> text, means |-> means, early |-> {}]
Lit(name) == Element(name, {name})
Star == Element(<<"*">>, Strings)
One == Element(<<"?">>, [1 .. 1 -> {"a", "b"}])
Span == Element(<<"[", "b", "-", "c", "]">>, {<<"b">>})
Dash == Element(<<"[", "a", "-", "]">>, {<<"a">>, <<"-">>})
Not == Element(<<"[", "!", "a", "]">>, {<<"b">>})
Brace(strings) ==
    [text |-> <<"{">> \o FoldLeft(LAMBDA s, t : s \o <<",">> \o t, strings[1], Tail(strings))
              \o <<"}">>,
     means |-> Range(strings), early |-> Range(Front(strings))]
Segments == {<<Lit(A)>>, <<Lit(AB)>>, <<Star>>, <<One>>, <<Star, Lit(<<"b">>)>>,
             <<Lit(A), Star>>, <<Star, One>>, <<Star, Lit(A), Star, Not>>, <<Span, Star>>,
             <<Dash, Span>>, <<Brace(<<AB>>)>>, <<Star, Brace(<<AB>>)>>,
             <<Not, Brace(<<AB>>)>>, <<Brace(<<A, AB>>)>>, <<Brace(<<BAB, AB, A>>)>>,
             <<Brace(<<<<"b">>, A>>), Star>>, <<Brace(<<A, <<"b">>>>), Lit(A)>>,
             <<Star, Brace(<<AB, A>>)>>}
Found == INSTANCE Pathtree WITH
    Paths <- {<<>>, <<A>>, <<AB>>, <<A, A>>, <<A, BAB>>, <<BAB, AB>>}, Ids <- {1, 2},
    Addresses <- {<<s>> : s \in Segments} \cup {<<s, <<Lit(A)>>>> : s \in {<<Star>>, <<Lit(A)>>}}
                 \cup {<< <<Lit(A)>>, s>> : s \in Segments},
    Order <- <<"-", "a", "b", "c">>, msg <- addressed

-----------------------------------------------------------------------------
(* Extraction: each type with values that coercion changes, against each type *)

Arg(t, x) == [t |-> t, e |-> "", v |-> <<x>>]
Vector(t, v) == [t |-> "v", e |-> t, v |-> v]
Array(e, v) == [t |-> "a", e |-> e, v |-> v]
Scalars == {Arg("i", 0), Arg("i", 3), Arg("h", 9), Arg("f", 1), Arg("d", -3), Arg("d", 0),
            Arg("t", 2), Arg("s", 1), Arg("S", 1), Arg("T", 1), Arg("F", 0), Arg("B", 1),
            Arg("B", 0), Arg("b", 5), Arg("m", 1), Arg("c", 1), Arg("N", 0), Arg("I", 0)}
Lists == {Vector("i", <<0, 3>>), Vector("h", <<9>>), Vector("d", <<3, -3>>),
          Vector("f", <<>>), Array(<<>>, <<>>), Array(<<"h", "f">>, <<9, 3>>),
          Array(<<"T", "s">>, <<1, 1>>)}
Want(t, e) == [t |-> t, e |-> e]
WantScalars == {Want(t, "") : t \in {"i", "h", "f", "d", "t", "s", "S", "T", "F", "B",
                                     "b", "m", "c", "N", "I"}}
WantLists == {Want("v", "i"), Want("v", "d"), Want("v", "h"), Want("v", "f"),
              Want("a", <<>>), Want("a", <<"i">>), Want("a", <<"d", "h">>),
              Want("a", <<"B", "S">>)}
Pairs(S, T) == {<<a, b>> : a \in S, b \in T}
Extracted == INSTANCE Extract WITH
    Messages <- {<<a>> : a \in Scalars \cup Lists \cup {Vector("h", <<9, 2, 3>>)}} \cup Pairs(Lists, {Arg("h", 9)})
                \cup Pairs({Arg("T", 1), Arg("b", 5), Arg("h", 9)}, Lists \cup {Arg("f", 1)})
                \cup {<<Arg("i", 0), Arg("i", 3), Arg("B", 1), Arg("f", 1), Arg("h", 9)>>},
    Wants <- {<<a>> : a \in WantScalars \cup WantLists} \cup Pairs(WantLists, {Want("i", "")})
             \cup Pairs({Want("i", ""), Want("b", ""), Want("h", "")},
                        WantLists \cup {Want("d", "")})
             \cup {<<Want("h", ""), Want("d", ""), Want("t", ""), Want("d", ""), Want("d", "")>>},
    W <- 4

-----------------------------------------------------------------------------
Scenes == {"build", "hash", "path", "extract", "one thread", "two threads"}

MCInit ==
    /\ scene \in Scenes
    /\ Init
    /\ Built!Init /\ Hashed!Init /\ Found!Init /\ Extracted!Init
    /\ inner => scene = "hash"

\* With one thread the other is never started; with two there is one message and the
\* clock is at most just synchronized.
BridgeNext ==
    /\ scene \in {"one thread", "two threads"} /\ Next
    /\ \/ scene = "one thread" /\ pc'["k2"] = "none"
       \/ scene = "two threads" /\ sent' <= 1 /\ global_now' <= 0

MCNext ==
    \/ BridgeNext /\ UNCHANGED <<scene, tables>>
    \/ scene = "build" /\ Built!Next
          /\ UNCHANGED <<scene, vars, hashVars, pathVars, extractVars>>
    \/ scene = "hash" /\ Hashed!Next
          /\ UNCHANGED <<scene, vars, buildVars, pathVars, extractVars>>
    \/ scene = "path" /\ Found!Next
          /\ UNCHANGED <<scene, vars, buildVars, hashVars, extractVars>>
    \/ scene = "extract" /\ Extracted!Next
          /\ UNCHANGED <<scene, vars, buildVars, hashVars, pathVars>>

InOne(Act) == scene = "one thread" /\ Act /\ UNCHANGED <<scene, tables>>

\* o2_poll is called again, and a thread that has begun a poll ends it.
MCFairness == WF_mcvars(InOne(o2Thread)) /\ WF_mcvars(InOne(smThread("k1")))

MCSpec == MCInit /\ [][MCNext]_mcvars /\ MCFairness

\* Messages are made of what was added to them, conversion for the network and back
\* gives the message again (o2_msg_swap_endian), and what Proxy_info::pre_send makes is
\* in network order.  Handlers get the arguments coerced as o2.h says, however the types
\* asked for differ from those of the message (o2_get_next), and coerced arguments stay
\* where the pointers to them lead.
MessagesIntact ==
    /\ scene = "build" => Built!AsAdded /\ Built!RoundTrip /\ Built!NetworkOrder
    /\ scene = "extract" => Extracted!CoercedAsDocumented /\ Extracted!ArgDataFits

\* Names are found in a Hash_node through all its changes of size, and an Enumerate
\* visits each entry once; full_path_table holds exactly the handlers of the tree, whose
\* nodes are removed with the last of them; and a message reaches exactly the handlers
\* its address or pattern names (o2_find_handlers_rec, o2_pattern_match).
HandlersFound ==
    /\ scene = "hash" => Hashed!Findable /\ Hashed!EachOnce
    /\ scene = "path" => Found!TablesAgree /\ Found!TreeShape /\ Found!DispatchRight

\* A thread that has finished loses its instance and its services (o2sm_fin_handler).
ThreadForgotten == scene = "one thread" => FinishSeen
=============================================================================
