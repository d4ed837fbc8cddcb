------------------------------ MODULE Pathtree ------------------------------
(***************************************************************************)
(* The methods of a local service (pathtree.cpp): handlers at the leaves   *)
(* of a tree of hash tables, each also in the table of full paths, and the *)
(* dispatch of messages, by full path, by the tree, or by patterns.        *)
(*                                                                         *)
(* A path is the sequence of names below the service; <<>> is the service  *)
(* itself.  Names and patterns are sequences of characters.  The pattern   *)
(* of a node is given as a sequence of elements [text, means, early]: what *)
(* stands in the address, the strings that the documentation of            *)
(* o2_pattern_match says it matches, and of a list in braces all strings   *)
(* but the last.                                                           *)
(***************************************************************************)
EXTENDS Integers, Sequences, SequencesExt

CONSTANTS Paths,       \* the paths that methods are created for
          Ids,           \* the handlers
          Addresses,     \* the addresses of messages: sequences of node patterns
          Order          \* the characters, in the order of their codes

VARIABLES handlers,      \* path -> handler: the leaves of the tree
          nodes,         \* the paths of the Hash_nodes
          grown,         \* the nodes whose table was replaced (see HashNode)
          full,          \* full_path_table: path -> handler
          msg            \* the last message: its address and who got it

vars == <<handlers, nodes, grown, full, msg>>

NoMsg == [addr |-> <<>>, bang |-> FALSE, got |-> {}]
Leaves == DOMAIN handlers
Offered == <<>> \in nodes \cup Leaves
Without(f, S) == [p \in (DOMAIN f) \ S |-> f[p]]
Under(path) == {p \in nodes \cup Leaves : IsPrefix(path, p)}
Above(path) == {SubSeq(path, 1, i) : i \in 0 .. (Len(path) - 1)}
Kids(node) == {p \in nodes \cup Leaves : p # <<>> /\ Front(p) = node}

Init == /\ handlers = <<>> /\ nodes = {} /\ grown = {}
        /\ full = <<>>
        /\ msg = NoMsg

-----------------------------------------------------------------------------
(* o2_pattern_match(str, p) *)

Drop(s, n) == SubSeq(s, n + 1, Len(s))
Posn(s, chars) == SelectInSeq(s, LAMBDA c : c \in chars)
Code(c) == CHOOSE i \in 1 .. Len(Order) : Order[i] = c

RECURSIVE o2_pattern_match(_, _), match_set(_, _), match_braces(_, _, _, _)

\* Mutant: the first place where the rest could match is the only one tried.
match_star_first(str, p) ==
    LET at == IF p = <<>> \/ Head(p) \in {"?", "[", "{"} THEN 1 ELSE Posn(str, {Head(p)})
    IN  p = <<>> \/ (at # 0 /\ o2_pattern_match(Drop(str, at - 1), p))

\* '*' matches 0 or more characters.
match_star(str, p) ==
    LET q == Drop(p, CHOOSE n \in 0 .. Len(p) :
                         /\ \A i \in 1 .. n : p[i] = "*"
                         /\ n = Len(p) \/ p[n + 1] # "*")
        at == IF Head(q) \in {"?", "[", "{"} THEN 1 ELSE Posn(str, {Head(q)})
    IN  \/ q = <<>>
        \/ q # <<>> /\ at # 0 /\ \E i \in at .. Len(str) : o2_pattern_match(Drop(str, i - 1), q)

\* The loop over a set: whether c matches and where it stops; <<>> if there is no ']'.
match_set(c, p) ==
    IF p = <<>> THEN [match |-> FALSE, p |-> <<>>]
    ELSE IF Head(p) = "]" THEN [match |-> FALSE, p |-> p]
    ELSE IF Len(p) = 1 THEN [match |-> FALSE, p |-> <<>>]
    ELSE LET range == p[2] = "-"
             closed == range /\ Len(p) > 2 /\ p[3] = "]"
             match == CASE ~range -> c = p[1]
                        [] closed -> c \in {p[1], "-"}
                        [] OTHER -> /\ Len(p) > 2
                                    /\ \/ c \in {p[1], p[3]}
                                       \/ Code(p[1]) < Code(c) /\ Code(c) < Code(p[3])
             q == Drop(p, CASE ~range -> 1 [] closed -> 2 [] OTHER -> 3)
         IN  IF match THEN [match |-> TRUE, p |-> q] ELSE match_set(c, q)

\* The loop over a brace list.  place is where str was at '{' and rest what follows
\* '}'.  When a string matched and the rest did not, "p++" skips the first character
\* of the next string and not the comma.
match_braces(str, place, p, rest) ==
    LET c == Head(p)
        comma == Posn(p, {",", "}"})
    IN  CASE p = <<>> -> FALSE
          [] p # <<>> /\ c = "," ->
               \/ o2_pattern_match(str, rest)
               \/ Len(p) > 2 /\ match_braces(place, place, Drop(p, 2), rest)
          [] p # <<>> /\ c = "}" -> o2_pattern_match(str, Tail(p))
          [] p # <<>> /\ c \notin {",", "}"} /\ str # <<>> /\ c = Head(str) ->
               match_braces(Tail(str), place, Tail(p), rest)
          [] OTHER -> /\ comma # 0 /\ p[comma] = ","
                      /\ match_braces(place, place, Drop(p, comma), rest)

o2_pattern_match(str, p) ==
    IF p = <<>> THEN str = <<>>
    ELSE IF str = <<>> /\ Head(p) # "*" THEN FALSE
    ELSE CASE Head(p) = "*" -> match_star(str, Tail(p))
           [] Head(p) = "?" -> o2_pattern_match(Tail(str), Tail(p))
           [] Head(p) = "[" ->
                LET negate == Len(p) > 1 /\ p[2] = "!"
                    set == match_set(Head(str), Drop(p, IF negate THEN 2 ELSE 1))
                    end == Posn(set.p, {"]"})
                IN  /\ negate # set.match /\ end # 0
                    /\ o2_pattern_match(Tail(str), Drop(set.p, end))
           [] Head(p) = "{" ->
                LET end == Posn(p, {"}"})
                IN  end # 0 /\ match_braces(str, str, Tail(p), Drop(p, end))
           [] OTHER -> Head(p) = Head(str) /\ o2_pattern_match(Tail(str), Tail(p))

-----------------------------------------------------------------------------
(* The tree *)

o2_service_new ==
    /\ ~Offered
    /\ nodes' = {<<>>}
    /\ UNCHANGED <<handlers, grown, full, msg>>

\* o2_service_free: deletes the tree; each leaf removes its full path.
o2_service_free ==
    /\ Offered
    /\ handlers' = <<>> /\ nodes' = {} /\ grown' = {}
    /\ full' = Without(full, Leaves)
    /\ UNCHANGED msg

\* The full paths that remain when the entries gone are deleted by ~Handler_entry.
remove_full(path, gone) == Without(full, gone)

\* o2_method_new_internal.  A handler for the service replaces the tree; a path
\* replaces what is at it, and handlers on the way to it become nodes.
o2_method_new(path, id) ==
    LET gone == Under(path) \cup (Above(path) \cap Leaves)
        more == [p \in {path} |-> id] @@ Without(handlers, gone)
        hash == (nodes \ Under(path)) \cup Above(path)
    IN  /\ Offered
        /\ handlers' = more
        /\ nodes' = hash
        /\ grown' = (grown \ Under(path)) \cup
                    {n \in hash : \E p, q \in (hash \cup DOMAIN more) \ {<<>>} :
                                      p # q /\ Front(p) = n /\ Front(q) = n}
        /\ full' = IF path = <<>> THEN remove_full(path, gone)
                   ELSE [p \in {path} |-> id] @@ remove_full(path, gone)
        /\ UNCHANGED msg

\* The nodes that remove_method_from_tree deletes on the way back from path: from
\* the parent upwards, as long as num_children is 0.
Emptied(path) ==
    {q \in Above(path) \ {<<>>} :
        \A r \in Above(path) : IsPrefix(q, r) =>
            r \notin grown /\ \A k \in Kids(r) : IsPrefix(k, path)}

remove_method_from_tree(path) ==
    LET gone == Under(path) \cup Emptied(path)
    IN  /\ path \in nodes \cup Leaves
        /\ handlers' = Without(handlers, gone)
        /\ nodes' = nodes \ gone
        /\ grown' = grown \ gone
        /\ full' = Without(full, gone)

o2_method_free(path) ==
    /\ Offered
    /\ IF path = <<>> \/ <<>> \in Leaves
       THEN /\ handlers' = <<>> /\ nodes' = {<<>>} /\ grown' = {}
            /\ full' = Without(full, Leaves)
       ELSE remove_method_from_tree(path)
    /\ UNCHANGED msg

-----------------------------------------------------------------------------
(* Dispatch *)

Text(pattern) == FlattenSeq([i \in 1 .. Len(pattern) |-> pattern[i].text])
IsPattern(text) == Posn(text, {"*", "?", "[", "{"}) # 0

RECURSIVE o2_find_handlers_rec(_, _)

\* The leaves below node that are called for the rest of an address.
o2_find_handlers_rec(node, remaining) ==
    LET text == Text(Head(remaining))
        entries == {k \in Kids(node) : IF IsPattern(text)
                                       THEN o2_pattern_match(Last(k), text)
                                       ELSE Last(k) = text}
    IN  IF Len(remaining) = 1 THEN entries \cap Leaves
        ELSE UNION {o2_find_handlers_rec(k, Tail(remaining)) : k \in entries \cap nodes}

\* o2_msg_deliver, steps 3 to 5.
o2_msg_deliver(addr, bang) ==
    /\ Offered /\ msg = NoMsg
    /\ msg' = [addr |-> addr, bang |-> bang, got |->
                 CASE <<>> \in Leaves -> {<<>>}
                   [] <<>> \notin Leaves /\ bang ->
                        {[i \in 1 .. Len(addr) |-> Text(addr[i])]} \cap DOMAIN full
                   [] OTHER -> o2_find_handlers_rec(<<>>, addr)]
    /\ UNCHANGED <<handlers, nodes, grown, full>>

\* The handlers have returned.
Delivered == /\ msg # NoMsg
             /\ msg' = NoMsg
             /\ UNCHANGED <<handlers, nodes, grown, full>>

\* While a message is delivered, its handlers leave the tree alone.
Application ==
    /\ msg = NoMsg
    /\ \/ o2_service_new \/ o2_service_free
       \/ \E path \in Paths, id \in Ids : o2_method_new(path, id)
       \/ \E path \in Paths : o2_method_free(path)

Next == \/ Application
        \/ \E addr \in Addresses, bang \in BOOLEAN : o2_msg_deliver(addr, bang)
        \/ Delivered

Spec == Init /\ [][Next]_vars

-----------------------------------------------------------------------------
(* Properties *)

RECURSIVE Means(_, _)
Means(pattern, str) ==
    IF pattern = <<>> THEN str = <<>>
    ELSE \E n \in 0 .. Len(str) : /\ SubSeq(str, 1, n) \in Head(pattern).means
                                  /\ Means(Tail(pattern), Drop(str, n))

\* A string of a list in braces in front of a comma matches within str, and what follows
\* the list does not: match_braces then tries the strings behind the comma wrongly.
TriedAgain(pattern, str) ==
    \E i \in 1 .. Len(pattern), n \in 0 .. Len(str) :
        /\ Means(SubSeq(pattern, 1, i - 1), SubSeq(str, 1, n))
        /\ \E s \in pattern[i].early : /\ IsPrefix(s, Drop(str, n))
                                       /\ ~Means(Drop(pattern, i), Drop(str, n + Len(s)))

\* The two ways to find a handler agree: the table of full paths has the leaves of
\* the tree and no others, each with the handler that is in the tree.
TablesAgree == full = Without(handlers, {<<>>})

\* The tree is a tree, nothing is below a handler, and a node without a child is
\* only left behind where its table was once replaced by a larger one.
TreeShape ==
    /\ nodes \cap Leaves = {}
    /\ \A p \in nodes \cup Leaves : Above(p) \subseteq nodes
    /\ \A n \in nodes \ {<<>>} : Kids(n) = {} => n \in grown

\* The handlers that get a message are the handler of the whole service or else
\* those whose paths the address stands for: node by node, what the documentation
\* of the patterns says, and for an address with '!' the path itself.  Left out are the
\* nodes for which a list in braces does not do what its comment says (TriedAgain).
DispatchRight ==
    LET Names(p) == /\ Len(p) = Len(msg.addr)
                    /\ \A i \in 1 .. Len(p) : IF msg.bang THEN p[i] = Text(msg.addr[i])
                                             ELSE Means(msg.addr[i], p[i])
        Doubtful(p) == /\ ~msg.bang /\ Len(p) = Len(msg.addr)
                       /\ \E i \in 1 .. Len(p) : TriedAgain(msg.addr[i], p[i])
    IN  msg # NoMsg =>
            /\ msg.got \subseteq Leaves
            /\ \A p \in Leaves : (p \in msg.got <=> IF <<>> \in Leaves THEN p = <<>>
                                                   ELSE Names(p)) \/ Doubtful(p)
=============================================================================
