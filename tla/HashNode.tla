------------------------------ MODULE HashNode ------------------------------
(***************************************************************************)
(* Hash_node of o2node.cpp: the hash table behind the path tree, the table *)
(* of full paths and the table of services.  Collisions are linked lists;  *)
(* the table is replaced by a larger one as entries are inserted, and the  *)
(* replacing calls insert again, which may replace the table once more.    *)
(*                                                                         *)
(* An Enumerate visits the entries; each visit may run a handler, and the  *)
(* handler may remove itself or install another handler in its own place   *)
(* (o2_method_free and o2_method_new of the path whose message it gets).   *)
(* remove_method_from_tree deletes an inner node that becomes empty, also  *)
(* under an enumeration; children is then <<>>, the length that            *)
(* Vec::finish() leaves in the freed block.                                *)
(***************************************************************************)
EXTENDS Integers, Sequences, SequencesExt

CONSTANTS Keys,        \* the names
          Hash,          \* get_hash of each name
          Granule,       \* allocations are rounded up to this many entries
          MaxSize        \* no insertion into a table larger than this

VARIABLES children,      \* the buckets, each a list of names
          num_children,
          inner,         \* whether the node is below another in the tree
          en,            \* the enumerator: index and entry, or Off
          visited,       \* the names this enumeration has returned
          undefined      \* whether the enumerator read a block that is in use again

vars == <<children, num_children, inner, en, visited, undefined>>

Off == [index |-> 0, entry |-> <<>>]
Entries(c) == FlattenSeq(c)

\* children.init(locations, true, true): empty buckets, as many as there is room for.
table_init(locations) ==
    [i \in 1 .. ((locations + Granule - 1) \div Granule) * Granule |-> <<>>]

get_hash(key) == Hash[key]

\* The place of key: its bucket and its position there; the position behind the
\* list if it is not found.
lookup(c, key) ==
    LET b == (get_hash(key) % Len(c)) + 1
        at == {i \in 1 .. Len(c[b]) : c[b][i] = key}
    IN  [bucket |-> b, posn |-> IF at = {} THEN Len(c[b]) + 1 ELSE CHOOSE i \in at : TRUE]

Found(c, loc) == loc.posn <= Len(c[loc.bucket])

RECURSIVE insert(_, _), entry_insert_at(_, _, _), table_resize(_, _)

\* Mutant: the lists are moved to the larger table as they are.
table_resize_lists(t, new_locs) ==
    [t EXCEPT !.children = t.children \o
         SubSeq(table_init(new_locs), Len(t.children) + 1, Len(table_init(new_locs)))]

\* All entries of the old table are inserted into a new one.
table_resize(t, new_locs) ==
    FoldLeft(insert, [t EXCEPT !.children = table_init(new_locs)], Entries(t.children))

entry_insert_at(t, loc, key) ==
    LET more == [num |-> t.num + 1,
                 children |-> [t.children EXCEPT
                                 ![loc.bucket] = InsertAt(@, loc.posn, key)]]
    IN  IF more.num * 5 > Len(more.children) * 4
        THEN table_resize(more, more.num * 2) ELSE more

\* entry_remove.  A table that has become too sparse is replaced by a smaller one.
entry_remove(t, loc, resize) ==
    LET less == [num |-> t.num - 1,
                 children |-> [t.children EXCEPT ![loc.bucket] = RemoveAt(@, loc.posn)]]
    IN  IF resize /\ less.num * 5 < Len(less.children) /\ less.num > 3
        THEN table_resize(less, (Len(less.children) \div 2) - 1) ELSE less

insert(t, key) ==
    LET loc == lookup(t.children, key)
    IN  entry_insert_at(IF Found(t.children, loc) THEN entry_remove(t, loc, FALSE) ELSE t,
                        loc, key)

Table == [children |-> children, num |-> num_children]
Becomes(t) == children' = t.children /\ num_children' = t.num

NewNode == [children |-> table_init(2), num |-> 0]
Deleted == children = <<>>

Init == /\ children = NewNode.children /\ num_children = NewNode.num
        /\ inner \in BOOLEAN
        /\ en = Off
        /\ visited = <<>>
        /\ undefined = FALSE

\* A path is added; the node is made again if it had been deleted.
Insert(key) ==
    /\ en = Off /\ Len(children) <= MaxSize
    /\ Becomes(insert(IF Deleted THEN NewNode ELSE Table, key))
    /\ UNCHANGED <<inner, en, visited, undefined>>

\* entry_remove_by_name, and remove_method_from_tree if the node is inner.
remove_entry(key) ==
    LET loc == lookup(children, key)
        less == entry_remove(Table, loc, TRUE)
    IN  /\ ~Deleted
        /\ Found(children, loc)
        /\ Becomes(IF inner /\ less.num = 0 THEN [children |-> <<>>, num |-> 0] ELSE less)

entry_remove_by_name(key) ==
    /\ en = Off
    /\ remove_entry(key)
    /\ UNCHANGED <<inner, en, visited, undefined>>

\* Enumerate::Enumerate.  entry is the pointer, the rest of the bucket's list.
Enumerate ==
    /\ en = Off /\ ~Deleted
    /\ en' = [index |-> 1, entry |-> <<>>]
    /\ visited' = <<>>
    /\ UNCHANGED <<children, num_children, inner, undefined>>

\* What next() looks at: the entry it has, or the first bucket from index that is
\* not empty.
Bucket == IF en.entry # <<>> THEN en.index - 1
          ELSE SelectInSubSeq(children, en.index, Len(children), LAMBDA l : l # <<>>)

\* The enumerator after the entry has been returned: it has read entry->next.
Advanced(b) == [index |-> b + 1,
                entry |-> IF en.entry # <<>> THEN Tail(en.entry) ELSE Tail(children[b])]

\* Enumerate::next() and the handler that gets the entry: it returns, removes
\* itself, or installs itself anew.
next ==
    LET b == Bucket
        key == Head(IF en.entry # <<>> THEN en.entry ELSE children[b])
    IN  /\ en # Off /\ b # 0
        /\ en' = Advanced(b)
        /\ visited' = Append(visited, key)
        /\ \/ UNCHANGED <<children, num_children>>
           \/ remove_entry(key)
           \/ Becomes(insert(Table, key))
        /\ UNCHANGED <<inner, undefined>>

\* NULL, also if the node was deleted and its block is still as it was left; if that
\* is in use again, anything may be returned.
next_NULL == /\ en # Off /\ Bucket = 0
             /\ en' = Off
             /\ undefined' \in {FALSE, Deleted}
             /\ UNCHANGED <<children, num_children, inner, visited>>

Next == /\ ~undefined
        /\ \/ \E key \in Keys : Insert(key) \/ entry_remove_by_name(key)
           \/ Enumerate \/ next \/ next_NULL

Spec == Init /\ [][Next]_vars

-----------------------------------------------------------------------------
(* Properties *)

\* Every name is in the table at most once, in the bucket where lookup looks for
\* it, however often the table was replaced.
Findable ==
    /\ IsInjective(Entries(children))
    /\ \A key \in Keys : ~Deleted => (Contains(Entries(children), key) <=>
                                          Found(children, lookup(children, key)))

\* An enumeration returns no entry twice and, when it ends, has returned every
\* entry that is still in the table, although handlers removed or replaced
\* themselves.  (Where it ended in a block that is in use again, nothing is claimed.)
EachOnce ==
    /\ IsInjective(visited)
    /\ (en # Off /\ Bucket = 0) =>
           \A i \in 1 .. Len(Entries(children)) : Contains(visited, Entries(children)[i])
=============================================================================
