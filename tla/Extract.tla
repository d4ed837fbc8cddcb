------------------------------- MODULE Extract -------------------------------
(***************************************************************************)
(* Handler_entry::invoke and the extraction of a message's arguments with  *)
(* coercion (o2_extract_start, o2_get_next, message.cpp part 4).           *)
(*                                                                         *)
(* An argument is [t, e, v]: its type code, the element type of a vector,  *)
(* and its values: one for a scalar, one for each element of a vector; for *)
(* an array "a", e is the sequence of the element types.  Integers have W  *)
(* bits in place of 32; floats are counted in halves.  The data of the     *)
(* message are 32-bit words; the second word of 64 bits is Junk.           *)
(***************************************************************************)
EXTENDS Integers, Sequences, SequencesExt

CONSTANTS Messages,      \* the messages: sequences of arguments
          Wants,         \* what handlers ask for: sequences of [t, e]
          W              \* the bits of an int32

VARIABLES args,          \* the message
          types, data,   \* its type codes and its words
          wants,         \* what the handler asks for
          type_string,   \* the type codes of that
          how,           \* "exact" or "coerce" types of a handler, or "client"
          state,         \* "idle", "parsing", "called", "dropped" or "stopped"
          mx_type_next, mx_data_next,
          mode,          \* "", or the conversion between vector and array under way
          vtype, mx_vector_remaining,   \* of a vector that is returned as an array
          rets,          \* what o2_get_next returned for each type code
          used,          \* bytes of arg_data in use
          overwritten    \* whether memory before arg_data and argv_data was written

message == <<args, types, data, wants, type_string, how>>
vars == <<message, state, mx_type_next, mx_data_next, mode, vtype, mx_vector_remaining,
          rets, used, overwritten>>

Junk == 99
Wide == {"h", "d", "t"}
Floats == {"f", "d", "t"}
NoData == {"T", "F", "N", "I"}

Words(t, x) == IF t \in Wide THEN <<x, Junk>> ELSE IF t \in NoData THEN <<>> ELSE <<x>>
Bytes(t, n) == n * (IF t \in Wide THEN 8 ELSE 4)

\* The type codes and the data of an argument.
Codes(a) == CASE a.t = "v" -> <<"v", a.e>>
              [] a.t = "a" -> <<"[">> \o a.e \o <<"]">>
              [] OTHER -> <<a.t>>
Data(a) ==
    CASE a.t = "v" -> <<Bytes(a.e, Len(a.v))>> \o
                      FlattenSeq([i \in 1 .. Len(a.v) |-> Words(a.e, a.v[i])])
      [] a.t = "a" -> FlattenSeq([i \in 1 .. Len(a.v) |-> Words(a.e[i], a.v[i])])
      [] a.t = "b" -> <<4, a.v[1]>>
      [] OTHER -> Words(a.t, a.v[1])

TypesOf(m) == FlattenSeq([i \in 1 .. Len(m) |-> Codes(m[i])])
DataOf(m) == FlattenSeq([i \in 1 .. Len(m) |-> Data(m[i])])

Init == /\ args = <<>> /\ wants = <<>> /\ how = "exact"
        /\ types = <<>> /\ data = <<>> /\ type_string = <<>>
        /\ state = "idle"
        /\ mx_type_next = 1 /\ mx_data_next = 1
        /\ mode = "" /\ vtype = "i" /\ mx_vector_remaining = 0
        /\ rets = <<>> /\ used = 0 /\ overwritten = FALSE

type_mismatch(ts, coerce, tys) == Len(ts) # Len(tys) \/ ~(coerce \/ ts = tys)

\* o2_extract_start clears the flags of o2_ctx but mx_array_to_vector_pending.
Start(m, w, h, st) ==
    /\ args' = m /\ wants' = w /\ how' = h
    /\ types' = TypesOf(m) /\ data' = DataOf(m) /\ type_string' = TypesOf(w)
    /\ state' = st
    /\ mode' = IF st = "parsing" /\ mode # "array to vector" THEN "" ELSE mode
    /\ UNCHANGED <<mx_type_next, mx_data_next, vtype, mx_vector_remaining, rets, used,
                   overwritten>>

\* A message for a handler with a type_string arrives.
invoke(m, w, coerce) ==
    Start(m, w, IF coerce THEN "coerce" ELSE "exact",
          IF type_mismatch(TypesOf(w), coerce, TypesOf(m)) THEN "dropped" ELSE "parsing")

\* A handler without parse_args extracts the arguments itself: o2_extract_start
\* and o2_get_next for what it wants.
o2_extract_start(m, w) == Start(m, w, "client", "parsing")

\* The next message may come (nothing is known of it once memory was overwritten).
\* What o2_extract_start sets for each is forgotten here; the flags are what they are.
Finish ==
    /\ state \in {"called", "dropped"} /\ ~overwritten
    /\ state' = "idle"
    /\ args' = <<>> /\ wants' = <<>> /\ how' = "exact" /\ rets' = <<>> /\ used' = 0
    /\ types' = <<>> /\ data' = <<>> /\ type_string' = <<>>
    /\ mx_type_next' = 1 /\ mx_data_next' = 1 /\ vtype' = "i" /\ mx_vector_remaining' = 0
    /\ UNCHANGED <<mode, overwritten>>

-----------------------------------------------------------------------------
(* Conversion.  A result is <<value>>, or NULL. *)

NULL == <<>>
Int32(i) == ((i + 2 ^ (W - 1)) % 2 ^ W) - 2 ^ (W - 1)
Trunc(d) == IF d >= 0 THEN d \div 2 ELSE -((-d) \div 2)

convert_int(to_type, i) ==
    CASE to_type = "i" -> <<Int32(i)>>
      [] to_type = "h" -> <<i>>
      [] to_type \in Floats -> <<2 * i>>
      [] to_type = "B" -> <<IF i # 0 THEN 1 ELSE 0>>
      [] to_type = "T" -> IF i = 0 THEN NULL ELSE <<1>>
      [] to_type = "F" -> IF i = 0 THEN <<0>> ELSE NULL
      [] OTHER -> NULL

convert_float(to_type, d) ==
    CASE to_type = "i" -> <<Int32(Trunc(d))>>
      [] to_type = "h" -> <<Trunc(d)>>
      [] to_type \in Floats -> <<d>>
      [] OTHER -> convert_int(to_type, d)

convert(from, to_type, x) ==
    IF from \in Floats THEN convert_float(to_type, x) ELSE convert_int(to_type, x)

\* The bytes that convert_int and convert_float append to arg_data.
Room(to_type) == CASE to_type \in Wide -> 8
                   [] to_type \in {"i", "f", "B"} -> 4
                   [] OTHER -> 0

-----------------------------------------------------------------------------
(* o2_get_next *)

to == type_string[Len(rets) + 1]
code == types[mx_type_next]
word(i) == IF mx_data_next + i \in DOMAIN data THEN data[mx_data_next + i] ELSE Junk

\* A result is returned; if it is NULL the message is dropped, and behind the last
\* type code the handler is called.
Return(r) ==
    /\ rets' = Append(rets, r)
    /\ state' = IF r = NULL THEN "dropped"
                ELSE IF Len(rets) + 1 = Len(type_string) THEN "called" ELSE "parsing"
    /\ UNCHANGED message

Fail == /\ Return(NULL)
        /\ UNCHANGED <<mx_type_next, mx_data_next, mode, vtype, mx_vector_remaining, used>>

\* An argument that is neither an array nor a vector: whether the requested type
\* is used as it is, and the words it takes.
Suitable(t) == \/ to = t
               \/ {t, to} \subseteq {"s", "S"}
               \/ {t, to} \subseteq {"d", "t"}
               \/ t = "F" /\ to = "T"
Fixed == {"s", "S", "c", "b", "m", "N", "I"}
Width(t) == CASE t \in Wide \cup {"b"} -> 2 [] t \in NoData -> 0 [] OTHER -> 1

get_scalar ==
    LET x == IF code = "T" THEN 1 ELSE IF code \in NoData THEN 0
             ELSE IF code = "b" THEN word(1) ELSE word(0)
        r == IF Suitable(code) THEN <<x>>
             ELSE IF code \in Fixed THEN NULL ELSE convert(code, to, x)
    IN  /\ code \notin {"[", "]", "v"}
        /\ Return(r)
        /\ mx_type_next' = mx_type_next + 1
        /\ mx_data_next' = mx_data_next + Width(code)
        /\ used' = used + IF Suitable(code) \/ r = NULL THEN 0 ELSE Room(to)
        /\ UNCHANGED <<mode, vtype, mx_vector_remaining>>

\* '[' or ']' of the message.  For 'v' room for a descriptor is taken.
get_bracket ==
    /\ code \in {"[", "]"}
    /\ \/ to = code /\ Return(<<0>>) /\ UNCHANGED <<mode, used>>
       \/ /\ code = "[" /\ to = "v"
          /\ Return(<<0>>)
          /\ mode' = "array to vector"
          /\ used' = used + 16
       \/ /\ to # code /\ ~(code = "[" /\ to = "v")
          /\ Return(NULL) /\ UNCHANGED <<mode, used>>
    /\ mx_type_next' = mx_type_next + 1
    /\ UNCHANGED <<mx_data_next, vtype, mx_vector_remaining>>

get_vector ==
    /\ code = "v"
    /\ \/ /\ to = "["
          /\ Return(<<0>>)
          /\ mode' = "vector to array"
          /\ vtype' = types[mx_type_next + 1]
          /\ mx_vector_remaining' = word(0)
          /\ mx_type_next' = mx_type_next + 2
          /\ mx_data_next' = mx_data_next + 1
          /\ UNCHANGED used
       \/ /\ to = "v"
          /\ Return(<<word(0)>>)
          /\ mode' = "vector to vector"
          /\ mx_type_next' = mx_type_next + 1
          /\ mx_data_next' = mx_data_next + 1
          /\ used' = used + 16
          /\ UNCHANGED <<vtype, mx_vector_remaining>>
       \/ to \notin {"[", "v"} /\ Fail

\* Mutant: the length is divided by 4 for all elements.
vector_length_4(t, bytes) == bytes \div 4

vector_length(t, bytes) == bytes \div (IF t \in Wide THEN 8 ELSE 4)

\* mx_vector_to_vector_pending: the elements, converted if needed.
vector_to_vector ==
    LET n == vector_length(code, Head(Last(rets)))
        step == IF code \in Wide THEN 2 ELSE 1
        x(i) == word((i - 1) * step)
    IN  IF code # to /\ \E i \in 1 .. n : convert(code, to, x(i)) = NULL THEN Fail
        ELSE /\ Return(<<[i \in 1 .. n |-> IF code = to THEN x(i)
                                           ELSE Head(convert(code, to, x(i)))]>>)
             /\ mode' = ""
             /\ mx_type_next' = mx_type_next + 1
             /\ mx_data_next' = mx_data_next + n * step
             /\ used' = used + IF code = to THEN 0 ELSE n * Room(to)
             /\ UNCHANGED <<vtype, mx_vector_remaining>>

\* mx_vector_to_array: one element, or the end.
vector_to_array ==
    LET wide == vtype \in Wide
        left == mx_vector_remaining - IF wide THEN 8 ELSE 4
        r == IF vtype = to THEN <<word(0)>> ELSE convert(vtype, to, word(0))
    IN  \/ /\ to = "]" /\ mx_vector_remaining = 0
           /\ Return(<<0>>)
           /\ mode' = ""
           /\ UNCHANGED <<mx_data_next, mx_vector_remaining, used>>
        \/ /\ to # "]" /\ left >= 0
           /\ Return(r)
           /\ mx_data_next' = mx_data_next + IF wide THEN 2 ELSE 1
           /\ mx_vector_remaining' = left
           /\ used' = used + IF vtype = to \/ r = NULL THEN 0 ELSE Room(to)
           /\ UNCHANGED mode
        \/ /\ IF to = "]" THEN mx_vector_remaining # 0 ELSE left < 0
           /\ Return(NULL)
           /\ UNCHANGED <<mx_data_next, mx_vector_remaining, mode, used>>

\* mx_array_to_vector_pending: the numbers up to ']', which stays the next code; in
\* front of any other code NULL, and the flag stays.  If it was left by an earlier
\* message, argv_data is empty: pop_back stops the program, or without assertions the
\* descriptor is written before arg_data.
array_to_vector ==
    \/ /\ rets = <<>>
       /\ state' = "stopped"
       /\ UNCHANGED <<message, mx_type_next, mx_data_next, mode, vtype, mx_vector_remaining,
                      rets, used, overwritten>>
    \/ LET numbers == SelectInSubSeq(types \o <<"">>, mx_type_next, Len(types) + 1,
                                     LAMBDA c : c \notin {"i", "h", "f", "d"})
           elems == SubSeq(types, mx_type_next, numbers - 1)
           before(i) == FoldLeft(LAMBDA n, t : n + Width(t), 0, SubSeq(elems, 1, i - 1))
           vector == [i \in 1 .. Len(elems) |->
                         LET c == convert(elems[i], to, word(before(i)))
                         IN  IF c = NULL THEN Junk ELSE Head(c)]
           ended == numbers <= Len(types) /\ types[numbers] = "]"
       IN  /\ Return(IF ended THEN <<vector>> ELSE NULL)
           /\ mode' = IF ended THEN "" ELSE mode
           /\ mx_type_next' = IF ended THEN numbers ELSE numbers + 1
           /\ mx_data_next' = mx_data_next + before(Len(elems) + 1)
           /\ used' = used + Len(elems) * Room(to)
           /\ overwritten' = (overwritten \/ rets = <<>>)
           /\ UNCHANGED <<vtype, mx_vector_remaining>>

\* Nothing is returned behind the last type code of the message, whatever remains
\* of a vector.
o2_get_next ==
    /\ state = "parsing"
    /\ \/ /\ mx_type_next <= Len(types) /\ mode = "array to vector"
          /\ array_to_vector
       \/ mx_type_next > Len(types) /\ Fail /\ UNCHANGED overwritten
       \/ /\ mx_type_next <= Len(types)
          /\ UNCHANGED overwritten
          /\ \/ mode = "vector to vector" /\ vector_to_vector
             \/ mode = "vector to array" /\ vector_to_array /\ UNCHANGED <<mx_type_next, vtype>>
             \/ mode = "" /\ (get_scalar \/ get_bracket \/ get_vector)

Next == \/ /\ state = "idle"
           /\ \E m \in Messages, w \in Wants :
                 (\E coerce \in BOOLEAN : invoke(m, w, coerce)) \/ o2_extract_start(m, w)
        \/ o2_get_next
        \/ Finish

Spec == Init /\ [][Next]_vars

-----------------------------------------------------------------------------
(* What o2.h promises *)

Numbers == {"i", "h", "f", "d"}
Truths == {"T", "F", "B"}

\* The table of o2.h, and the entries in which the code differs from it (it
\* coerces them, although "Coercion fails in all cases not marked").
Documented(from, t) ==
    \/ from \in Numbers /\ t \in Numbers \cup {"t"} \cup Truths
    \/ from = "t" /\ t \in Numbers \cup {"t"}
    \/ from \in Truths /\ t \in Numbers \cup {"B"}
    \/ from = "B" /\ t \in Truths
    \/ {from, t} \subseteq {"s", "S"}
    \/ from = t
Undocumented(from, t) ==
    \/ from = "F" /\ t = "T"
    \/ from = "T" /\ t = "F"
    \/ from = "t" /\ t \in Truths
    \/ from \in Truths /\ t = "t"

\* The value of x after coercion, as a set that is empty where coercion fails.
Coerced(from, t, x) ==
    LET halves == IF from \in Floats THEN x ELSE 2 * x
        whole == IF halves >= 0 THEN halves \div 2 ELSE -((-halves) \div 2)
    IN  IF ~Documented(from, t) THEN {}
        ELSE CASE t \in Floats -> {halves}
               [] t = "h" -> {whole}
               [] t = "i" -> {Int32(whole)}
               [] t = "B" -> {IF from = "B" THEN x ELSE IF halves = 0 THEN 0 ELSE 1}
               [] t = "T" -> IF from = "T" \/ halves # 0 THEN {1} ELSE {}
               [] t = "F" -> IF from = "F" \/ halves = 0 THEN {0} ELSE {}
               [] OTHER -> {x}

ElemType(a, i) == IF a.t = "v" THEN a.e ELSE a.e[i]
Elements(a, w) == {i \in 1 .. Len(a.v) : Coerced(ElemType(a, i), ElemType(w, i), a.v[i]) = {}}

\* Whether an argument can be had as w, and what the calls return then.
Obtainable(a, w) ==
    CASE w.t = "v" -> a.t \in {"v", "a"} /\ Elements(a, w) = {}
      [] w.t = "a" -> a.t \in {"v", "a"} /\ Len(a.v) = Len(w.e) /\ Elements(a, w) = {}
      [] OTHER -> a.t \notin {"v", "a"} /\ Coerced(a.t, w.t, a.v[1]) # {}
TheValue(S) == CHOOSE x \in S : TRUE
Elem(a, w, i) == TheValue(Coerced(ElemType(a, i), ElemType(w, i), a.v[i]))
Obtained(a, w) ==
    LET seq == [i \in 1 .. Len(a.v) |-> Elem(a, w, i)]
    IN  CASE w.t = "v" -> << <<seq>> >>
          [] w.t = "a" -> [i \in 1 .. Len(seq) |-> <<seq[i]>>]
          [] OTHER -> << <<TheValue(Coerced(a.t, w.t, a.v[1]))>> >>

\* Where the code is known to differ: the undocumented entries, a vector that is
\* the last argument taken as an array, an array as a vector before another one.
Differs(i) ==
    LET a == args[i]
        w == wants[i]
    IN  \/ a.t \notin {"v", "a"} /\ Undocumented(a.t, w.t)
        \/ a.t = "v" /\ w.t = "a" /\ i = Len(args)
        \/ a.t = "a" /\ w.t = "v" /\ (i < Len(wants) \/ \E k \in DOMAIN a.e : a.e[k] \notin Numbers)
        \/ a.t \in {"v", "a"} /\ w.t \in {"v", "a"} /\ \E k \in 1 .. Len(a.v) :
               (w.t = "v" \/ k <= Len(w.e)) /\ Undocumented(ElemType(a, k), ElemType(w, k))

\* What the calls for [ and v return besides is left out.
Values == SelectSeq([k \in 1 .. Len(rets) |->
                       IF type_string[k] \in {"[", "]", "v"} THEN <<>> ELSE rets[k]],
                    LAMBDA r : r # <<>>)

\* A message is handled exactly if each of its arguments can be had as what the
\* handler asks for, by the coercions that o2.h lists and between vectors and
\* arrays, and the handler then gets those values, whatever is left of a vector of an
\* earlier message (o2_get_next keeps its place in the types and in the data apart).
\* Messages behind an array that was refused as a vector are left out: they are
\* extracted with mx_array_to_vector_pending still set (`overwritten`).
CoercedAsDocumented ==
    LET known == \A i \in 1 .. Len(wants) : i <= Len(args) => ~Differs(i)
        can == /\ Len(wants) <= Len(args)
               /\ \A i \in 1 .. Len(wants) : Obtainable(args[i], wants[i])
               /\ how # "client" => Len(type_string) = Len(types)
               /\ how = "exact" => type_string = types
    IN  state \in {"called", "dropped"} /\ ~overwritten /\ known =>
            /\ (state = "called") = can
            /\ can => Values = FlattenSeq([i \in 1 .. Len(wants) |-> Obtained(args[i], wants[i])])

\* The room for coerced arguments that o2_extract_start provides.
arg_needed(types_len, data_len) ==
    (IF types_len * 8 > data_len * 6 THEN data_len * 6 ELSE types_len * 8) + 16

\* The coerced arguments of a message stay in the room o2_extract_start made for
\* them: arg_data never moves while pointers into it are in the argument vector.
\* Left out is what the room is not made for: T and F, which have no data, and vectors
\* whose converted elements take more than the 16 bytes that are there for safety.
Total(s) == FoldLeft(LAMBDA x, y : x + y, 0, s)
ConvertedBytes ==
    Total([i \in 1 .. Len(args) |->
        IF args[i].t # "v" \/ i > Len(wants) \/ wants[i].t \notin {"v", "a"} THEN 0
        ELSE Total([k \in 1 .. Len(args[i].v) |->
            IF wants[i].t = "a" /\ k > Len(wants[i].e) THEN 0
            ELSE IF ElemType(wants[i], k) = args[i].e THEN 0
            ELSE Room(ElemType(wants[i], k))])])
ArgDataFits ==
    \/ used <= arg_needed(Len(types), 4 * Len(data))
    \/ {"T", "F"} \cap Range(types) # {} \/ ConvertedBytes > 16 \/ overwritten
=============================================================================
