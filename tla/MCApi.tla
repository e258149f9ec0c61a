-------------------------------- MODULE MCApi --------------------------------
(* Api with every small route, many small namespaces and the requests they get. *)
EXTENDS Api, FiniteSets, TLC

MCNameChar  == {"a", "b", "x", "y"}
MCOtherChar == {"/", "{", "}", "*"}

TextsOf(chars, n) == UNION {[1..k -> chars] : k \in 0..n}
Joined(pieces, n) ==
    LET J[k \in 0..n] == IF k = 0 THEN {<<>>} ELSE {s \o <<"/">> \o t : s \in J[k - 1], t \in pieces}
    IN  UNION {J[k] : k \in 1..n}

X == <<"x">>
Holder == <<"{", "x", "}">>
Rest   == <<"{", "*", "x", "}">>
Both   == <<"/", "{", "x", "}", "/", "{", "*", "y", "}">>

-----------------------------------------------------------------------------
(* Patterns of up to two segments with texts of up to three characters, of *)
(* one longer segment, and of three and four short ones.                   *)

Segments(n) ==
    [kind : {"literal"}, text : TextsOf({"*", "a"}, n) \ {<<>>}]
        \cup [kind : {"parameter", "catch_all"}, text : TextsOf({"a", "b", "x"}, IF n > 3 THEN 3 ELSE n) \ {<<>>}]
MCPatterns ==
    {<<>>} \cup [1..1 -> Segments(5)] \cup [1..2 -> Segments(3)]
        \cup [1..3 -> Segments(1)] \cup [1..4 -> [kind : {"literal", "parameter"}, text : {<<"a">>}]]

-----------------------------------------------------------------------------
(* Aggregates: a leaf, one that contains itself, two that contain each     *)
(* other, two that ask for one name, one that asks for the name of the     *)
(* built-in component, and the text of response.hpp.                       *)

MCObject == {"Leaf", "Tree", "Left", "Right", "Other", "Problem", "Text"}
MCFields == "Leaf" :> <<"int">> @@ "Tree" :> <<"int", "Tree", "Leaf">> @@ "Left" :> <<"Right", "Leaf">>
            @@ "Right" :> <<"Left">> @@ "Other" :> <<"Leaf">> @@ "Problem" :> <<"Text">>
            @@ "Text" :> <<"int">>
MCNameOf == [o \in MCObject |-> IF o = "Other" THEN "Leaf" ELSE o]

-----------------------------------------------------------------------------
(* Declarations.                                                           *)

Param(id, annotations, storage, type, defaults) ==
    [identifier |-> id, annotations |-> annotations, storage |-> storage, type |-> type,
     defaults |-> defaults]
Scalar(id) == Param(id, <<>>, "scalar", "int", 0)
From(from, wire) == [source |-> from, wire |-> wire]

Result(form, type, errors) == [form |-> form, type |-> type, errors |-> errors]
Void == Result("void", "int", <<>>)

Declare(id, m, p, params, result) ==
    [id |-> id, method |-> m, path |-> p, params |-> params, result |-> result]
Simple(id, m, p) == Declare(id, m, p, IF HasChar(p, "x") THEN <<Scalar(X)>> ELSE <<>>, Void)

Slash == <<"/">>
A == <<"/", "a">>
\* /  /a  /{x}  /a/b  /a/{x}  /{x}/b  /a/{*x}  /{*x}
Routes == {Slash, A, Slash \o Holder, A \o <<"/", "b">>, A \o Slash \o Holder,
           Slash \o Holder \o <<"/", "b">>, A \o Slash \o Rest, Slash \o Rest}
Requests == UNION {[1..n -> {<<>>, <<"a">>, <<"b">>}] : n \in 0..2}
               \cup {<<<<"a">>, <<"b">>, <<"b">>>>, <<<<"a">>, <<>>, <<"b">>>>}

\* Up to two endpoints, or three of one method or of a method and its fallback.
Namespaces ==
    {[endpoints |-> [i \in DOMAIN f |-> Simple(i, f[i].method, f[i].path)], paths |-> Requests] :
        f \in UNION {[1..n -> [method : {"get", "head", "options"}, path : Routes]] : n \in 0..2}
                 \cup [1..3 -> [method : {"get", "head"}, path : Routes \ {Slash}]]}

\* A source of one character after another, or put together from segments.
Grammar(s) == [endpoints |-> <<Declare(1, "get", s, <<Scalar(<<"a">>)>>, Void)>>, paths |-> {}]
Many == Joined({<<"a">>, <<"{", "a", "}">>, <<"{", "b", "}">>, <<"{", "*", "x", "}">>, <<>>}, 4)

\* Every declaration of the two parameters x and y.
Parameters(id) ==
    {Param(id, annotations, storage, "Leaf", defaults) :
        annotations \in {<<>>, <<From("path", X)>>, <<From("path", <<>>)>>, <<From("query", X)>>,
                         <<From("header", <<"x">>), From("body", <<>>)>>, <<From("body", <<>>)>>},
        storage \in {"scalar", "optional", "aggregate", "context"}, defaults \in 0..1}
Bindings ==
    {[endpoints |-> <<Declare(1, m, p, <<a, b>>, Result("value", "Tree", <<>>))>>,
      paths |-> {<<>>, <<<<"a">>>>, <<<<"a">>, <<"b">>>>}] :
        m \in {"get", "post"}, p \in {Slash, Slash \o Holder, Slash \o Rest, Both},
        a \in Parameters(X), b \in {q \in Parameters(<<"y">>) : q.defaults = 0}}

\* Every result, with up to two mapped errors.
Results ==
    {[endpoints |-> <<Declare(1, m, A, <<Scalar(X)>>,
                              Result(form, IF form = "text" THEN "Text" ELSE "Left", errors))>>,
      paths |-> {<<<<"a">>>>}] :
        m \in {"get", "post"}, form \in Form \ {"void"},
        errors \in UNION {[1..n -> {200, 404, 422}] : n \in 0..3}}

\* Every list of three types, as a body and as results.
Schemas ==
    {[endpoints |-> <<Declare(1, "post", A, <<Param(X, <<From("body", <<>>)>>, "aggregate", t[1], 0)>>,
                              Result("created", t[2], <<>>)),
                      Declare(id, "get", A, <<>>, Result("value", t[3], <<404>>))>>,
      paths |-> {<<<<"a">>>>}] : t \in [1..3 -> MCObject \cup {"int"}], id \in 1..2}

MCInit ==
    /\ \/ program \in Namespaces
       \/ \E n \in 0..6 : \E s \in [1..n -> {"/", "{", "}", "*", "a"}] : program = Grammar(s)
       \/ \E s \in Many : program = Grammar(s)
       \/ program \in Bindings
       \/ program \in Results
       \/ program \in Schemas
    /\ ApiStart

MCSpec == MCInit /\ [][ApiNext]_vars

=============================================================================
