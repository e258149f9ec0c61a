------------------------------- MODULE MCBinding -------------------------------
(* Binding on every short query and cookie header, and on forms and path values *)
(* that were encoded from known texts.                                         *)
EXTENDS BindingTurns, BindingMeaning, FiniteSets, TLC

MCChar == {"&", "=", "%", "+", ";", " ", "2", "5", "6", "f", "/", "~",
           "application", "json", "+json", "charset", "Cookie", "Content-Type", "X-Id"}
MCHex  == {"2", "5", "6", "f"}
MCByte == [p \in MCHex \X MCHex |->
              CASE p = <<"2", "5">> -> "%" [] p = <<"2", "6">> -> "&"
                [] p = <<"2", "f">> -> "/" [] p = <<"6", "6">> -> "f" [] OTHER -> "~"]
MCDigit == "2" :> 2 @@ "5" :> 5 @@ "6" :> 6

TextsOf(chars, n) == UNION {[1..k -> chars] : k \in 0..n}

P(source, name, kind, absent, least) ==
    [source |-> source, name |-> name, kind |-> kind, absent |-> absent,
     words |-> {<<"f">>}, most |-> 22, least |-> least]

Case(params, query, headers, captures, body, sent) ==
    [params |-> params, query |-> query, headers |-> headers, captures |-> captures,
     body |-> body, sent |-> sent]

Header(name, value) == [name |-> <<name>>, value |-> value]

-----------------------------------------------------------------------------
(* Requests of every shape.                                                *)

QueryCases(n) ==
    {Case(<<P("query", <<"f">>, "string", "null", 0), P("query", <<>>, "string", "default", 1)>>,
          q, <<>>, <<>>, TRUE, <<>>) : q \in TextsOf({"&", "=", "%", "6", "f"}, n)}
    \cup
    {Case(<<P("query", <<"2">>, "int", "missing_parameter", 2), P("query", <<"f">>, "view", "null", 0)>>,
          q, <<>>, <<>>, TRUE, <<>>) : q \in TextsOf({"&", "=", "2", "f", "+"}, n)}

CookieCases(n) ==
    {Case(<<P("cookie", <<"f">>, "word", "null", 0), P("cookie", <<>>, "string", "missing_parameter", 0)>>,
          <<>>, <<Header("Cookie", s)>>, <<>>, TRUE, <<>>) : s \in TextsOf({";", "=", "f", " "}, n)}

HeaderParams == {<<P("header", <<"X-Id">>, "int", absent, 2), P("body", <<"f">>, "string", "null", 0)>> :
                    absent \in {"null", "missing_parameter"}}
Types == {<<"application", "/", "json">>, <<" ", "application", "/", "json", " ", ";", "charset">>,
          <<"f", "/", "+json">>, <<"f", "+json">>, <<"application", "/", "json", "f">>, <<"+json">>, <<>>}
Values == {<<"2">>, <<"2", "2">>, <<"2", "2", "2">>, <<"2", "f">>, <<"+">>, <<"%", "6", "6">>, <<>>}
HeaderCases == {Case(p, <<>>, h, <<>>, body, <<>>) :
                   p \in HeaderParams, body \in BOOLEAN,
                   h \in UNION {[1..n -> {Header("X-Id", v) : v \in Values}
                                         \cup {Header("Content-Type", v) : v \in Types}] : n \in 0..2}}

-----------------------------------------------------------------------------
(* Requests that a client encoded: each character either as it is, where   *)
(* that is allowed, or by one of the escapes MCByte knows.                 *)

Escapes(c) == {<<"%", h[1], h[2]>> : h \in {h \in MCHex \X MCHex : MCByte[h] = c}}
InForm(c)  == (IF c \in {"&", "%", "+", "="} THEN {} ELSE IF c = " " THEN {<<"+">>} ELSE {<<c>>})
                 \cup Escapes(c)
InRoute(c) == (IF c \in {"/", "%"} THEN {} ELSE {<<c>>}) \cup Escapes(c)

\* Texts one character longer, with every way to spell them.
Longer(spelled, chars, way(_)) ==
    UNION {{[text |-> Append(e.text, c), form |-> e.form \o w] : e \in spelled, w \in way(c)} : c \in chars}
Empty      == {[text |-> <<>>, form |-> <<>>]}
FormChars  == {"%", "&", "f", "2", " "}
FormValues == Empty \cup Longer(Empty, FormChars, InForm)
                    \cup Longer(Longer(Empty, FormChars, InForm), FormChars, InForm)
PathChars  == {"%", "/", "f", "2", "+"}
PathValues == Longer(Longer(Longer(Empty, PathChars, InRoute), PathChars, InRoute), PathChars, InRoute)

\* "f" and "&" are the names of two fields, in either order.
FormCases ==
    {Case(<<P("query", <<"f">>, "string", "missing_parameter", 0),
            P("query", <<"&">>, "string", "missing_parameter", 0)>>,
          IF first THEN a \o <<"=">> \o v.form \o <<"&", "%", "2", "6", "=">> \o w.form
                   ELSE <<"%", "2", "6", "=">> \o w.form \o <<"&">> \o a \o <<"=">> \o v.form,
          <<>>, <<>>, TRUE, <<v.text, w.text>>) :
        first \in BOOLEAN, a \in InForm("f"), v \in FormValues, w \in Empty \cup Longer(Empty, FormChars, InForm)}
PathCases ==
    {Case(<<P("path", <<"f">>, "string", "missing_parameter", 0)>>, <<>>, <<>>,
          <<[name |-> <<"2">>, value |-> <<"2">>], [name |-> <<"f">>, value |-> v.form]>>, TRUE, <<v.text>>) :
        v \in PathValues}

MCCases == QueryCases(5) \cup CookieCases(5) \cup HeaderCases \cup FormCases \cup PathCases

\* The texts a request is said to come from are those a client would have to mean.
ASSUME SentAssumption == \A c \in FormCases \cup PathCases : Sent(c)

===============================================================================
