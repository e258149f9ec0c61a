-------------------------------- MODULE Binding --------------------------------
(***************************************************************************)
(* bind_parameter for every parameter of an endpoint, and invoke_endpoint  *)
(* above it: binding/request.hpp finds the value a parameter is named by   *)
(* in the query, the headers or the cookies, binding/scalar.hpp decodes    *)
(* and parses it, binding/bind.hpp settles what an absent or a refused one *)
(* means, and dispatch.hpp answers for the first that is refused or calls  *)
(* the endpoint.                                                           *)
(*                                                                         *)
(* Texts are sequences of characters, because the loops work on offsets.   *)
(* A header name stands for all its spellings (ascii_iequals), " " for a   *)
(* space or a tab.  One turn of a loop is one step.                        *)
(***************************************************************************)
EXTENDS Naturals, Sequences

CONSTANTS
    Char,           \* the characters
    Hex,            \* those that are hexadecimal digits
    Byte,           \* the character two hexadecimal digits stand for
    Digit,          \* the values of those that are decimal digits
    Cases           \* requests, each with the parameters of its endpoint

Text  == Seq(Char)
Named == [name : Text, value : Text]

Sources == {"path", "query", "header", "cookie", "body"}
Kinds   == {"string", "view", "word", "int"}

\* A parameter: where its value is, its type, what its absence means, the words its
\* bool or enum knows, the largest number its type holds, and its lower constraint.
Parameter == [source : Sources, name : Text, kind : Kinds,
              absent : {"missing_parameter", "null", "default"},
              words : SUBSET Text, most : Nat, least : Nat]

\* A request with its route's captures, the parameters of the endpoint found, and the texts
\* a client meant to send, if there are any.
WellTyped(c) ==
    /\ c.params \in Seq(Parameter)
    /\ c.query \in Text
    /\ c.headers \in Seq(Named)
    /\ c.captures \in Seq(Named)
    /\ c.body \in BOOLEAN
    /\ c.sent \in Seq(Text)

ASSUME BindingAssumption ==
    /\ {"&", "=", "%", "+", ";", " "} \subseteq Char
    /\ Hex \subseteq Char \ {"%"}
    /\ Byte \in [Hex \X Hex -> Char]
    /\ DOMAIN Digit \subseteq Char
    /\ \A d \in DOMAIN Digit : Digit[d] \in 0..9
    /\ \A c \in Cases : WellTyped(c)

VARIABLES
    request,        \* the request_view and route_match, with the endpoint's parameters
    step,           \* where bind_parameter is
    text,           \* the query or the cookies it scans
    at,             \* its offset there, or its index in the headers
    result,         \* <<value>> once found, <<>> before
    bound,          \* the tuple of bind_arguments, as far as it is made
    outcome         \* what invoke_endpoint did: a status, a parameter and a code

bindingVars == <<request, step, text, at, result, bound, outcome>>

Steps == {"find", "header", "query", "cookie", "take", "body"}
Pending == [status |-> 0, parameter |-> 0, code |-> "none"]

-----------------------------------------------------------------------------
(* Texts.                                                                  *)

\* string_view::find; one past the end stands for npos.
Find(s, c, from) ==
    CHOOSE i \in from..(Len(s) + 1) :
        /\ i = Len(s) + 1 \/ s[i] = c
        /\ \A j \in from..(i - 1) : s[j] # c

Between(s, from, to) == SubSeq(s, from, to - 1)

trim_optional_whitespace(s) ==
    LET kept == {i \in DOMAIN s : s[i] # " "}
    IN  IF kept = {} THEN <<>>
        ELSE SubSeq(s, CHOOSE i \in kept : \A j \in kept : i <= j,
                       CHOOSE i \in kept : \A j \in kept : j <= i)

Good(s)      == [ok |-> TRUE, text |-> s]
Malformed    == [ok |-> FALSE, text |-> <<>>]
Put(c, rest) == [rest EXCEPT !.text = <<c>> \o @]

\* Mutant: the bound is one digit short.
Decode_ShortEscape(s, plus) ==
    LET D[i \in Nat] ==
          IF i > Len(s) THEN Good(<<>>)
          ELSE IF s[i] = "%"
               THEN IF i + 1 >= Len(s) THEN Good(<<>>)
                    ELSE IF <<s[i + 1], s[i + 2]>> \notin Hex \X Hex THEN Malformed
                    ELSE Put(Byte[s[i + 1], s[i + 2]], D[i + 3])
               ELSE Put(IF s[i] = "+" /\ plus THEN " " ELSE s[i], D[i + 1])
    IN  D[1]

\* percent_decode, from the left.
Decode(s, plus) ==
    LET D[i \in Nat] ==
          IF i > Len(s) THEN Good(<<>>)
          ELSE IF s[i] = "%"
               THEN IF i + 2 > Len(s) THEN Malformed
                    ELSE IF <<s[i + 1], s[i + 2]>> \notin Hex \X Hex THEN Malformed
                    ELSE Put(Byte[s[i + 1], s[i + 2]], D[i + 3])
               ELSE Put(IF s[i] = "+" /\ plus THEN " " ELSE s[i], D[i + 1])
    IN  D[1]

\* requires_decoding: the value is no longer a part of the request.
Owned(s, plus) == \E i \in DOMAIN s : s[i] = "%" \/ (plus /\ s[i] = "+")

\* from_chars on the digits s starts with.
Number(s) ==
    LET end == CHOOSE i \in 1..(Len(s) + 1) :
                   /\ i <= Len(s) => s[i] \notin DOMAIN Digit
                   /\ \A j \in 1..(i - 1) : s[j] \in DOMAIN Digit
        N[i \in Nat] == IF i = 0 THEN 0 ELSE 10 * N[i - 1] + Digit[s[i]]
    IN  [whole |-> s # <<>> /\ end = Len(s) + 1, value |-> N[end - 1]]

-----------------------------------------------------------------------------
(* The parameter at hand.                                                  *)

index == Len(bound) + 1
Param == request.params[index]

Bound(code, s, n)   == [status |-> 200, code |-> code, text |-> s, number |-> n]
Error(status, code) == [status |-> status, code |-> code, text |-> <<>>, number |-> 0]

\* bind_parameter returns and the next one is evaluated.
Bind(value) ==
    /\ bound' = Append(bound, value)
    /\ step' = "find" /\ text' = <<>> /\ at' = 1 /\ result' = <<>>
    /\ UNCHANGED <<request, outcome>>

Go(where, s, found) ==
    /\ step' = where /\ text' = s /\ at' = 1 /\ result' = found
    /\ UNCHANGED <<request, bound, outcome>>

\* The name find_header_value is called with.
Wanted == CASE Param.source = "cookie" -> <<"Cookie">>
            [] Param.source = "body"   -> <<"Content-Type">>
            [] OTHER                   -> Param.name

\* The first capture of the name.
find_path_value(name) ==
    LET named == {i \in DOMAIN request.captures : request.captures[i].name = name}
    IN  IF named = {} THEN <<>>
        ELSE <<request.captures[CHOOSE i \in named : \A j \in named : i <= j].value>>

\* The search of the parameter's source starts; the path's is done at once.
Start ==
    /\ step = "find" /\ index <= Len(request.params)
    /\ CASE Param.source = "path" -> Go("take", <<>>, find_path_value(Param.name))
         [] Param.source = "query" ->
              IF request.query = <<>> THEN Go("take", <<>>, <<>>)
              ELSE Go("query", request.query, <<>>)
         [] OTHER -> Go("header", <<>>, <<>>)

\* find_header_value, header by header.
ScanHeader ==
    LET header == request.headers[at] IN
    /\ step = "header" /\ at <= Len(request.headers)
    /\ IF header.name = Wanted /\ result # <<>>
       THEN Bind(Error(IF Param.source = "body" THEN 400 ELSE 422, "duplicate_header"))
       ELSE /\ at' = at + 1
            /\ result' = IF header.name = Wanted THEN <<header.value>> ELSE result
            /\ UNCHANGED <<request, step, text, bound, outcome>>

\* No header is left; find_cookie_value goes on with what it found.
HeadersSeen ==
    /\ step = "header" /\ at > Len(request.headers)
    /\ IF Param.source = "body" THEN Go("body", <<>>, result)
       ELSE IF Param.source = "cookie" /\ result # <<>> /\ result[1] # <<>>
            THEN Go("cookie", result[1], <<>>)
       ELSE Go("take", <<>>, IF Param.source = "cookie" THEN <<>> ELSE result)

-----------------------------------------------------------------------------
(* The loops over pairs.                                                   *)

\* Mutant: the loop does not stop where find returns npos.
Advance_NoBreak(separator, found) ==
    /\ result' = found
    /\ at' = separator + 1
    /\ UNCHANGED <<request, step, text, bound, outcome>>

\* Mutant: the loop goes on at the separator.
Advance_AtSeparator(separator, found) ==
    /\ result' = found
    /\ IF separator = Len(text) + 1 THEN step' = "take" /\ UNCHANGED at
                                    ELSE at' = separator /\ UNCHANGED step
    /\ UNCHANGED <<request, text, bound, outcome>>

Advance(separator, found) ==
    /\ result' = found
    /\ IF separator = Len(text) + 1 THEN step' = "take" /\ UNCHANGED at
                                    ELSE at' = separator + 1 /\ UNCHANGED step
    /\ UNCHANGED <<request, text, bound, outcome>>

\* A pair of the query at s: without "=" its value is empty.
QueryPair(t, s) ==
    LET pair   == Between(t, s, Find(t, "&", s))
        equals == Find(pair, "=", 1)
    IN  [name |-> Decode(Between(pair, 1, equals), TRUE),
         value |-> Between(pair, equals + 1, Len(pair) + 1)]

\* Mutant: a later pair of the same name wins.
ScanQuery_Last ==
    LET pair == QueryPair(text, at) IN
    /\ step = "query"
    /\ IF ~pair.name.ok THEN Bind(Error(422, "invalid_percent_encoding"))
       ELSE Advance(Find(text, "&", at), IF pair.name.text = Param.name THEN <<pair.value>> ELSE result)

\* find_query_value, pair by pair: every name is decoded.
ScanQuery ==
    LET pair == QueryPair(text, at) IN
    /\ step = "query"
    /\ IF ~pair.name.ok THEN Bind(Error(422, "invalid_percent_encoding"))
       ELSE IF pair.name.text = Param.name /\ result # <<>>
            THEN Bind(Error(422, "duplicate_query_parameter"))
       ELSE Advance(Find(text, "&", at), IF pair.name.text = Param.name THEN <<pair.value>> ELSE result)

\* A cookie at s: without "=" it is none.
CookiePair(t, s) ==
    LET pair   == trim_optional_whitespace(Between(t, s, Find(t, ";", s)))
        equals == Find(pair, "=", 1)
    IN  [ok |-> equals <= Len(pair),
         name |-> trim_optional_whitespace(Between(pair, 1, equals)),
         value |-> trim_optional_whitespace(Between(pair, equals + 1, Len(pair) + 1))]

\* find_cookie_value, cookie by cookie.
ScanCookie ==
    LET pair == CookiePair(text, at)
        same == pair.ok /\ pair.name = Param.name
    IN  /\ step = "cookie"
        /\ IF same /\ result # <<>> THEN Bind(Error(422, "duplicate_cookie"))
           ELSE Advance(Find(text, ";", at), IF same THEN <<pair.value>> ELSE result)

-----------------------------------------------------------------------------
(* What is made of the value.                                              *)

\* parse_scalar and the constraint of the parameter, for a decoded text.
Parse(p, s) ==
    LET n == Number(s) IN
    CASE p.kind = "word" -> IF s \in p.words THEN Bound("value", s, 0)
                            ELSE Error(422, "invalid_word")
      [] p.kind = "int"  -> IF n.value > p.most THEN Error(422, "integer_out_of_range")
                            ELSE IF ~n.whole THEN Error(422, "invalid_integer")
                            ELSE IF n.value < p.least THEN Error(422, "constraint_failed")
                            ELSE Bound("value", s, n.value)
      [] OTHER           -> IF Len(s) < p.least THEN Error(422, "constraint_failed")
                            ELSE Bound("value", s, 0)

\* Mutant: form decoding is applied to every source.
Take_PlusEverywhere ==
    LET decoded == Decode(result[1], TRUE) IN
    /\ step = "take"
    /\ IF result = <<>>
       THEN Bind(IF Param.absent = "missing_parameter" THEN Error(422, Param.absent)
                                                       ELSE Bound(Param.absent, <<>>, 0))
       ELSE IF ~decoded.ok THEN Bind(Error(422, "invalid_percent_encoding"))
       ELSE IF Param.kind = "view" /\ Owned(result[1], TRUE)
            THEN Bind(Error(422, "escaped_borrowed_string"))
       ELSE Bind(Parse(Param, decoded.text))

\* The rest of bind_parameter: parse_decoded_scalar of the value, or its absence.
Take ==
    LET plus    == Param.source = "query"
        decoded == Decode(result[1], plus)
    IN  /\ step = "take"
        /\ IF result = <<>>
           THEN Bind(IF Param.absent = "missing_parameter" THEN Error(422, Param.absent)
                                                           ELSE Bound(Param.absent, <<>>, 0))
           ELSE IF ~decoded.ok THEN Bind(Error(422, "invalid_percent_encoding"))
           ELSE IF Param.kind = "view" /\ Owned(result[1], plus)
                THEN Bind(Error(422, "escaped_borrowed_string"))
           ELSE Bind(Parse(Param, decoded.text))

\* A media type is cut into words here; "+json" is one of them.
is_json_media_type(value) ==
    LET s     == trim_optional_whitespace(value)
        media == trim_optional_whitespace(Between(s, 1, Find(s, ";", 1)))
    IN  \/ media = <<"application", "/", "json">>
        \/ /\ Len(media) > 1 /\ media[Len(media)] = "+json"
           /\ \E i \in DOMAIN media : media[i] = "/"

\* The body: the media type comes first, then json::read (JsonReader).
ReadBody ==
    /\ step = "body"
    /\ IF result = <<>> THEN Bind(Error(415, "unsupported_media_type"))
       ELSE IF ~is_json_media_type(result[1]) THEN Bind(Error(415, "unsupported_media_type"))
       ELSE IF ~request.body THEN Bind(Error(422, "unreadable_body"))
       ELSE Bind(Bound("body", <<>>, 0))

\* first_binding_error, then binding_problem or the endpoint.
Answer ==
    LET refused == {i \in DOMAIN bound : bound[i].status # 200} IN
    /\ step = "find" /\ index > Len(request.params) /\ outcome = Pending
    /\ outcome' = IF refused = {} THEN [Pending EXCEPT !.status = 200]
                  ELSE LET i == CHOOSE i \in refused : \A j \in refused : i <= j
                       IN  [status |-> bound[i].status, parameter |-> i, code |-> bound[i].code]
    /\ UNCHANGED <<request, step, text, at, result, bound>>

-----------------------------------------------------------------------------

BindingInit ==
    /\ request \in Cases
    /\ step = "find" /\ text = <<>> /\ at = 1 /\ result = <<>>
    /\ bound = <<>> /\ outcome = Pending

BindingNext ==
    \/ Start \/ ScanHeader \/ HeadersSeen \/ ScanQuery \/ ScanCookie
    \/ Take \/ ReadBody \/ Answer

BindingSpec == BindingInit /\ [][BindingNext]_bindingVars

-----------------------------------------------------------------------------
(* Properties.                                                             *)

\* Offsets never pass the end of what is scanned, where substr would throw.
BindingTypeOK ==
    /\ WellTyped(request)
    /\ step \in Steps
    /\ text \in Text
    /\ at \in Nat \ {0}
    /\ step \in {"query", "cookie"} => at <= Len(text) + 1
    /\ step = "header" => at <= Len(request.headers) + 1
    /\ step # "find" => index <= Len(request.params)
    /\ result \in Seq(Text) /\ Len(result) <= 1
    /\ Len(bound) <= Len(request.params)

\* The places where a pair starts: at the front and after every separator.
Begins(t, c) == {s \in 1..(Len(t) + 1) : s = 1 \/ t[s - 1] = c}

QueryNamed(t, name)  == {s \in Begins(t, "&") : QueryPair(t, s).name.ok /\ QueryPair(t, s).name.text = name}
CookieNamed(t, name) == {s \in Begins(t, ";") : CookiePair(t, s).ok /\ CookiePair(t, s).name = name}
HeaderNamed(name)    == {i \in DOMAIN request.headers : request.headers[i].name = name}

\* What was found is the value at the only place, or there is no place.
Only(places, value, found) ==
    \/ places = {} /\ found = <<>>
    \/ \E s \in places : places = {s} /\ found = <<value[s]>>

QueryValues(t)  == [s \in Begins(t, "&") |-> QueryPair(t, s).value]
CookieValues(t) == [s \in Begins(t, ";") |-> CookiePair(t, s).value]
HeaderValues    == [i \in DOMAIN request.headers |-> request.headers[i].value]

\* "Duplicate scalar query keys, headers, and cookies are rejected": when a search of the
\* query, the cookies or the headers ends, what it found is the value of the only
\* occurrence, however its name was encoded, and it found nothing only if there is none.
FoundIsUnique ==
    step = "take" =>
        /\ Param.source = "query" =>
              /\ text = request.query
              /\ IF text = <<>> THEN result = <<>>
                 ELSE Only(QueryNamed(text, Param.name), QueryValues(text), result)
        /\ Param.source = "cookie" =>
              IF text = <<>>
              THEN result = <<>> /\ \A i \in HeaderNamed(<<"Cookie">>) : HeaderValues[i] = <<>>
              ELSE /\ Only(HeaderNamed(<<"Cookie">>), HeaderValues, <<text>>)
                   /\ Only(CookieNamed(text, Param.name), CookieValues(text), result)
        /\ Param.source = "header" => Only(HeaderNamed(Param.name), HeaderValues, result)

\* One step brings the answer nearer: a parameter is bound, the search enters a later
\* stage, or the scan moves on in the same text, whose end it never passes (BindingTypeOK).
Stage  == [find |-> 4, header |-> 3, query |-> 2, cookie |-> 2, body |-> 1, take |-> 1]
Nearer ==
    \/ Len(bound') > Len(bound)
    \/ outcome = Pending /\ outcome' # Pending
    \/ /\ bound' = bound
       /\ \/ Stage[step'] < Stage[step]
          \/ step' = step /\ text' = text /\ at' > at

=============================================================================
