---------------------------- MODULE BindingMeaning ----------------------------
(***************************************************************************)
(* What a request means for a parameter, without the loops of Binding: the *)
(* places that name the parameter, the places that refuse it, and the text *)
(* that a value spells.  And how a client makes a request of the texts it  *)
(* means to send.                                                          *)
(***************************************************************************)
EXTENDS Binding, FiniteSets

\* A text is well formed when two digits follow every percent sign.
WellFormed(s) == \A i \in DOMAIN s : s[i] = "%" => i + 2 <= Len(s) /\ {s[i + 1], s[i + 2]} \subseteq Hex

\* A percent sign stands for the character its digits spell, a digit after it for
\* nothing, and every other character for itself.
InEscape(s, i)    == (i > 1 /\ s[i - 1] = "%") \/ (i > 2 /\ s[i - 2] = "%")
Standing(s)       == {i \in DOMAIN s : ~InEscape(s, i)}
Spelled(s, plus, i) ==
    IF s[i] = "%" THEN Byte[s[i + 1], s[i + 2]] ELSE IF s[i] = "+" /\ plus THEN " " ELSE s[i]
Rank(S, i)        == Cardinality({j \in S : j <= i})
Plain(s, plus)    == [k \in 1..Cardinality(Standing(s)) |->
                         Spelled(s, plus, CHOOSE i \in Standing(s) : Rank(Standing(s), i) = k)]

Before(s, c) == Between(s, 1, Find(s, c, 1))
After(s, c)  == Between(s, Find(s, c, 1) + 1, Len(s) + 1)

First(S) == CHOOSE i \in S : \A j \in S : i <= j
Again(S) == {i \in S : \E j \in S : j < i}

\* The parts of t between separators, by where they start; an empty text has none.
Parts(t, c) == [s \in IF t = <<>> THEN {} ELSE Begins(t, c) |-> Between(t, s, Find(t, c, s))]

\* The values a request has for a parameter, by place, and what is wrong first.
InQuery(r, p) ==
    LET parts == Parts(r.query, "&")
        bad   == {s \in DOMAIN parts : ~WellFormed(Before(parts[s], "="))}
        named == {s \in DOMAIN parts \ bad : Plain(Before(parts[s], "="), TRUE) = p.name}
        wrong == bad \cup Again(named)
    IN  [error |-> IF wrong = {} THEN "none"
                   ELSE IF First(wrong) \in bad THEN "invalid_percent_encoding"
                   ELSE "duplicate_query_parameter",
         value |-> [s \in named |-> After(parts[s], "=")]]

InHeaders(r, name) ==
    LET named == {i \in DOMAIN r.headers : r.headers[i].name = name}
    IN  [error |-> IF Again(named) = {} THEN "none" ELSE "duplicate_header",
         value |-> [i \in named |-> r.headers[i].value]]

InCookies(r, p) ==
    LET held  == InHeaders(r, <<"Cookie">>)
        cookies == IF DOMAIN held.value = {} THEN <<>> ELSE held.value[First(DOMAIN held.value)]
        parts == Parts(cookies, ";")
        named == {s \in DOMAIN parts : /\ \E i \in DOMAIN parts[s] : parts[s][i] = "="
                                       /\ trim_optional_whitespace(Before(parts[s], "=")) = p.name}
    IN  [error |-> IF held.error # "none" THEN held.error
                   ELSE IF Again(named) = {} THEN "none" ELSE "duplicate_cookie",
         value |-> [s \in named |-> trim_optional_whitespace(After(parts[s], "="))]]

InPath(r, p) ==
    [error |-> "none",
     value |-> [i \in {i \in DOMAIN r.captures : r.captures[i].name = p.name} |-> r.captures[i].value]]

Given(r, p) ==
    CASE p.source = "query"  -> InQuery(r, p)
      [] p.source = "cookie" -> InCookies(r, p)
      [] p.source = "header" -> InHeaders(r, p.name)
      [] p.source = "body"   -> InHeaders(r, <<"Content-Type">>)
      [] p.source = "path"   -> InPath(r, p)

\* What a value means for p, what the media type means for a body, and what no value does.
MeantBy(p, raw) ==
    LET plain == Plain(raw, p.source = "query")
    IN  IF ~WellFormed(raw) THEN Error(422, "invalid_percent_encoding")
        ELSE IF p.kind = "view" /\ plain # raw THEN Error(422, "escaped_borrowed_string")
        ELSE Parse(p, plain)

MeantBody(r, type) ==
    IF ~is_json_media_type(type) THEN Error(415, "unsupported_media_type")
    ELSE IF ~r.body THEN Error(422, "unreadable_body")
    ELSE Bound("body", <<>>, 0)

MeantByNone(p) ==
    IF p.source = "body" THEN Error(415, "unsupported_media_type")
    ELSE IF p.absent = "missing_parameter" THEN Error(422, p.absent)
    ELSE Bound(p.absent, <<>>, 0)

Meant(r, p) ==
    LET given  == Given(r, p)
        places == DOMAIN given.value
    IN  IF given.error # "none" THEN Error(IF p.source = "body" THEN 400 ELSE 422, given.error)
        ELSE IF places = {} THEN MeantByNone(p)
        ELSE IF p.source = "body" THEN MeantBody(r, given.value[First(places)])
        ELSE MeantBy(p, given.value[First(places)])

\* Every parameter is bound to what the request means for it, which no order of pairs,
\* headers or parameters changes; a refusal is the first parameter's.
BoundAsMeant ==
    outcome # Pending =>
        LET refused == {i \in DOMAIN bound : bound[i].status # 200}
        IN  /\ Len(bound) = Len(request.params)
            /\ \A i \in DOMAIN bound : bound[i] = Meant(request, request.params[i])
            /\ outcome = IF refused = {} THEN [status |-> 200, parameter |-> 0, code |-> "none"]
                         ELSE [status |-> bound[First(refused)].status, parameter |-> First(refused),
                               code |-> bound[First(refused)].code]

-----------------------------------------------------------------------------
(* What a client sends, from the texts it means to the request it writes.  *)

\* The client writes w for the character c: the character as it is, an escape that stands for
\* it, or in a form a plus for a space.
Writes(w, c, plus) ==
    \/ w = <<c>> /\ c # "%" /\ (plus => c # "+")
    \/ w = <<"+">> /\ plus /\ c = " "
    \/ \E a, b \in Hex : w = <<"%", a, b>> /\ c = Byte[a, b]

\* s is what the client makes of the text t, character by character.
Encodes(s, t, plus) ==
    \E cut \in [1..(Len(t) + 1) -> 1..(Len(s) + 1)] :
        /\ cut[1] = 1 /\ cut[Len(t) + 1] = Len(s) + 1
        /\ \A k \in 1..Len(t) : Writes(Between(s, cut[k], cut[k + 1]), t[k], plus)

From(r, source) == {i \in DOMAIN r.params : r.params[i].source = source}

\* The one capture of the name holds the text encoded.
SentInPath(r, name, t) ==
    \E j \in DOMAIN r.captures :
        /\ \A k \in DOMAIN r.captures : r.captures[k].name = name <=> k = j
        /\ Encodes(r.captures[j].value, t, FALSE)

\* The query has one field for every parameter, in any order, with its name and its text encoded.
SentInQuery(r) ==
    LET parts == Parts(r.query, "&")
    IN  \E field \in [DOMAIN parts -> From(r, "query")] :
            /\ \A i \in From(r, "query") : \E s \in DOMAIN parts :
                   \A u \in DOMAIN parts : field[u] = i <=> u = s
            /\ \A s \in DOMAIN parts :
                   /\ Encodes(Before(parts[s], "="), r.params[field[s]].name, TRUE)
                   /\ Encodes(After(parts[s], "="), r.sent[field[s]], TRUE)

\* r.sent are the texts that the client sent for the parameters, all of them strings in the
\* path or in the query.
Sent(r) ==
    /\ Len(r.sent) = Len(r.params)
    /\ \A i \in DOMAIN r.params :
           /\ r.params[i].source \in {"path", "query"} /\ r.params[i].kind = "string"
           /\ r.params[i].least <= Len(r.sent[i])
    /\ \A i, j \in From(r, "query") : r.params[i].name = r.params[j].name => i = j
    /\ \A i \in From(r, "path") : SentInPath(r, r.params[i].name, r.sent[i])
    /\ SentInQuery(r)

\* What a client encodes is what the endpoint receives, decoded once: in any order of
\* the fields, however names and values are escaped, percent signs, separators and
\* slashes in the values included.
SentIsReceived ==
    outcome # Pending /\ Sent(request) =>
        outcome.status = 200 /\ [i \in DOMAIN bound |-> bound[i].text] = request.sent

===============================================================================
