---------------------------- MODULE MCJsonReader ----------------------------
(* JsonReader on the renderings of small documents and on their near misses, and *)
(* JsonText on short strings and numbers and theirs.                             *)
EXTENDS JsonReader, JsonMeaning, FiniteSets, SequencesExt

Num(most)      == [kind |-> "scalar", is |-> "number", most |-> most]
Maybe(t)       == [kind |-> "optional", of |-> t]
Vector(t)      == [kind |-> "vector", of |-> t]
Pair(t)        == [kind |-> "array", of |-> t, size |-> 2]
Field(n, t, d, least) == [name |-> n, type |-> t, default |-> d, least |-> least]
Object(fields) == [kind |-> "object", fields |-> fields]

\* struct { int a [[minimum(1)]]; optional<vector<int>> b [[min_items(1)]]; }
Plain == Object(<<Field(1, Num(1), FALSE, 1), Field(2, Maybe(Vector(Num(1))), FALSE, 1)>>)
\* vector<struct { int c = default; }>
Rows  == Vector(Object(<<Field(3, Num(1), TRUE, 0)>>))
MCTypes == {Num(1), Vector(Num(1)), Maybe(Vector(Num(1))), Plain,
            Object(<<Field(3, Num(1), TRUE, 0)>>), Rows, Pair(Maybe(Num(1))), Maybe(Num(1))}

-----------------------------------------------------------------------------
(* Documents: trees of values.  An object is the list of its members, whose *)
(* names may repeat.                                                       *)

Leaf(is, val) == [is |-> is, val |-> val, items |-> <<>>]
Leaves == {Leaf("number", 1), Leaf("null", 0)}
Trees1 == {[is |-> "list", val |-> 0, items |-> s] :
              s \in UNION {[1..n -> {Leaf("number", 0), Leaf("number", 1), Leaf("null", 0)}] : n \in 0..2}}
Member == [name : {1, 2, 3, 9}, value : {Leaf("number", 0), Leaf("number", 1), Leaf("null", 0),
              [is |-> "list", val |-> 0, items |-> <<>>],
              [is |-> "list", val |-> 0, items |-> <<Leaf("number", 1)>>]}]
Row    == [is |-> "object", val |-> 0,
           items |-> <<[name |-> 3, value |-> Leaf("number", 1)]>>]
Nested == {[is |-> "list", val |-> 0, items |-> <<Row, t>>] : t \in Trees1}
             \cup {[is |-> "object", val |-> 0, items |-> <<[name |-> 9, value |-> t]>>] :
                      t \in {Row} \cup Trees1
                              \cup {[is |-> "list", val |-> 0, items |-> <<l>>] : l \in Trees1}}
Objects == {[is |-> "object", val |-> 0, items |-> s] :
               s \in UNION {[1..n -> Member] : n \in 0..2}}
Documents == Leaves \cup Trees1 \cup Objects \cup Nested

Tok(is, val) == [is |-> is, val |-> val]
RECURSIVE Render(_)
Comma(parts) == IF parts = <<>> THEN <<>>
                ELSE FoldLeft(LAMBDA all, next : all \o <<Tok(",", 0)>> \o next,
                              Head(parts), Tail(parts))
Render(d) ==
    CASE d.is = "list" ->
           <<Tok("[", 0)>> \o Comma([i \in DOMAIN d.items |-> Render(d.items[i])]) \o <<Tok("]", 0)>>
      [] d.is = "object" ->
           <<Tok("{", 0)>>
           \o Comma([i \in DOMAIN d.items |->
                        <<Tok("string", d.items[i].name), Tok(":", 0)>> \o Render(d.items[i].value)])
           \o <<Tok("}", 0)>>
      [] OTHER -> <<Tok(d.is, d.val)>>

\* Near misses: one token left out, doubled, put in or exchanged.
Without(s, i)  == SubSeq(s, 1, i - 1) \o SubSeq(s, i + 1, Len(s))
With(s, i, t)  == SubSeq(s, 1, i - 1) \o <<t>> \o SubSeq(s, i, Len(s))
Odd == {Tok(" ", 0), Tok("bad", 0), Tok(",", 0), Tok("}", 0), Tok("]", 0), Tok("string", 9), Tok("number", 5)}
Near(s) == {Without(s, i) : i \in DOMAIN s}
             \cup {With(s, i, t) : i \in 1..(Len(s) + 1), t \in Odd}
             \cup {[s EXCEPT ![i] = t] : i \in DOMAIN s, t \in Odd}
Blank(s) == With(With(FoldLeft(LAMBDA all, t : all \o <<t, Tok(" ", 0), Tok(" ", 0)>>, <<>>, s),
                      1, Tok(" ", 0)), 1, Tok(" ", 0))
Texts    == {Render(d) : d \in Documents}
MCInputs == Texts \cup {Blank(s) : s \in Texts}
                  \cup UNION {Near(s) : s \in {Render(d) : d \in Nested \cup Trees1}}
                  \cup UNION {Near(s) : s \in {t \in Texts : Len(t) <= 5}}

MCLimits == {[input |-> 40, depth |-> 3, array |-> 2, members |-> 2, rejectUnknown |-> TRUE],
             [input |-> 40, depth |-> 2, array |-> 1, members |-> 1, rejectUnknown |-> FALSE],
             [input |-> 40, depth |-> 1, array |-> 2, members |-> 2, rejectUnknown |-> FALSE],
             [input |-> 8, depth |-> 3, array |-> 2, members |-> 2, rejectUnknown |-> FALSE]}

-----------------------------------------------------------------------------
(* A reference definition, from the grammar and not from the reader: the   *)
(* documents a text is the rendering of, and what a document means.        *)

RECURSIVE Parse(_), Elements(_), Members(_)
Front1(s, k) == SubSeq(s, 1, k)
Rest(s, k)   == SubSeq(s, k, Len(s))
Parse(s) ==
    IF s = <<>> THEN {}
    ELSE IF Len(s) = 1
    THEN IF s[1].is \in {"null", "bool", "number", "string"} THEN {Leaf(s[1].is, s[1].val)} ELSE {}
    ELSE LET inner == SubSeq(s, 2, Len(s) - 1) IN
         IF s[1].is = "[" /\ s[Len(s)].is = "]"
         THEN {[is |-> "list", val |-> 0, items |-> l] :
                  l \in IF inner = <<>> THEN {<<>>} ELSE Elements(inner)}
         ELSE IF s[1].is = "{" /\ s[Len(s)].is = "}"
         THEN {[is |-> "object", val |-> 0, items |-> l] :
                  l \in IF inner = <<>> THEN {<<>>} ELSE Members(inner)}
         ELSE {}
\* A comma-separated list is one part, or a part, a comma and the others.
Splits(s) == {k \in DOMAIN s : s[k].is = ","}
Elements(s) ==
    {<<v>> : v \in Parse(s)}
    \cup UNION {{<<v>> \o l : v \in Parse(Front1(s, k - 1)), l \in Elements(Rest(s, k + 1))} :
                   k \in Splits(s)}
OneMember(s) ==
    IF Len(s) >= 3 /\ s[1].is = "string" /\ s[2].is = ":"
    THEN {[name |-> s[1].val, value |-> v] : v \in Parse(Rest(s, 3))} ELSE {}
Members(s) ==
    {<<m>> : m \in OneMember(s)}
    \cup UNION {{<<m>> \o l : m \in OneMember(Front1(s, k - 1)), l \in Members(Rest(s, k + 1))} :
                   k \in Splits(s)}

RECURSIVE WithinLimits(_, _)
WithinLimits(d, depth) ==
    CASE d.is = "list"   -> /\ depth < limits.depth /\ Len(d.items) <= limits.array
                            /\ \A i \in DOMAIN d.items : WithinLimits(d.items[i], depth + 1)
      [] d.is = "object" -> /\ depth < limits.depth /\ Len(d.items) <= limits.members
                            /\ \A i \in DOMAIN d.items : WithinLimits(d.items[i].value, depth + 1)
      [] OTHER -> TRUE

Names(d) == [i \in DOMAIN d.items |-> d.items[i].name]
Given(d, name) == {i \in DOMAIN d.items : d.items[i].name = name}

\* The value of type t that the document stands for: a set of one, or empty.
RECURSIVE Meaning(_, _)
FieldMeaning(t, d, f) ==
    IF Given(d, f.name) = {}
    THEN IF f.type.kind = "optional" THEN {Null} ELSE IF f.default THEN {Unread} ELSE {}
    ELSE {v \in Meaning(f.type, d.items[CHOOSE i \in Given(d, f.name) : TRUE].value) :
             v.is = "null" \/ f.least <= (IF v.is = "list" THEN Len(v.items) ELSE v.val)}
Meaning(t, d) ==
    CASE t.kind = "optional" -> IF d.is = "null" THEN {Null} ELSE Meaning(t.of, d)
      [] t.kind = "scalar"   -> IF d.is = t.is /\ d.val <= t.most THEN {d} ELSE {}
      [] t.kind \in {"vector", "array"} ->
           IF d.is = "list" /\ (t.kind = "array" => Len(d.items) = t.size)
              /\ \A i \in DOMAIN d.items : Meaning(t.of, d.items[i]) # {}
           THEN {List([i \in DOMAIN d.items |-> CHOOSE v \in Meaning(t.of, d.items[i]) : TRUE])}
           ELSE {}
      [] t.kind = "object" ->
           IF /\ d.is = "object"
              /\ \A i \in DOMAIN t.fields :
                    /\ Cardinality(Given(d, t.fields[i].name)) <= 1
                    /\ FieldMeaning(t, d, t.fields[i]) # {}
              /\ limits.rejectUnknown =>
                    \A k \in DOMAIN d.items : \E i \in DOMAIN t.fields :
                        t.fields[i].name = d.items[k].name
           THEN {Value("object", 0, [i \in DOMAIN t.fields |->
                    CHOOSE v \in FieldMeaning(t, d, t.fields[i]) : TRUE])}
           ELSE {}

Dense == SelectSeq(text, LAMBDA t : t.is # " ")

\* read accepts exactly the texts of the documents that have a meaning in the
\* type and keep the limits, wherever white space stands between their tokens,
\* and returns that meaning: every field from the one member of its name, null
\* or its default where there is none, constraints kept, nothing after the end.
ReadsExactly ==
    outcome # "none" =>
        LET documents == {d \in Parse(Dense) : WithinLimits(d, 0) /\ Len(text) <= limits.input}
            meanings  == UNION {Meaning(type, d) : d \in documents}
        IN  IF outcome = "accepted" THEN meanings = {result} ELSE meanings = {}

-----------------------------------------------------------------------------
(* Strings and numbers: the characters at the edges of UTF-8, the escapes, *)
(* each cut short or damaged, and every short text of a number's bytes.    *)

Raw == {<<97>>, <<127>>, <<194, 128>>, <<223, 191>>, <<224, 160, 128>>, <<237, 159, 191>>, <<238, 128, 128>>,
        <<239, 191, 191>>, <<240, 144, 128, 128>>, <<244, 143, 191, 191>>}
NotUtf8 == {<<128>>, <<195>>, <<192, 128>>, <<193, 191>>, <<224, 159, 191>>, <<237, 160, 128>>,
            <<240, 143, 191, 191>>, <<244, 144, 128, 128>>, <<245, 128, 128, 128>>, <<248>>}
U(a, b, c, d) == <<92, 117, a, b, c, d>>
Escapes == {<<92, b>> : b \in {34, 47, 92, 98, 102, 110, 114, 116, 120}}
           \cup {U(48, 48, 48, 48), U(48, 48, 55, 102), U(48, 48, 69, 57), U(50, 48, 65, 67),
                 U(68, 56, 51, 52), U(68, 56, 51, 52) \o U(68, 68, 49, 69), U(100, 98, 102, 102) \o U(100, 102, 102, 102),
                 U(68, 67, 48, 48), U(68, 56, 51, 52) \o U(48, 48, 52, 49), U(49, 50, 71, 52)}
Pieces   == Raw \cup NotUtf8 \cup Escapes \cup {<<31>>}
Contents == {<<>>} \cup Pieces \cup {a \o b : a, b \in Pieces} \cup {<<97, 97, 97>> \o a \o <<97>> : a \in Pieces}
Quoted   == {<<34>> \o c \o <<34>> : c \in Contents}
Cut(s)   == {SubSeq(s, 1, k) : k \in 0..Len(s)} \cup {Without(s, i) : i \in DOMAIN s}
               \cup {With(s, i, 34) : i \in DOMAIN s}

\* Every character, the control bytes and what is not UTF-8: what the writer may be given.
MCOriginals == {<<>>} \cup {<<b>> : b \in 0..127} \cup {a \o b : a, b \in Raw \cup {<<10>>, <<34>>, <<31>>}}
                      \cup NotUtf8 \cup {<<b>> \o a : a \in NotUtf8, b \in {10, 34}}
                      \cup {a \o <<b>> : a \in NotUtf8, b \in {10, 34}}

ShortNumbers == UNION {[1..n -> {43, 45, 46, 48, 49, 53, 56, 101}] : n \in 0..4}
Long    == {<<45, 49, 46, 53, 69, 43, 49, 48>>, <<49, 48, 48, 46, 48, 101, 45, 49>>, <<45, 49, 50, 56>>}
\* 1e999, 1e-999, 0e999, 0.0e-99 and 85e-1
Large   == {<<49, 101, 57, 57, 57>>, <<49, 101, 45, 57, 57, 57>>, <<48, 101, 57, 57, 57>>,
            <<48, 46, 48, 101, 45, 57, 57>>, <<56, 53, 101, 45, 49>>}
Numbers == ShortNumbers \cup UNION {Cut(n) : n \in Long \cup Large}

\* A small floating-point type: the numbers above 0.05 and below 850, and zero.
Tens(k)      == 10 ^ (IF k > 7 THEN 7 ELSE k)
MCHeld(m, e) ==
    \/ m = 0
    \/ e >= 0 /\ m < 850 /\ m * Tens(e) < 850
    \/ e < 0 /\ m \div Tens(-e) < 850 /\ m * 20 > Tens(-e)

Written10(n) ==
    LET places(k) == IF k < 10 THEN <<48 + k>> ELSE <<48 + (k \div 10), 48 + (k % 10)>> IN
    IF n < 0 THEN <<45>> \o places(-n) ELSE places(n)
\* The integers that a double of so many bits holds.
DoublesOf(bits) == {m * 2 ^ e : m \in -(2 ^ bits)..2 ^ bits, e \in 0..3}
MCDoubles == DoublesOf(2)
MCEven    == DoublesOf(1)

Bounds == {"minimum", "exclusive_minimum", "maximum", "exclusive_maximum"}
None   == [kind |-> "none", bound |-> 0]

TextInputs ==
    [bytes : Quoted \cup UNION {Cut(<<34>> \o p \o <<34>>) : p \in Pieces}, wanted : StringLike, rule : {None}]
    \cup [bytes : {Written[v] : v \in Writable}, wanted : {"string"}, rule : {None}]
    \cup [bytes : Numbers, wanted : {"double", "signed", "unsigned"}, rule : {None}]
    \cup [bytes : {Written10(n) : n \in -9..16}, wanted : {"signed", "unsigned"},
          rule : [kind : Bounds, bound : -9..16]]
    \cup [bytes : {<<34, 34>>, <<34, 97, 34>>, <<34, 194, 128, 34>>, <<49>>},
          wanted : {"string", "string_view", "double", "signed"},
          rule : [kind : {"min_length", "max_length"}, bound : 0..3]]
    \cup [bytes : {<<34, 97, 34>>, <<49>>}, wanted : StringLike, rule : [kind : Bounds, bound : {0}]]

\* A document is read while no token is, or a token once a reader has ended.
TooLong == CHOOSE t \in MCInputs : Len(t) > 8
MCInit ==
    \/ /\ ReaderInit
       /\ bytes = <<>> /\ wanted = "string" /\ rule = None
       /\ position = 1 /\ segment_start = 1 /\ owned = <<>> /\ owns_value = FALSE
       /\ part = "end" /\ verdict = "expected_string" /\ parsed = <<>>
    \/ /\ text = TooLong /\ limits = [input |-> 8, depth |-> 3, array |-> 2, members |-> 2, rejectUnknown |-> FALSE]
       /\ type = Num(1) /\ pos = 1 /\ result = Unread
       /\ stack = <<>> /\ made = <<>> /\ outcome = "input_too_large"
       /\ \E given \in TextInputs :
             bytes = given.bytes /\ wanted = given.wanted /\ rule = given.rule
       /\ TextStart
MCNext ==
    \/ ReaderNext /\ UNCHANGED textVars
    \/ TextNext /\ UNCHANGED readerVars
MCSpec == MCInit /\ [][MCNext]_<<readerVars, textVars>> /\ WF_readerVars(ReaderNext)

=============================================================================
