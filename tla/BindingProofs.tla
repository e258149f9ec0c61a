----------------------------- MODULE BindingProofs -----------------------------
(***************************************************************************)
(* For every request and every list of parameters: the loops of            *)
(* bind_parameter stay within their texts, what a search ends with is the  *)
(* value of the only occurrence, every turn brings the answer nearer, each *)
(* parameter is bound to what the request means for it, and what a client  *)
(* encodes is what the endpoint receives.                                  *)
(***************************************************************************)
EXTENDS BindingTurns, BindingMeaning, Positions, FiniteSetTheorems

-----------------------------------------------------------------------------
(* Texts.                                                                  *)

\* string_view::find stops at the character or past the end, and at none before.
LEMMA FindType ==
    ASSUME NEW s \in Text, NEW c, NEW from \in 1..(Len(s) + 1)
    PROVE  /\ Find(s, c, from) \in from..(Len(s) + 1)
           /\ Find(s, c, from) = Len(s) + 1 \/ s[Find(s, c, from)] = c
           /\ \A j \in from..(Find(s, c, from) - 1) : s[j] # c
<1> DEFINE n == Len(s) + 1
           Z == {i \in Nat : i = n \/ s[i] = c}
<1>1. n \in Nat /\ from \in 1..n
  BY DEF Text
<1>2. n \in Z /\ Z \in SUBSET Nat
  BY <1>1
<1>3. PICK q \in from..n : q \in Z /\ \A j \in from..(q - 1) : j \notin Z
  <2> HIDE DEF Z, n
  <2>1. QED
    BY <1>1, <1>2, FirstFrom
<1>4. \A j \in from..(q - 1) : j \in Nat
  <2> HIDE DEF Z
  <2>1. QED
    BY <1>1
<1>5. (q = n \/ s[q] = c) /\ \A j \in from..(q - 1) : s[j] # c
  BY <1>3, <1>4
<1> HIDE DEF Z
<1>6. QED
  BY <1>5 DEF Find

\* A part of a text is a text.
LEMMA BetweenType ==
    ASSUME NEW s \in Text, NEW from \in Nat \ {0}, NEW to \in 0..(Len(s) + 1)
    PROVE  Between(s, from, to) \in Text
<1> DEFINE n == to - 1
<1>1. Len(s) \in Nat /\ from \in Int /\ n \in Int /\ from >= 1 /\ n <= Len(s)
  BY DEF Text
<1>2. \A i \in from..n : i \in 1..Len(s)
  BY <1>1
<1>3. \A i \in from..n : s[i] \in Char
  BY <1>2, ElementOfSeq DEF Text
<1>4. Between(s, from, to) = SubSeq(s, from, n)
  BY DEF Between
<1> HIDE DEF n
<1>5. SubSeq(s, from, n) \in Seq(Char)
  BY <1>1, <1>3, SubSeqProperties
<1>6. QED
  BY <1>4, <1>5 DEF Text

\* Trimming leaves a part of the text.
LEMMA TrimType ==
    ASSUME NEW s \in Text
    PROVE  trim_optional_whitespace(s) \in Text
<1> DEFINE kept == {i \in DOMAIN s : s[i] # " "}
<1>1. Len(s) \in Nat /\ kept \in SUBSET (1..Len(s))
  <2>1. Len(s) \in Nat /\ DOMAIN s = 1..Len(s)
    BY DEF Text
  <2>2. kept \in SUBSET (DOMAIN s)
    OBVIOUS
  <2> HIDE DEF kept
  <2>3. QED
    BY <2>1, <2>2
<1>2. CASE kept = {}
  BY <1>2, EmptySeq DEF trim_optional_whitespace, Text
<1>3. CASE kept # {}
  <2> DEFINE first == CHOOSE i \in kept : \A j \in kept : i <= j
             last  == CHOOSE i \in kept : \A j \in kept : j <= i
  <2>1. first \in kept
    <3>1. \E i \in kept : \A j \in kept : i <= j
      <4> HIDE DEF kept
      <4>1. kept \in SUBSET Nat
        BY <1>1
      <4>2. QED
        BY <1>3, <4>1, FirstPosition
    <3> HIDE DEF kept
    <3>2. QED
      BY <3>1
  <2>2. last \in kept
    <3>1. \E i \in kept : \A j \in kept : j <= i
      <4> HIDE DEF kept
      <4>1. kept \in SUBSET (0..Len(s))
        BY <1>1
      <4>2. QED
        BY <1>1, <1>3, <4>1, LastPosition
    <3> HIDE DEF kept
    <3>2. QED
      BY <3>1
  <2>3. trim_optional_whitespace(s) = SubSeq(s, first, last)
    BY <1>3 DEF trim_optional_whitespace
  <2> HIDE DEF first, last, kept
  <2>4. first \in 1..Len(s) /\ last \in 1..Len(s)
    BY <1>1, <2>1, <2>2
  <2>5. SubSeq(s, first, last) = Between(s, first, last + 1)
    BY <1>1, <2>4 DEF Between
  <2>6. first \in Nat \ {0} /\ last + 1 \in 0..(Len(s) + 1)
    BY <1>1, <2>4
  <2>7. QED
    BY <2>3, <2>5, <2>6, BetweenType
<1>4. QED
  BY <1>2, <1>3

\* The pair that starts at a position, and the position after its separator.
LEMMA NextBegin ==
    ASSUME NEW t \in Text, NEW c, NEW s \in Begins(t, c)
    PROVE  /\ Find(t, c, s) \in 1..(Len(t) + 1)
           /\ Find(t, c, s) = Len(t) + 1 => \A r \in Begins(t, c) : r <= s
           /\ Find(t, c, s) # Len(t) + 1 =>
                 /\ Find(t, c, s) + 1 \in Begins(t, c)
                 /\ \A r \in Begins(t, c) : r < Find(t, c, s) + 1 <=> r < s \/ r = s
<1> DEFINE e == Find(t, c, s)
<1>1. Len(t) \in Nat /\ s \in 1..(Len(t) + 1)
  BY DEF Begins, Text
<1>2. /\ e \in s..(Len(t) + 1)
      /\ e = Len(t) + 1 \/ t[e] = c
      /\ \A j \in s..(e - 1) : t[j] # c
  BY <1>1, FindType
<1> HIDE DEF e
<1>3. e \in Nat /\ s <= e /\ e <= Len(t) + 1 /\ s \in Nat /\ s >= 1
  BY <1>1, <1>2
<1>4. ASSUME NEW r \in Begins(t, c), r > s PROVE r > e
  <2>1. r \in 1..(Len(t) + 1) /\ (r = 1 \/ t[r - 1] = c)
    BY DEF Begins
  <2>2. t[r - 1] = c
    BY <1>3, <1>4, <2>1
  <2>3. r - 1 \notin s..(e - 1)
    BY <1>2, <2>2
  <2>4. QED
    BY <1>1, <1>3, <1>4, <2>1, <2>3
<1>5. \A r \in Begins(t, c) : r \in 1..(Len(t) + 1)
  BY DEF Begins
<1>6. e = Len(t) + 1 => \A r \in Begins(t, c) : r <= s
  BY <1>1, <1>3, <1>4, <1>5
<1>7. ASSUME e # Len(t) + 1 PROVE e + 1 \in Begins(t, c)
  <2>1. e + 1 \in 1..(Len(t) + 1) /\ t[(e + 1) - 1] = c
    <3>1. (e + 1) - 1 = e
      BY <1>3
    <3>2. QED
      BY <1>1, <1>2, <1>3, <1>7, <3>1
  <2>2. QED
    BY <2>1 DEF Begins
<1>8. \A r \in Begins(t, c) : r < e + 1 <=> r < s \/ r = s
  BY <1>1, <1>3, <1>4, <1>5
<1>9. QED
  BY <1>1, <1>3, <1>6, <1>7, <1>8 DEF e

\* A pair is a text.
LEMMA PairType ==
    ASSUME NEW t \in Text, NEW c, NEW s \in Begins(t, c)
    PROVE  Between(t, s, Find(t, c, s)) \in Text
<1>1. s \in 1..(Len(t) + 1) /\ Len(t) \in Nat
  BY DEF Begins, Text
<1>2. Find(t, c, s) \in s..(Len(t) + 1)
  BY <1>1, FindType
<1>3. s \in Nat \ {0} /\ Find(t, c, s) \in 0..(Len(t) + 1)
  BY <1>1, <1>2
<1>4. QED
  BY <1>3, BetweenType

\* What follows "=" in a pair is a text.
LEMMA AfterEquals ==
    ASSUME NEW t \in Text
    PROVE  Between(t, Find(t, "=", 1) + 1, Len(t) + 1) \in Text
<1>1. Len(t) \in Nat
  BY DEF Text
<1>2. Find(t, "=", 1) \in 1..(Len(t) + 1)
  BY <1>1, FindType
<1>3. Find(t, "=", 1) + 1 \in Nat \ {0} /\ Len(t) + 1 \in 0..(Len(t) + 1)
  BY <1>1, <1>2
<1>4. QED
  BY <1>3, BetweenType

\* The value of a pair of the query is a text.
LEMMA QueryValueType ==
    ASSUME NEW t \in Text, NEW s \in Begins(t, "&")
    PROVE  QueryPair(t, s).value \in Text
BY PairType, AfterEquals DEF QueryPair

\* So is the value of a cookie.
LEMMA CookieValueType ==
    ASSUME NEW t \in Text, NEW s \in Begins(t, ";")
    PROVE  CookiePair(t, s).value \in Text
<1> DEFINE pair == trim_optional_whitespace(Between(t, s, Find(t, ";", s)))
<1>1. pair \in Text
  BY PairType, TrimType
<1>2. CookiePair(t, s).value =
         trim_optional_whitespace(Between(pair, Find(pair, "=", 1) + 1, Len(pair) + 1))
  BY DEF CookiePair
<1> HIDE DEF pair
<1>3. QED
  BY <1>1, <1>2, AfterEquals, TrimType

-----------------------------------------------------------------------------
(* The only occurrence.                                                    *)

\* One more place: with a value found there already it is a duplicate, else its value
\* is the only one.
LEMMA OnlyGrows ==
    ASSUME NEW P, NEW x, NEW values, NEW found, Only(P, values, found), found = <<>>
    PROVE  Only(P \cup {x}, values, <<values[x]>>)
<1>1. P = {}
  BY DEF Only
<1>2. P \cup {x} = {x}
  BY <1>1
<1>3. QED
  BY <1>2 DEF Only

\* A loop over pairs has seen the places before its offset; one turn later it has seen
\* those before the next offset, and at the end all of them.
LEMMA PairSeen ==
    ASSUME NEW t \in Text, NEW c, NEW s \in Begins(t, c),
           NEW N \in SUBSET Begins(t, c), NEW values, NEW found,
           Only({r \in N : r < s}, values, found),
           s \in N => found = <<>>,
           NEW next, next = IF s \in N THEN <<values[s]>> ELSE found
    PROVE  /\ Find(t, c, s) = Len(t) + 1 => Only(N, values, next)
           /\ Find(t, c, s) # Len(t) + 1 =>
                 Only({r \in N : r < Find(t, c, s) + 1}, values, next)
<1> DEFINE P == {r \in N : r < s}
           Q == IF s \in N THEN P \cup {s} ELSE P
           e == Find(t, c, s)
<1>1. Only(Q, values, next)
  <2>1. CASE s \in N
    BY <2>1, OnlyGrows
  <2>2. QED
    BY <2>1
<1>2. N \subseteq Nat /\ s \in Nat
  BY DEF Begins, Text
<1>3. ASSUME e = Len(t) + 1 PROVE N = Q
  <2>1. \A r \in N : r <= s
    BY <1>3, NextBegin
  <2>2. \A r \in N : r < s \/ r = s
    BY <1>2, <2>1
  <2>3. QED
    BY <2>2
<1>4. ASSUME e # Len(t) + 1 PROVE {r \in N : r < e + 1} = Q
  <2>1. \A r \in N : r < e + 1 <=> r < s \/ r = s
    BY <1>4, NextBegin
  <2>2. QED
    BY <1>2, <2>1
<1>5. QED
  BY <1>1, <1>3, <1>4

-----------------------------------------------------------------------------
(* The inductive invariant: while a search runs, what it found is the only *)
(* value among the places it has seen.                                     *)

TypeInv ==
    /\ request \in Cases
    /\ step \in Steps /\ text \in Text /\ at \in Nat \ {0}
    /\ result \in Seq(Text) /\ Len(result) <= 1
    /\ Len(bound) \in Nat /\ bound = [k \in 1..Len(bound) |-> bound[k]]
    /\ Len(bound) <= Len(request.params)
    /\ step # "find" => index <= Len(request.params)

HeaderInv ==
    step = "header" =>
        /\ Param.source \in {"header", "cookie", "body"}
        /\ at <= Len(request.headers) + 1
        /\ Only({i \in HeaderNamed(Wanted) : i < at}, HeaderValues, result)

QueryInv ==
    step = "query" =>
        /\ Param.source = "query" /\ text = request.query /\ text # <<>>
        /\ at \in Begins(text, "&")
        /\ Only({s \in QueryNamed(text, Param.name) : s < at}, QueryValues(text), result)

CookieInv ==
    step = "cookie" =>
        /\ Param.source = "cookie" /\ text # <<>>
        /\ Only(HeaderNamed(<<"Cookie">>), HeaderValues, <<text>>)
        /\ at \in Begins(text, ";")
        /\ Only({s \in CookieNamed(text, Param.name) : s < at}, CookieValues(text), result)

BindingInv == TypeInv /\ HeaderInv /\ QueryInv /\ CookieInv /\ FoundIsUnique

\* What the types of the request and of the parameter at hand are.
LEMMA RequestType ==
    ASSUME TypeInv
    PROVE  /\ WellTyped(request)
           /\ request.params \in Seq(Parameter) /\ Len(request.params) \in Nat
           /\ request.query \in Text
           /\ request.headers \in Seq(Named) /\ Len(request.headers) \in Nat
           /\ request.captures \in Seq(Named)
           /\ index \in Nat \ {0}
           /\ index <= Len(request.params) => Param \in Parameter /\ Param.source \in Sources
           /\ \A i \in DOMAIN request.headers : request.headers[i].value \in Text
           /\ \A i \in DOMAIN request.captures : request.captures[i].value \in Text
<1>1. WellTyped(request)
  BY BindingAssumption DEF TypeInv
<1>2. /\ request.params \in Seq(Parameter) /\ Len(request.params) \in Nat
      /\ request.query \in Text
      /\ request.headers \in Seq(Named) /\ Len(request.headers) \in Nat
      /\ request.captures \in Seq(Named)
  BY <1>1 DEF WellTyped
<1>3. index \in Nat \ {0}
  BY DEF TypeInv, index
<1>4. ASSUME index <= Len(request.params)
      PROVE  Param \in Parameter /\ Param.source \in Sources
  <2>1. Param \in Parameter
    BY <1>2, <1>3, <1>4, ElementOfSeq DEF Param
  <2>2. QED
    BY <2>1 DEF Parameter
<1>5. \A h \in Seq(Named) : \A i \in DOMAIN h : h[i] \in Named
  OBVIOUS
<1>6. \A n \in Named : n.value \in Text
  BY DEF Named
<1>7. QED
  BY <1>1, <1>2, <1>3, <1>4, <1>5, <1>6

-----------------------------------------------------------------------------
(* The steps.                                                              *)

\* bind_parameter returns: whatever it returns, the invariant holds.
LEMMA BindInv ==
    ASSUME BindingInv, index <= Len(request.params), NEW v, Bind(v)
    PROVE  BindingInv'
<1>1. bound' = Append(bound, v) /\ step' = "find" /\ text' = <<>> /\ at' = 1 /\ result' = <<>>
      /\ request' = request
  BY DEF Bind
<1>2. Len(bound) \in Nat /\ bound = [k \in 1..Len(bound) |-> bound[k]]
  BY DEF BindingInv, TypeInv
<1>3. /\ Len(Append(bound, v)) = Len(bound) + 1
      /\ Append(bound, v) = [k \in 1..(Len(bound) + 1) |-> Append(bound, v)[k]]
  BY <1>2, AppendAny
<1>4. Len(bound') = Len(bound) + 1 /\ bound' = [k \in 1..Len(bound') |-> bound'[k]]
  BY <1>1, <1>3
<1>5. Len(bound') \in Nat /\ Len(bound') <= Len(request'.params)
  BY <1>1, <1>2, <1>4, RequestType DEF index, BindingInv
<1>6. text' \in Text /\ result' \in Seq(Text) /\ Len(result') <= 1
  BY <1>1, EmptySeq DEF Text
<1>7. TypeInv'
  BY <1>1, <1>4, <1>5, <1>6 DEF BindingInv, TypeInv, Steps
<1>8. (HeaderInv /\ QueryInv /\ CookieInv /\ FoundIsUnique)'
  BY <1>1 DEF HeaderInv, QueryInv, CookieInv, FoundIsUnique
<1>9. QED
  BY <1>7, <1>8 DEF BindingInv

\* A step that binds nothing leaves the parameter at hand and the request alone.
LEMMA SameParameter ==
    ASSUME TypeInv, UNCHANGED <<request, bound>>, index <= Len(request.params),
           step' \in Steps, text' \in Text, at' \in Nat \ {0},
           result' \in Seq(Text), Len(result') <= 1
    PROVE  /\ TypeInv'
           /\ index' = index /\ Param' = Param /\ Wanted' = Wanted
           /\ HeaderValues' = HeaderValues
           /\ \A n : HeaderNamed(n)' = HeaderNamed(n)
<1>1. index' = index
  BY DEF index
<1>2. Param' = Param
  BY <1>1 DEF Param
<1>3. Wanted' = Wanted
  BY <1>2 DEF Wanted
<1>4. HeaderValues' = HeaderValues /\ \A n : HeaderNamed(n)' = HeaderNamed(n)
  BY DEF HeaderValues, HeaderNamed
<1>5. TypeInv'
  BY <1>1 DEF TypeInv
<1>6. QED
  BY <1>1, <1>2, <1>3, <1>4, <1>5

\* A search that has seen no place has found nothing.
LEMMA NothingSeen ==
    ASSUME NEW t \in Text, NEW c, NEW N \in SUBSET Begins(t, c), NEW values
    PROVE  1 \in Begins(t, c) /\ Only({s \in N : s < 1}, values, <<>>)
<1>1. Len(t) \in Nat
  BY DEF Text
<1>2. 1 \in Begins(t, c)
  BY <1>1 DEF Begins
<1>3. \A s \in N : ~(s < 1)
  BY <1>1 DEF Begins
<1>4. {s \in N : s < 1} = {}
  BY <1>3
<1>5. QED
  BY <1>2, <1>4 DEF Only

\* Start: the searches begin at their first place.
LEMMA StartInv ==
    ASSUME BindingInv, Start
    PROVE  BindingInv'
<1>1. TypeInv /\ step = "find" /\ index <= Len(request.params)
  BY DEF BindingInv, Start
<1>2. Param.source \in Sources
  BY <1>1, RequestType
<1>3. ASSUME NEW found \in Seq(Text), Len(found) <= 1, Param.source = "path",
             Go("take", <<>>, found)
      PROVE  BindingInv'
  <2>1. step' = "take" /\ text' = <<>> /\ at' = 1 /\ result' = found /\ UNCHANGED <<request, bound>>
    BY <1>3 DEF Go
  <2>2. text' \in Text
    BY <2>1, EmptySeq DEF Text
  <2>3. TypeInv' /\ Param' = Param
    BY <1>1, <1>3, <2>1, <2>2, SameParameter DEF Steps
  <2>4. QED
    BY <1>3, <2>1, <2>3 DEF BindingInv, HeaderInv, QueryInv, CookieInv, FoundIsUnique
<1>4. CASE Param.source = "path"
  <2> DEFINE named == {i \in DOMAIN request.captures : request.captures[i].name = Param.name}
             i == CHOOSE i \in named : \A j \in named : i <= j
  <2>1. Go("take", <<>>, IF named = {} THEN <<>> ELSE <<request.captures[i].value>>)
    BY <1>4 DEF Start, find_path_value
  <2>2. named \subseteq DOMAIN request.captures /\ DOMAIN request.captures \subseteq Nat
    <3>1. request.captures \in Seq(Named)
      BY <1>1, RequestType
    <3>2. DOMAIN request.captures = 1..Len(request.captures) /\ Len(request.captures) \in Nat
      BY <3>1
    <3>3. QED
      BY <3>2
  <2>3. ASSUME named # {} PROVE i \in named
    <3> HIDE DEF named
    <3>1. PICK q \in named : \A r \in named : q <= r
      BY <2>2, <2>3, FirstPosition
    <3>2. QED
      BY <3>1
  <2> HIDE DEF i
  <2>4. ASSUME named # {} PROVE request.captures[i].value \in Text
    <3>1. i \in DOMAIN request.captures
      BY <2>2, <2>3, <2>4
    <3> HIDE DEF named
    <3>2. QED
      BY <1>1, <3>1, RequestType
  <2> HIDE DEF named
  <2>5. CASE named = {}
    <3>1. Go("take", <<>>, <<>>)
      BY <2>1, <2>5
    <3>2. <<>> \in Seq(Text) /\ Len(<<>>) <= 1
      BY EmptySeq
    <3>3. QED
      BY <1>3, <1>4, <3>1, <3>2
  <2>6. CASE named # {}
    <3> DEFINE found == <<request.captures[i].value>>
    <3>1. Go("take", <<>>, found)
      BY <2>1, <2>6
    <3>2. found \in Seq(Text) /\ Len(found) <= 1
      BY <2>4, <2>6
    <3> HIDE DEF found
    <3>3. QED
      BY <1>3, <1>4, <3>1, <3>2
  <2>7. QED
    BY <2>5, <2>6
<1>5. CASE Param.source = "query" /\ request.query = <<>>
  <2>1. step' = "take" /\ text' = <<>> /\ at' = 1 /\ result' = <<>> /\ UNCHANGED <<request, bound>>
    BY <1>5 DEF Start, Go
  <2>2. text' \in Text /\ result' \in Seq(Text) /\ Len(result') <= 1
    BY <2>1, EmptySeq DEF Text
  <2>3. TypeInv' /\ Param' = Param
    BY <1>1, <2>1, <2>2, SameParameter DEF Steps
  <2>4. QED
    BY <1>5, <2>1, <2>3 DEF BindingInv, HeaderInv, QueryInv, CookieInv, FoundIsUnique
<1>6. CASE Param.source = "query" /\ request.query # <<>>
  <2>1. step' = "query" /\ text' = request.query /\ at' = 1 /\ result' = <<>>
        /\ UNCHANGED <<request, bound>>
    BY <1>6 DEF Start, Go
  <2>2. text' \in Text /\ result' \in Seq(Text) /\ Len(result') <= 1
    BY <1>1, <2>1, EmptySeq, RequestType
  <2>3. TypeInv' /\ Param' = Param
    BY <1>1, <2>1, <2>2, SameParameter DEF Steps
  <2>4. QueryNamed(text', Param.name) \in SUBSET Begins(text', "&")
    BY DEF QueryNamed
  <2>5. /\ 1 \in Begins(text', "&")
        /\ Only({s \in QueryNamed(text', Param.name) : s < 1}, QueryValues(text'), <<>>)
    BY <2>2, <2>4, NothingSeen
  <2>6. QueryInv'
    BY <1>6, <2>1, <2>3, <2>5 DEF QueryInv
  <2>7. QED
    BY <2>1, <2>3, <2>6 DEF BindingInv, HeaderInv, CookieInv, FoundIsUnique
<1>7. CASE Param.source \in {"header", "cookie", "body"}
  <2>1. step' = "header" /\ text' = <<>> /\ at' = 1 /\ result' = <<>> /\ UNCHANGED <<request, bound>>
    BY <1>7 DEF Start, Go
  <2>2. text' \in Text /\ result' \in Seq(Text) /\ Len(result') <= 1
    BY <2>1, EmptySeq DEF Text
  <2>3. /\ TypeInv' /\ Param' = Param /\ Wanted' = Wanted /\ HeaderValues' = HeaderValues
        /\ \A n : HeaderNamed(n)' = HeaderNamed(n)
    BY <1>1, <2>1, <2>2, SameParameter DEF Steps
  <2>4. Len(request.headers) \in Nat
    BY <1>1, RequestType
  <2>5. {i \in HeaderNamed(Wanted) : i < 1} = {}
    <3>1. DOMAIN request.headers = 1..Len(request.headers)
      BY <1>1, RequestType
    <3>2. \A i \in HeaderNamed(Wanted) : ~(i < 1)
      BY <2>4, <3>1 DEF HeaderNamed
    <3>3. QED
      BY <3>2
  <2>6. HeaderInv'
    BY <1>7, <2>1, <2>3, <2>4, <2>5 DEF HeaderInv, Only
  <2>7. QED
    BY <2>1, <2>3, <2>6 DEF BindingInv, QueryInv, CookieInv, FoundIsUnique
<1>8. QED
  BY <1>2, <1>4, <1>5, <1>6, <1>7 DEF Sources

\* ScanHeader: one more header is seen, and a second one of the name is refused.
LEMMA ScanHeaderInv ==
    ASSUME BindingInv, ScanHeader
    PROVE  BindingInv'
<1> DEFINE header == request.headers[at]
           N      == HeaderNamed(Wanted)
           P      == {i \in N : i < at}
<1>1. TypeInv /\ step = "header" /\ at <= Len(request.headers) /\ index <= Len(request.params)
  BY DEF BindingInv, ScanHeader, TypeInv
<1>2. /\ Len(request.headers) \in Nat /\ at \in Nat \ {0}
      /\ DOMAIN request.headers = 1..Len(request.headers)
  BY <1>1, RequestType DEF TypeInv
<1>3. at \in DOMAIN request.headers
  BY <1>1, <1>2
<1>4. Only(P, HeaderValues, result) /\ Param.source \in {"header", "cookie", "body"}
  BY <1>1 DEF BindingInv, HeaderInv
<1>5. header.value \in Text /\ HeaderValues[at] = header.value /\ (at \in N <=> header.name = Wanted)
  BY <1>1, <1>3, RequestType DEF HeaderValues, HeaderNamed
<1>6. CASE header.name = Wanted /\ result # <<>>
  <2>1. PICK v : Bind(v)
    BY <1>6 DEF ScanHeader
  <2>2. QED
    BY <1>1, <2>1, BindInv
<1>7. CASE ~(header.name = Wanted /\ result # <<>>)
  <2>1. /\ at' = at + 1 /\ UNCHANGED <<request, step, text, bound, outcome>>
        /\ result' = IF header.name = Wanted THEN <<header.value>> ELSE result
    BY <1>7 DEF ScanHeader
  <2>2. result \in Seq(Text) /\ Len(result) <= 1 /\ text \in Text
    BY <1>1 DEF TypeInv
  <2>3. <<header.value>> \in Seq(Text) /\ Len(<<header.value>>) = 1
    BY <1>5
  <2>4. result' \in Seq(Text) /\ Len(result') <= 1
    BY <2>1, <2>2, <2>3
  <2>5. /\ TypeInv' /\ Param' = Param /\ Wanted' = Wanted /\ HeaderValues' = HeaderValues
        /\ \A n : HeaderNamed(n)' = HeaderNamed(n)
    BY <1>1, <1>2, <2>1, <2>2, <2>4, SameParameter DEF Steps
  <2>6. Only(IF at \in N THEN P \cup {at} ELSE P, HeaderValues, result')
    <3>1. CASE header.name = Wanted
      <4>1. result = <<>> /\ result' = <<HeaderValues[at]>> /\ at \in N
        BY <1>5, <1>7, <2>1, <3>1
      <4> HIDE DEF N, P
      <4>2. QED
        BY <1>4, <4>1, OnlyGrows
    <3>2. CASE header.name # Wanted
      <4>1. result' = result /\ at \notin N
        BY <1>5, <2>1, <3>2
      <4> HIDE DEF N, P
      <4>2. QED
        BY <1>4, <4>1
    <3>3. QED
      BY <3>1, <3>2
  <2>7. {i \in N : i < at + 1} = IF at \in N THEN P \cup {at} ELSE P
    <3>1. N \subseteq Nat
      BY <1>2 DEF HeaderNamed
    <3>2. \A i \in N : i < at + 1 <=> i < at \/ i = at
      BY <1>2, <3>1
    <3> HIDE DEF N
    <3>3. QED
      BY <1>2, <3>1, <3>2
  <2>8. HeaderInv'
    <3>1. Only({i \in HeaderNamed(Wanted)' : i < at'}, HeaderValues', result')
      BY <2>1, <2>5, <2>6, <2>7
    <3>2. at' <= Len(request'.headers) + 1 /\ Param'.source \in {"header", "cookie", "body"}
      BY <1>1, <1>2, <1>4, <2>1, <2>5
    <3>3. QED
      BY <2>5, <3>1, <3>2 DEF HeaderInv
  <2>9. QED
    BY <1>1, <2>1, <2>5, <2>8 DEF BindingInv, QueryInv, CookieInv, FoundIsUnique
<1>8. QED
  BY <1>6, <1>7

\* When no header is left, what was found is the only one of the name.
LEMMA HeadersAllSeen ==
    ASSUME BindingInv, step = "header", at > Len(request.headers)
    PROVE  Only(HeaderNamed(Wanted), HeaderValues, result)
<1> DEFINE N == HeaderNamed(Wanted)
<1>1. /\ Len(request.headers) \in Nat /\ at \in Nat \ {0}
      /\ DOMAIN request.headers = 1..Len(request.headers)
  BY RequestType DEF BindingInv, TypeInv
<1>2. Only({i \in N : i < at}, HeaderValues, result)
  BY DEF BindingInv, HeaderInv
<1>3. {i \in N : i < at} = N
  <2>1. \A i \in N : i \in 1..Len(request.headers)
    BY <1>1 DEF HeaderNamed
  <2>2. \A i \in N : i < at
    BY <1>1, <2>1
  <2> HIDE DEF N
  <2>3. QED
    BY <2>2
<1>4. QED
  BY <1>2, <1>3

LEMMA SingleIs ==
    ASSUME NEW T, NEW s \in Seq(T), Len(s) <= 1, s # <<>>
    PROVE  s[1] \in T /\ s = <<s[1]>>
<1>1. Len(s) \in Nat /\ Len(s) # 0
  BY EmptySeq
<1>2. Len(s) = 1
  <2> DEFINE n == Len(s)
  <2>1. n \in Nat /\ n # 0 /\ n <= 1
    BY <1>1
  <2> HIDE DEF n
  <2>2. n = 1
    BY ONLY <2>1
  <2>3. QED
    BY <2>2 DEF n
<1>3. QED
  BY <1>2

\* HeadersSeen: what was found is the only header of the name.
LEMMA HeadersSeenInv ==
    ASSUME BindingInv, HeadersSeen
    PROVE  BindingInv'
<1>1. TypeInv /\ step = "header" /\ at > Len(request.headers) /\ index <= Len(request.params)
  BY DEF BindingInv, HeadersSeen, TypeInv
<1>3. Param.source \in {"header", "cookie", "body"}
  BY <1>1 DEF BindingInv, HeaderInv
<1>5. Only(HeaderNamed(Wanted), HeaderValues, result)
  BY <1>1, HeadersAllSeen
<1>6. result \in Seq(Text) /\ Len(result) <= 1 /\ <<>> \in Text /\ <<>> \in Seq(Text) /\ Len(<<>>) <= 1
  BY <1>1, EmptySeq DEF TypeInv, Text
<1>7. CASE Param.source = "body"
  <2>1. step' = "body" /\ text' = <<>> /\ at' = 1 /\ result' = result /\ UNCHANGED <<request, bound>>
    BY <1>7 DEF HeadersSeen, Go
  <2>2. TypeInv'
    BY <1>1, <1>6, <2>1, SameParameter DEF Steps
  <2>3. QED
    BY <2>1, <2>2 DEF BindingInv, HeaderInv, QueryInv, CookieInv, FoundIsUnique
<1>8. CASE Param.source = "header"
  <2>1. step' = "take" /\ text' = <<>> /\ at' = 1 /\ result' = result /\ UNCHANGED <<request, bound>>
    BY <1>8 DEF HeadersSeen, Go
  <2>2. /\ TypeInv' /\ Param' = Param /\ HeaderValues' = HeaderValues
        /\ \A n : HeaderNamed(n)' = HeaderNamed(n)
    BY <1>1, <1>6, <2>1, SameParameter DEF Steps
  <2>3. Wanted = Param.name
    BY <1>8 DEF Wanted
  <2>4. Only(HeaderNamed(Param.name)', HeaderValues', result')
    BY <1>5, <2>1, <2>2, <2>3
  <2>5. FoundIsUnique'
    BY <1>8, <2>1, <2>2, <2>4 DEF FoundIsUnique
  <2>6. QED
    BY <2>1, <2>2, <2>5 DEF BindingInv, HeaderInv, QueryInv, CookieInv
<1>9. CASE Param.source = "cookie"
  <2>1. Wanted = <<"Cookie">>
    BY <1>9 DEF Wanted
  <2>2. Only(HeaderNamed(<<"Cookie">>), HeaderValues, result)
    BY <1>5, <2>1
  <2>3. CASE result # <<>> /\ result[1] # <<>>
    <3>1. step' = "cookie" /\ text' = result[1] /\ at' = 1 /\ result' = <<>>
          /\ UNCHANGED <<request, bound>>
      BY <1>9, <2>3 DEF HeadersSeen, Go
    <3>2. result[1] \in Text /\ result = <<result[1]>>
      <4>1. result \in Seq(Text) /\ Len(result) <= 1 /\ result # <<>>
        BY <1>6, <2>3
      <4> HIDE DEF Text
      <4>2. QED
        BY ONLY <4>1, SingleIs
    <3>3. /\ TypeInv' /\ Param' = Param /\ HeaderValues' = HeaderValues
          /\ \A n : HeaderNamed(n)' = HeaderNamed(n)
      BY <1>1, <1>6, <3>1, <3>2, SameParameter DEF Steps
    <3>4. CookieNamed(text', Param.name) \in SUBSET Begins(text', ";")
      BY DEF CookieNamed
    <3>5. /\ 1 \in Begins(text', ";")
          /\ Only({s \in CookieNamed(text', Param.name) : s < 1}, CookieValues(text'), <<>>)
      BY <3>1, <3>2, <3>4, NothingSeen
    <3>6. Only(HeaderNamed(<<"Cookie">>)', HeaderValues', <<text'>>)
      BY <2>2, <3>1, <3>2, <3>3
    <3>7. CookieInv'
      BY <1>9, <2>3, <3>1, <3>3, <3>5, <3>6 DEF CookieInv
    <3>8. QED
      BY <3>1, <3>3, <3>7 DEF BindingInv, HeaderInv, QueryInv, FoundIsUnique
  <2>4. CASE ~(result # <<>> /\ result[1] # <<>>)
    <3>1. step' = "take" /\ text' = <<>> /\ at' = 1 /\ result' = <<>> /\ UNCHANGED <<request, bound>>
      BY <1>9, <2>4 DEF HeadersSeen, Go
    <3>2. /\ TypeInv' /\ Param' = Param /\ HeaderValues' = HeaderValues
          /\ \A n : HeaderNamed(n)' = HeaderNamed(n)
      BY <1>1, <1>6, <3>1, SameParameter DEF Steps
    <3>3. \A i \in HeaderNamed(<<"Cookie">>) : HeaderValues[i] = <<>>
      BY <2>2, <2>4 DEF Only
    <3>4. \A i \in HeaderNamed(<<"Cookie">>)' : HeaderValues'[i] = <<>>
      BY <3>2, <3>3
    <3>5. FoundIsUnique'
      BY <1>9, <3>1, <3>2, <3>4 DEF FoundIsUnique
    <3>6. QED
      BY <3>1, <3>2, <3>5 DEF BindingInv, HeaderInv, QueryInv, CookieInv
  <2>5. QED
    BY <2>3, <2>4
<1>10. QED
  BY <1>3, <1>7, <1>8, <1>9

\* ScanQuery: one more pair is seen; at the end, every pair.
LEMMA ScanQueryInv ==
    ASSUME BindingInv, ScanQuery
    PROVE  BindingInv'
<1> DEFINE N    == QueryNamed(text, Param.name)
           e    == Find(text, "&", at)
           next == IF at \in N THEN <<QueryValues(text)[at]>> ELSE result
<1>1. TypeInv /\ step = "query" /\ index <= Len(request.params)
  BY DEF BindingInv, ScanQuery, TypeInv
<1>2. /\ at \in Begins(text, "&") /\ Param.source = "query"
      /\ Only({s \in N : s < at}, QueryValues(text), result)
  BY <1>1 DEF BindingInv, QueryInv
<1>3. text \in Text /\ result \in Seq(Text) /\ Len(result) <= 1 /\ N \in SUBSET Begins(text, "&")
  BY <1>1 DEF TypeInv, QueryNamed
<1>4. QueryValues(text)[at] = QueryPair(text, at).value /\ QueryValues(text)[at] \in Text
  BY <1>2, <1>3, QueryValueType DEF QueryValues
<1>5. at \in N <=> QueryPair(text, at).name.ok /\ QueryPair(text, at).name.text = Param.name
  BY <1>2 DEF QueryNamed
<1>6. CASE ~QueryPair(text, at).name.ok \/ (QueryPair(text, at).name.text = Param.name /\ result # <<>>)
  <2>1. PICK v : Bind(v)
    BY <1>6 DEF ScanQuery
  <2>2. QED
    BY <1>1, <2>1, BindInv
<1>7. CASE ~(~QueryPair(text, at).name.ok \/ (QueryPair(text, at).name.text = Param.name /\ result # <<>>))
  <2>1. Len(text) \in Nat
    BY <1>1 DEF TypeInv, Text
  <2>2. Advance(e, next)
    BY <1>4, <1>5, <1>7 DEF ScanQuery
  <2>3. at \in N => result = <<>>
    BY <1>5, <1>7
  <2>4. next \in Seq(Text) /\ Len(next) <= 1
    <3>1. <<QueryValues(text)[at]>> \in Seq(Text) /\ Len(<<QueryValues(text)[at]>>) <= 1
      BY <1>4
    <3>2. next = <<QueryValues(text)[at]>> \/ next = result
      BY Zenon
    <3> HIDE DEF next
    <3>3. QED
      BY <1>3, <3>1, <3>2
  <2>5. /\ e = Len(text) + 1 => Only(N, QueryValues(text), next)
        /\ e # Len(text) + 1 => Only({r \in N : r < e + 1}, QueryValues(text), next)
    <3> HIDE DEF N
    <3>1. QED
      BY <1>2, <1>3, <2>3, PairSeen
  <2>6. /\ e \in 1..(Len(text) + 1)
        /\ e # Len(text) + 1 => e + 1 \in Begins(text, "&")
    BY <1>2, <1>3, NextBegin
  <2> HIDE DEF next, e
  <2>7. e \in 1..(Len(text) + 1)
    BY <2>6, Zenon
  <2>8. CASE e = Len(text) + 1
    <3>1. step' = "take" /\ result' = next /\ UNCHANGED <<at, text, request, bound>>
      BY <2>2, <2>8 DEF Advance
    <3>2. /\ TypeInv' /\ Param' = Param /\ HeaderValues' = HeaderValues
          /\ \A n : HeaderNamed(n)' = HeaderNamed(n)
      <4>1. at' \in Nat \ {0}
        BY <1>1, <3>1 DEF TypeInv
      <4>2. QED
        BY <1>1, <1>3, <2>4, <3>1, <4>1, SameParameter DEF Steps
    <3>3. Only(QueryNamed(text', Param'.name), QueryValues(text'), result')
      BY <2>5, <2>8, <3>1, <3>2
    <3>4. FoundIsUnique'
      <4>1. text = request.query /\ text # <<>>
        BY <1>1 DEF BindingInv, QueryInv
      <4>2. text' = request'.query /\ text' # <<>>
        BY <3>1, <3>2, <4>1
      <4>3. QED
        BY <1>2, <3>1, <3>2, <3>3, <4>2 DEF FoundIsUnique
    <3>5. QED
      BY <3>1, <3>2, <3>4 DEF BindingInv, HeaderInv, QueryInv, CookieInv
  <2>9. CASE e # Len(text) + 1
    <3>1. at' = e + 1 /\ result' = next /\ UNCHANGED <<step, text, request, bound>>
      BY <2>2, <2>9 DEF Advance
    <3>2. /\ TypeInv' /\ Param' = Param /\ HeaderValues' = HeaderValues
          /\ \A n : HeaderNamed(n)' = HeaderNamed(n)
      <4>1. at' \in Nat \ {0}
        BY <2>1, <2>7, <3>1
      <4>2. step' \in Steps /\ text' \in Text /\ result' \in Seq(Text) /\ Len(result') <= 1
        BY <1>1, <1>3, <2>4, <3>1 DEF TypeInv
      <4>3. QED
        BY <1>1, <3>1, <4>1, <4>2, SameParameter
    <3>3. Only({s \in QueryNamed(text', Param'.name) : s < at'}, QueryValues(text'), result')
      BY <2>5, <2>9, <3>1, <3>2
    <3>4. QueryInv'
      <4>1. text = request.query /\ text # <<>>
        BY <1>1 DEF BindingInv, QueryInv
      <4>2. text' = request'.query /\ text' # <<>>
        BY <3>1, <3>2, <4>1
      <4>3. at' \in Begins(text', "&")
        BY <2>6, <2>9, <3>1
      <4>4. QED
        BY <1>2, <3>2, <3>3, <4>2, <4>3 DEF QueryInv
    <3>5. QED
      BY <1>1, <3>1, <3>2, <3>4 DEF BindingInv, HeaderInv, CookieInv, FoundIsUnique
  <2>10. QED
    BY <2>8, <2>9
<1>8. QED
  BY <1>6, <1>7

\* ScanCookie: one more cookie is seen; at the end, every cookie.
LEMMA ScanCookieInv ==
    ASSUME BindingInv, ScanCookie
    PROVE  BindingInv'
<1> DEFINE N    == CookieNamed(text, Param.name)
           e    == Find(text, ";", at)
           next == IF at \in N THEN <<CookieValues(text)[at]>> ELSE result
<1>1. TypeInv /\ step = "cookie" /\ index <= Len(request.params)
  BY DEF BindingInv, ScanCookie, TypeInv
<1>2. /\ at \in Begins(text, ";") /\ Param.source = "cookie"
      /\ Only({s \in N : s < at}, CookieValues(text), result)
  BY <1>1 DEF BindingInv, CookieInv
<1>3. text \in Text /\ result \in Seq(Text) /\ Len(result) <= 1 /\ N \in SUBSET Begins(text, ";")
  BY <1>1 DEF TypeInv, CookieNamed
<1>4. CookieValues(text)[at] = CookiePair(text, at).value /\ CookieValues(text)[at] \in Text
  BY <1>2, <1>3, CookieValueType DEF CookieValues
<1>5. at \in N <=> CookiePair(text, at).ok /\ CookiePair(text, at).name = Param.name
  BY <1>2 DEF CookieNamed
<1>6. CASE CookiePair(text, at).ok /\ CookiePair(text, at).name = Param.name /\ result # <<>>
  <2>1. PICK v : Bind(v)
    BY <1>6 DEF ScanCookie
  <2>2. QED
    BY <1>1, <2>1, BindInv
<1>7. CASE ~(CookiePair(text, at).ok /\ CookiePair(text, at).name = Param.name /\ result # <<>>)
  <2>1. Len(text) \in Nat
    BY <1>1 DEF TypeInv, Text
  <2>2. Advance(e, next)
    BY <1>4, <1>5, <1>7 DEF ScanCookie
  <2>3. at \in N => result = <<>>
    BY <1>5, <1>7
  <2>4. next \in Seq(Text) /\ Len(next) <= 1
    <3>1. <<CookieValues(text)[at]>> \in Seq(Text) /\ Len(<<CookieValues(text)[at]>>) <= 1
      BY <1>4
    <3>2. next = <<CookieValues(text)[at]>> \/ next = result
      BY Zenon
    <3> HIDE DEF next
    <3>3. QED
      BY <1>3, <3>1, <3>2
  <2>5. /\ e = Len(text) + 1 => Only(N, CookieValues(text), next)
        /\ e # Len(text) + 1 => Only({r \in N : r < e + 1}, CookieValues(text), next)
    <3> HIDE DEF N
    <3>1. QED
      BY <1>2, <1>3, <2>3, PairSeen
  <2>6. /\ e \in 1..(Len(text) + 1)
        /\ e # Len(text) + 1 => e + 1 \in Begins(text, ";")
    BY <1>2, <1>3, NextBegin
  <2> HIDE DEF next, e
  <2>7. e \in 1..(Len(text) + 1)
    BY <2>6, Zenon
  <2>8. CASE e = Len(text) + 1
    <3>1. step' = "take" /\ result' = next /\ UNCHANGED <<at, text, request, bound>>
      BY <2>2, <2>8 DEF Advance
    <3>2. /\ TypeInv' /\ Param' = Param /\ HeaderValues' = HeaderValues
          /\ \A n : HeaderNamed(n)' = HeaderNamed(n)
      <4>1. at' \in Nat \ {0}
        BY <1>1, <3>1 DEF TypeInv
      <4>2. QED
        BY <1>1, <1>3, <2>4, <3>1, <4>1, SameParameter DEF Steps
    <3>3. Only(CookieNamed(text', Param'.name), CookieValues(text'), result')
      BY <2>5, <2>8, <3>1, <3>2
    <3>4. FoundIsUnique'
      <4>1. text # <<>> /\ Only(HeaderNamed(<<"Cookie">>), HeaderValues, <<text>>)
        BY <1>1 DEF BindingInv, CookieInv
      <4>2. text' # <<>> /\ Only(HeaderNamed(<<"Cookie">>)', HeaderValues', <<text'>>)
        BY <3>1, <3>2, <4>1
      <4>3. QED
        BY <1>2, <3>1, <3>2, <3>3, <4>2 DEF FoundIsUnique
    <3>5. QED
      BY <3>1, <3>2, <3>4 DEF BindingInv, HeaderInv, QueryInv, CookieInv
  <2>9. CASE e # Len(text) + 1
    <3>1. at' = e + 1 /\ result' = next /\ UNCHANGED <<step, text, request, bound>>
      BY <2>2, <2>9 DEF Advance
    <3>2. /\ TypeInv' /\ Param' = Param /\ HeaderValues' = HeaderValues
          /\ \A n : HeaderNamed(n)' = HeaderNamed(n)
      <4>1. at' \in Nat \ {0}
        BY <2>1, <2>7, <3>1
      <4>2. step' \in Steps /\ text' \in Text /\ result' \in Seq(Text) /\ Len(result') <= 1
        BY <1>1, <1>3, <2>4, <3>1 DEF TypeInv
      <4>3. QED
        BY <1>1, <3>1, <4>1, <4>2, SameParameter
    <3>3. Only({s \in CookieNamed(text', Param'.name) : s < at'}, CookieValues(text'), result')
      BY <2>5, <2>9, <3>1, <3>2
    <3>4. CookieInv'
      <4>1. text # <<>> /\ Only(HeaderNamed(<<"Cookie">>), HeaderValues, <<text>>)
        BY <1>1 DEF BindingInv, CookieInv
      <4>2. text' # <<>> /\ Only(HeaderNamed(<<"Cookie">>)', HeaderValues', <<text'>>)
        BY <3>1, <3>2, <4>1
      <4>3. at' \in Begins(text', ";")
        BY <2>6, <2>9, <3>1
      <4>4. QED
        BY <1>2, <3>2, <3>3, <4>2, <4>3 DEF CookieInv
    <3>5. QED
      BY <1>1, <3>1, <3>2, <3>4 DEF BindingInv, HeaderInv, QueryInv, FoundIsUnique
  <2>10. QED
    BY <2>8, <2>9
<1>8. QED
  BY <1>6, <1>7

\* Take and ReadBody bind something, and Answer changes the outcome only.
LEMMA EndInv ==
    ASSUME BindingInv, Take \/ ReadBody \/ Answer
    PROVE  BindingInv'
<1>1. CASE Take
  <2>1. PICK v : Bind(v)
    BY <1>1 DEF Take
  <2>2. index <= Len(request.params)
    BY <1>1 DEF Take, BindingInv, TypeInv
  <2>3. QED
    BY <2>1, <2>2, BindInv
<1>2. CASE ReadBody
  <2>1. PICK v : Bind(v)
    BY <1>2 DEF ReadBody
  <2>2. index <= Len(request.params)
    BY <1>2 DEF ReadBody, BindingInv, TypeInv
  <2>3. QED
    BY <2>1, <2>2, BindInv
<1>3. CASE Answer
  <2>1. step = "find" /\ UNCHANGED <<request, step, text, at, result, bound>>
    BY <1>3 DEF Answer
  <2>2. TypeInv'
    BY <2>1 DEF BindingInv, TypeInv, index
  <2>3. QED
    BY <2>1, <2>2 DEF BindingInv, HeaderInv, QueryInv, CookieInv, FoundIsUnique
<1>4. QED
  BY <1>1, <1>2, <1>3

-----------------------------------------------------------------------------
(* The theorems.                                                           *)

\* BindingInv holds at first, and every step keeps it.
LEMMA BindingInvariant == BindingSpec => []BindingInv
<1>1. BindingInit => BindingInv
  <2> SUFFICES ASSUME BindingInit PROVE BindingInv
    OBVIOUS
  <2>1. /\ request \in Cases /\ step = "find" /\ text = <<>> /\ at = 1 /\ result = <<>>
        /\ bound = <<>>
    BY DEF BindingInit
  <2>2. request.params \in Seq(Parameter)
    BY <2>1, BindingAssumption DEF WellTyped
  <2>3. Len(bound) = 0 /\ bound = [k \in 1..Len(bound) |-> bound[k]]
    BY <2>1
  <2>4. text \in Text /\ result \in Seq(Text) /\ Len(result) <= 1
    BY <2>1, EmptySeq DEF Text
  <2>5. Len(request.params) \in Nat
    BY <2>2
  <2>6. TypeInv
    BY <2>1, <2>3, <2>4, <2>5 DEF TypeInv, Steps
  <2>7. QED
    BY <2>1, <2>6 DEF BindingInv, HeaderInv, QueryInv, CookieInv, FoundIsUnique
<1>2. BindingInv /\ [BindingNext]_bindingVars => BindingInv'
  <2> SUFFICES ASSUME BindingInv, [BindingNext]_bindingVars PROVE BindingInv'
    OBVIOUS
  <2>1. CASE Start
    BY <2>1, StartInv
  <2>2. CASE ScanHeader
    BY <2>2, ScanHeaderInv
  <2>3. CASE HeadersSeen
    BY <2>3, HeadersSeenInv
  <2>4. CASE ScanQuery
    BY <2>4, ScanQueryInv
  <2>5. CASE ScanCookie
    BY <2>5, ScanCookieInv
  <2>6. CASE Take \/ ReadBody \/ Answer
    BY <2>6, EndInv
  <2>7. CASE UNCHANGED bindingVars
    <3>1. UNCHANGED <<request, step, text, at, result, bound>>
      BY <2>7 DEF bindingVars
    <3>2. TypeInv' /\ Param' = Param /\ Wanted' = Wanted
      BY <3>1 DEF BindingInv, TypeInv, Param, index, Wanted
    <3>3. HeaderValues' = HeaderValues /\ \A n : HeaderNamed(n)' = HeaderNamed(n)
      BY <3>1 DEF HeaderValues, HeaderNamed
    <3>4. HeaderInv'
      BY <3>1, <3>2, <3>3 DEF BindingInv, HeaderInv
    <3>5. QueryInv' /\ CookieInv'
      BY <3>1, <3>2, <3>3 DEF BindingInv, QueryInv, CookieInv
    <3>6. FoundIsUnique'
      BY <3>1, <3>2, <3>3 DEF BindingInv, FoundIsUnique
    <3>7. QED
      BY <3>2, <3>4, <3>5, <3>6 DEF BindingInv
  <2>8. QED
    BY <2>1, <2>2, <2>3, <2>4, <2>5, <2>6, <2>7 DEF BindingNext
<1>3. QED
  BY <1>1, <1>2, PTL DEF BindingSpec

\* For every request: the loops of find_query_value, find_header_value and
\* find_cookie_value never leave their texts, so that no substr of bind_parameter throws.
THEOREM BindingTypeCorrect == BindingSpec => []BindingTypeOK
<1>1. BindingInv => BindingTypeOK
  <2> SUFFICES ASSUME BindingInv PROVE BindingTypeOK
    OBVIOUS
  <2>1. TypeInv /\ WellTyped(request)
    BY RequestType DEF BindingInv
  <2>2. step \in {"query", "cookie"} => at <= Len(text) + 1
    <3>1. Len(text) \in Nat
      BY <2>1 DEF TypeInv, Text
    <3>2. \A c : at \in Begins(text, c) => at <= Len(text) + 1
      BY <3>1 DEF Begins
    <3>3. QED
      BY <3>2 DEF BindingInv, QueryInv, CookieInv
  <2>3. step = "header" => at <= Len(request.headers) + 1
    BY DEF BindingInv, HeaderInv
  <2>4. QED
    BY <2>1, <2>2, <2>3 DEF TypeInv, BindingTypeOK
<1>2. QED
  BY <1>1, BindingInvariant, PTL

\* For every request: a search that ends without an error has found the value of the only
\* pair, cookie or header of the name, and nothing only where there is none.
THEOREM DuplicatesRejected == BindingSpec => []FoundIsUnique
<1>1. BindingInv => FoundIsUnique
  BY DEF BindingInv
<1>2. QED
  BY <1>1, BindingInvariant, PTL

\* What bind_parameter returns is a value or an error, never the zero of an open outcome.
Settled == \A k \in 1..Len(bound) : bound[k].status # 0

LEMMA ParseSettles == ASSUME NEW p, NEW s PROVE Parse(p, s).status # 0
<1> DEFINE n == Number(s)
<1> HIDE DEF n
<1>1. \A c, t, m : Bound(c, t, m).status = 200 /\ Error(422, c).status = 422
  BY DEF Bound, Error
<1> DEFINE r == Parse(p, s)
<1>2. \/ r = Bound("value", s, 0) \/ r = Bound("value", s, n.value)
      \/ \E c : r = Error(422, c)
  BY DEF Parse, n
<1> HIDE DEF r
<1>3. r.status # 0
  BY <1>1, <1>2
<1>4. QED
  BY <1>3 DEF r

LEMMA BindSettles ==
    ASSUME BindingInv, Settled, NEW v, v.status # 0, Bind(v) PROVE Settled'
<1>1. /\ bound' = Append(bound, v)
      /\ Len(bound) \in Nat /\ bound = [k \in 1..Len(bound) |-> bound[k]]
  BY DEF Bind, BindingInv, TypeInv
<1>2. /\ Len(bound') = Len(bound) + 1
      /\ \A k \in 1..Len(bound) : bound'[k] = bound[k]
      /\ bound'[Len(bound) + 1] = v
  BY <1>1, AppendAny
<1>3. QED
  BY <1>1, <1>2 DEF Settled

LEMMA StepSettles == ASSUME BindingInv, Settled, [BindingNext]_bindingVars PROVE Settled'
<1>1. ASSUME UNCHANGED bound PROVE Settled'
  BY <1>1 DEF Settled
<1>2. ASSUME NEW c, NEW status \in {400, 415, 422}, Bind(Error(status, c)) PROVE Settled'
  <2>1. Error(status, c).status # 0
    BY DEF Error
  <2>2. QED
    BY <1>2, <2>1, BindSettles
<1>3. ASSUME NEW c, Bind(Bound(c, <<>>, 0)) PROVE Settled'
  <2>1. Bound(c, <<>>, 0).status # 0
    BY DEF Bound
  <2>2. QED
    BY <1>3, <2>1, BindSettles
<1>4. CASE Start
  BY <1>1, <1>4 DEF Start, Go
<1>5. CASE ScanHeader
  BY <1>1, <1>2, <1>5 DEF ScanHeader
<1>6. CASE HeadersSeen
  BY <1>1, <1>6 DEF HeadersSeen, Go
<1>7. CASE ScanQuery
  BY <1>1, <1>2, <1>7 DEF ScanQuery, Advance
<1>8. CASE ScanCookie
  <2>1. Bind(Error(422, "duplicate_cookie")) \/ \E t, f : Advance(t, f)
    BY <1>8 DEF ScanCookie
  <2>2. (\E t, f : Advance(t, f)) => UNCHANGED bound
    BY DEF Advance
  <2>3. QED
    BY <1>1, <1>2, <2>1, <2>2
<1>9. CASE Take
  <2>1. ASSUME NEW s, Bind(Parse(Param, s)) PROVE Settled'
    BY <2>1, ParseSettles, BindSettles
  <2>2. QED
    BY <1>2, <1>3, <1>9, <2>1 DEF Take
<1>10. CASE ReadBody
  BY <1>2, <1>3, <1>10 DEF ReadBody
<1>11. CASE Answer
  BY <1>1, <1>11 DEF Answer
<1>12. CASE UNCHANGED bindingVars
  BY <1>1, <1>12 DEF bindingVars
<1>13. QED
  BY <1>4, <1>5, <1>6, <1>7, <1>8, <1>9, <1>10, <1>11, <1>12 DEF BindingNext

LEMMA AnswerSettles == ASSUME BindingInv, Settled, Answer PROVE Nearer
<1> DEFINE refused == {i \in DOMAIN bound : bound[i].status # 200}
<1>1. Len(bound) \in Nat /\ bound = [k \in 1..Len(bound) |-> bound[k]]
  BY DEF BindingInv, TypeInv
<1>2. DOMAIN bound = 1..Len(bound)
  BY <1>1
<1>3. CASE refused = {}
  BY <1>3 DEF Answer, Pending, Nearer
<1>4. CASE refused # {}
  <2> DEFINE i == CHOOSE i \in refused : \A j \in refused : i <= j
  <2>1. refused \in SUBSET Nat
    BY <1>2
  <2>2. \E k \in refused : \A j \in refused : k <= j
    <3> HIDE DEF refused
    <3>1. QED
      BY <1>4, <2>1, FirstPosition
  <2>3. i \in refused
    <3> HIDE DEF refused
    <3>1. QED
      BY <2>2
  <2>4. outcome = Pending
        /\ outcome' = [status |-> bound[i].status, parameter |-> i, code |-> bound[i].code]
    BY <1>4 DEF Answer
  <2> HIDE DEF i
  <2>5. i \in 1..Len(bound)
    BY <1>2, <2>3
  <2>6. bound[i].status # 0
    BY <2>5 DEF Settled
  <2> HIDE DEF refused
  <2>7. outcome'.status # 0 /\ Pending.status = 0
    BY <2>4, <2>6 DEF Pending
  <2>8. QED
    BY <2>4, <2>7 DEF Nearer
<1>5. QED
  BY <1>3, <1>4

LEMMA TurnNearer == ASSUME BindingInv, Settled, BindingNext PROVE Nearer
<1> USE DEF Stage
<1>1. /\ Len(bound) \in Nat /\ bound = [k \in 1..Len(bound) |-> bound[k]]
      /\ step \in Steps /\ text \in Text /\ at \in Nat /\ Len(text) \in Nat
  BY DEF BindingInv, TypeInv, Text
<1>2. ASSUME NEW v, Bind(v) PROVE Nearer
  <2>1. Len(bound') = Len(bound) + 1
    BY <1>1, <1>2, AppendAny DEF Bind
  <2>2. QED
    BY <1>1, <2>1 DEF Nearer
<1>3. ASSUME NEW w \in Steps, NEW s, NEW f, Go(w, s, f), Stage[w] < Stage[step]
      PROVE  Nearer
  BY <1>3 DEF Go, Nearer
<1>4. ASSUME step \in {"query", "cookie"}, NEW c, NEW f, Advance(Find(text, c, at), f)
      PROVE  Nearer
  <2>1. at \in 1..(Len(text) + 1)
    <3>1. \A d : at \in Begins(text, d) => at \in 1..(Len(text) + 1)
      BY DEF Begins
    <3>2. QED
      BY <1>4, <3>1 DEF BindingInv, QueryInv, CookieInv
  <2>2. Find(text, c, at) >= at /\ Find(text, c, at) \in Nat
    BY <1>1, <2>1, FindType
  <2>3. bound' = bound /\ text' = text
    BY <1>4 DEF Advance
  <2>4. CASE Find(text, c, at) = Len(text) + 1
    BY <1>4, <2>3, <2>4 DEF Advance, Nearer
  <2>5. CASE Find(text, c, at) # Len(text) + 1
    BY <1>1, <1>4, <2>2, <2>3, <2>5 DEF Advance, Nearer
  <2>6. QED
    BY <2>4, <2>5
<1>5. CASE Start
  <2>1. step = "find" /\ \E w \in {"take", "query", "header"} : \E s, f : Go(w, s, f)
    BY <1>5 DEF Start
  <2>2. QED
    BY <2>1, <1>3 DEF Steps
<1>6. CASE ScanHeader
  <2>1. \/ \E v : Bind(v)
        \/ at' = at + 1 /\ UNCHANGED <<step, text, bound>>
    BY <1>6 DEF ScanHeader
  <2>2. QED
    BY <1>1, <1>2, <2>1 DEF Nearer
<1>7. CASE HeadersSeen
  <2>1. step = "header" /\ \E w \in {"body", "cookie", "take"} : \E s, f : Go(w, s, f)
    BY <1>7 DEF HeadersSeen
  <2>2. QED
    BY <2>1, <1>3 DEF Steps
<1>8. CASE ScanQuery
  <2>1. /\ step = "query"
        /\ \/ \E v : Bind(v)
           \/ \E f : Advance(Find(text, "&", at), f)
    BY <1>8 DEF ScanQuery
  <2>2. ASSUME NEW f, Advance(Find(text, "&", at), f) PROVE Nearer
    <3>1. step \in {"query", "cookie"}
      BY <2>1
    <3>2. QED
      BY <1>4, <2>2, <3>1
  <2>3. ASSUME NEW v, Bind(v) PROVE Nearer
    BY <1>2, <2>3
  <2>4. QED
    BY <2>1, <2>2, <2>3
<1>9. CASE ScanCookie
  <2>1. /\ step = "cookie"
        /\ \/ \E v : Bind(v)
           \/ \E f : Advance(Find(text, ";", at), f)
    BY <1>9 DEF ScanCookie
  <2>2. ASSUME NEW f, Advance(Find(text, ";", at), f) PROVE Nearer
    <3>1. step \in {"query", "cookie"}
      BY <2>1
    <3>2. QED
      BY <1>4, <2>2, <3>1
  <2>3. ASSUME NEW v, Bind(v) PROVE Nearer
    BY <1>2, <2>3
  <2>4. QED
    BY <2>1, <2>2, <2>3
<1>10. CASE Take
  BY <1>2, <1>10 DEF Take
<1>11. CASE ReadBody
  BY <1>2, <1>11 DEF ReadBody
<1>12. CASE Answer
  BY <1>12, AnswerSettles
<1>13. QED
  BY <1>5, <1>6, <1>7, <1>8, <1>9, <1>10, <1>11, <1>12 DEF BindingNext

\* Counting the turns adds no behaviour, so what holds of Binding holds of its turns.
LEMMA TurnsAreBinding == TurnSpec => BindingSpec
<1>1. TurnInit => BindingInit
  BY DEF TurnInit
<1>2. [TurnNext]_turnVars => [BindingNext]_bindingVars
  <2>1. CASE Turn
    BY <2>1 DEF Turn
  <2>2. CASE Rest \/ UNCHANGED turnVars
    BY <2>2 DEF Rest, turnVars
  <2>3. QED
    BY <2>1, <2>2 DEF TurnNext
<1>3. QED
  BY <1>1, <1>2, PTL DEF TurnSpec, BindingSpec

\* For every request: whatever turn a call takes, it is nearer to its answer.
THEOREM TurnsGetNearer == TurnSpec => GetsNearer
<1>1. BindingInit => Settled
  BY DEF BindingInit, Settled
<1>2. BindingInv /\ Settled /\ [BindingNext]_bindingVars => Settled'
  BY StepSettles
<1>3. BindingSpec => []Settled
  BY <1>1, <1>2, BindingInvariant, PTL DEF BindingSpec
<1>4. BindingInv /\ Settled /\ [TurnNext]_turnVars => [Nearer]_turnVars
  <2>1. CASE Turn
    BY <2>1, TurnNearer DEF Turn
  <2>2. CASE Rest \/ UNCHANGED turnVars
    BY <2>2 DEF Rest
  <2>3. QED
    BY <2>1, <2>2 DEF TurnNext
<1>5. QED
  BY <1>3, <1>4, BindingInvariant, TurnsAreBinding, PTL DEF TurnSpec, GetsNearer

-----------------------------------------------------------------------------
(* percent_decode.                                                         *)

Decodings == [ok : BOOLEAN, text : Text]

\* One turn of percent_decode at i, with what the turns at i + 1 and at i + 3 return.
Decoded(s, plus, i, one, three) ==
    IF i > Len(s) THEN Good(<<>>)
    ELSE IF s[i] = "%"
         THEN IF i + 2 > Len(s) THEN Malformed
              ELSE IF <<s[i + 1], s[i + 2]>> \notin Hex \X Hex THEN Malformed
              ELSE Put(Byte[s[i + 1], s[i + 2]], three)
         ELSE Put(IF s[i] = "+" /\ plus THEN " " ELSE s[i], one)

LEMMA DecodedType ==
    ASSUME NEW s \in Text, NEW plus, NEW i \in Nat \ {0},
           NEW one \in Decodings, NEW three \in Decodings
    PROVE  Decoded(s, plus, i, one, three) \in Decodings
<1>1. \A c \in Char : \A r \in Decodings : Put(c, r) \in Decodings
  <2>1. TAKE c \in Char
  <2>2. TAKE r \in Decodings
  <2>3. r.text \in Seq(Char) /\ r.ok \in BOOLEAN
    BY DEF Decodings, Text
  <2>4. <<c>> \o r.text \in Text
    BY <2>3, ConcatProperties DEF Text
  <2>5. Put(c, r) = [ok |-> r.ok, text |-> <<c>> \o r.text]
    <3>1. \A o, t, u : [[ok |-> o, text |-> t] EXCEPT !.text = u] = [ok |-> o, text |-> u]
      OBVIOUS
    <3>2. r = [ok |-> r.ok, text |-> r.text]
      BY DEF Decodings
    <3>3. Put(c, r) = [r EXCEPT !.text = <<c>> \o r.text]
      BY DEF Put
    <3>4. QED
      BY <3>1, <3>2, <3>3
  <2>6. QED
    BY <2>3, <2>4, <2>5 DEF Decodings
<1>2. Good(<<>>) \in Decodings /\ Malformed \in Decodings
  BY EmptySeq DEF Good, Malformed, Decodings, Text
<1>3. ASSUME ~(i > Len(s)) PROVE s[i] \in Char
  BY <1>3, ElementOfSeq DEF Text
<1>4. " " \in Char /\ \A a, b \in Hex : Byte[a, b] \in Char
  BY BindingAssumption
<1>5. ASSUME <<s[i + 1], s[i + 2]>> \in Hex \X Hex PROVE Byte[s[i + 1], s[i + 2]] \in Char
  BY <1>4, <1>5
<1>6. QED
  <2>1. CASE i > Len(s)
    BY <1>2, <2>1 DEF Decoded
  <2>2. CASE ~(i > Len(s)) /\ s[i] = "%"
    <3>1. \/ Decoded(s, plus, i, one, three) = Malformed
          \/ /\ <<s[i + 1], s[i + 2]>> \in Hex \X Hex
             /\ Decoded(s, plus, i, one, three) = Put(Byte[s[i + 1], s[i + 2]], three)
      BY <2>2 DEF Decoded
    <3>2. QED
      BY <1>1, <1>2, <1>5, <3>1
  <2>3. CASE ~(i > Len(s)) /\ s[i] # "%"
    <3>1. Decoded(s, plus, i, one, three) = Put(IF s[i] = "+" /\ plus THEN " " ELSE s[i], one)
      BY <2>3 DEF Decoded
    <3>2. (IF s[i] = "+" /\ plus THEN " " ELSE s[i]) \in Char
      BY <1>3, <1>4, <2>3
    <3>3. QED
      BY <1>1, <3>1, <3>2
  <2>4. QED
    BY <2>1, <2>2, <2>3

\* The turns of percent_decode on s, from its end to its front.
Decoding(s, plus, D) == \A i \in Nat : D[i] = Decoded(s, plus, i, D[i + 1], D[i + 3])

LEMMA DecodeTurns ==
    ASSUME NEW s \in Text, NEW plus
    PROVE  \E D : Decoding(s, plus, D) /\ Decode(s, plus) = D[1]
<1> DEFINE n == Len(s)
           R == Decodings
           T == R \X R \X R
           none  == Good(<<>>)
           first == <<none, none, none>>
           onto  == [k \in 1..n |-> [t \in T |->
                       <<Decoded(s, plus, n + 1 - k, t[1], t[3]), t[1], t[2]>>]]
           G(f)  == [i \in Nat |-> Decoded(s, plus, i, f[i + 1], f[i + 3])]
<1>1. n \in Nat
  BY DEF Text
<1>2. none \in R
  BY EmptySeq DEF Good, Decodings, Text
<1>3. onto \in Advances(T, n)
  <2>1. ASSUME NEW k \in 1..n, NEW t \in T
        PROVE  <<Decoded(s, plus, n + 1 - k, t[1], t[3]), t[1], t[2]>> \in T
    <3>1. n + 1 - k \in Nat \ {0}
      BY <1>1
    <3>2. t[1] \in R /\ t[2] \in R /\ t[3] \in R
      OBVIOUS
    <3>3. Decoded(s, plus, n + 1 - k, t[1], t[3]) \in R
      BY <3>1, <3>2, DecodedType
    <3>4. QED
      BY <3>2, <3>3
  <2> HIDE DEF T
  <2>2. QED
    BY <2>1 DEF Advances
<1>4. PICK F : Solves(F, T, n, first, onto)
  <2>1. first \in T
    BY <1>2
  <2> HIDE DEF n, T, first, onto
  <2>2. QED
    BY <1>1, <1>3, <2>1, Recursion
<1>5. F \in [0..n -> T] /\ F[0] = first /\ \A k \in 1..n : F[k] = onto[k][F[k - 1]]
  BY <1>4 DEF Solves
<1>6. \A k \in 1..n : /\ F[k][1] = Decoded(s, plus, n + 1 - k, F[k - 1][1], F[k - 1][3])
                      /\ F[k][2] = F[k - 1][1] /\ F[k][3] = F[k - 1][2]
  <2>1. TAKE k \in 1..n
  <2>2. F[k - 1] \in T
    <3>1. k - 1 \in 0..n
      BY <1>1
    <3> HIDE DEF T
    <3>2. QED
      BY <1>5, <3>1
  <2>3. F[k] = <<Decoded(s, plus, n + 1 - k, F[k - 1][1], F[k - 1][3]), F[k - 1][1], F[k - 1][2]>>
    BY <1>5, <2>2
  <2>4. QED
    BY <2>3
<1> DEFINE g(i) == IF i > n THEN none ELSE F[n + 1 - i][1]
           h == [i \in Nat |-> IF i = 0 THEN Decoded(s, plus, 0, g(1), g(3)) ELSE g(i)]
<1>7. F[0][1] = none /\ F[0][2] = none /\ F[0][3] = none
  BY <1>5
<1> HIDE DEF n, none, T, first, onto
<1>8. \A k \in 0..n : F[k][1] = g(n + 1 - k)
  BY <1>1, <1>7
<1>9. \A k \in 0..n : F[k][2] = g(n + 2 - k)
  <2>1. TAKE k \in 0..n
  <2>2. CASE k = 0
    BY <1>1, <1>7, <2>2
  <2>3. CASE k # 0
    <3>1. k \in 1..n /\ k - 1 \in 0..n /\ n + 1 - (k - 1) = n + 2 - k
      BY <1>1, <2>3
    <3> HIDE DEF g
    <3>2. QED
      BY <1>6, <1>8, <3>1
  <2>4. QED
    BY <2>2, <2>3
<1>10. \A k \in 0..n : F[k][3] = g(n + 3 - k)
  <2>1. TAKE k \in 0..n
  <2>2. CASE k = 0
    BY <1>1, <1>7, <2>2
  <2>3. CASE k # 0
    <3>1. k \in 1..n /\ k - 1 \in 0..n /\ n + 2 - (k - 1) = n + 3 - k
      BY <1>1, <2>3
    <3> HIDE DEF g
    <3>2. QED
      BY <1>6, <1>9, <3>1
  <2>4. QED
    BY <2>2, <2>3
<1>11. \A i \in Nat \ {0} : g(i) = Decoded(s, plus, i, g(i + 1), g(i + 3))
  <2>1. TAKE i \in Nat \ {0}
  <2>2. CASE i > n
    BY <1>1, <2>2 DEF Decoded, n, none
  <2>3. CASE ~(i > n)
    <3> DEFINE k == n + 1 - i
    <3>1. k \in 1..n /\ k - 1 \in 0..n /\ n + 1 - k = i /\ n + 1 - (k - 1) = i + 1 /\ n + 3 - (k - 1) = i + 3
      BY <1>1, <2>3
    <3>2. g(i) = F[k][1]
      BY <2>3
    <3> HIDE DEF g, k
    <3>3. F[k][1] = Decoded(s, plus, n + 1 - k, F[k - 1][1], F[k - 1][3])
      BY <1>6, <3>1
    <3>4. F[k - 1][1] = g(n + 1 - (k - 1)) /\ F[k - 1][3] = g(n + 3 - (k - 1))
      BY <1>8, <1>10, <3>1
    <3>5. QED
      BY <3>1, <3>2, <3>3, <3>4
  <2>4. QED
    BY <2>2, <2>3
<1> HIDE DEF g
<1>12. h = G(h)
  <2>1. \A i \in Nat : h[i + 1] = g(i + 1) /\ h[i + 3] = g(i + 3)
    OBVIOUS
  <2>2. h[0] = Decoded(s, plus, 0, h[0 + 1], h[0 + 3])
    BY <2>1
  <2>3. \A i \in Nat \ {0} : h[i] = Decoded(s, plus, i, h[i + 1], h[i + 3])
    BY <1>11, <2>1
  <2>4. \A i \in Nat : h[i] = Decoded(s, plus, i, h[i + 1], h[i + 3])
    BY <2>2, <2>3
  <2>5. h = [i \in Nat |-> h[i]]
    OBVIOUS
  <2> HIDE DEF h
  <2>6. QED
    BY <2>4, <2>5
<1> DEFINE D == CHOOSE f : f = G(f)
<1>13. Decode(s, plus) = D[1]
  BY DEF Decode, Decoded
<1>14. D = G(D)
  <2> HIDE DEF G, h
  <2>1. QED
    BY <1>12
<1> HIDE DEF D
<1>15. Decoding(s, plus, D)
  BY <1>14 DEF Decoding
<1>16. QED
  BY <1>13, <1>15

Below(S, i) == Cardinality({j \in S : j < i})

\* In a set of positions, ranks count from one and tell the positions apart.
LEMMA Ranks ==
    ASSUME NEW n \in Nat, NEW S \in SUBSET (1..n)
    PROVE  /\ Cardinality(S) \in Nat /\ Cardinality(S) <= n
           /\ Cardinality(S) = n => S = 1..n
           /\ \A i \in Nat : Below(S, i) \in Nat /\ Below(S, i) <= Cardinality(S)
           /\ \A i \in S : Rank(S, i) = Below(S, i) + 1 /\ Rank(S, i) \in 1..Cardinality(S)
           /\ \A i, j \in S : Rank(S, i) = Rank(S, j) => i = j
           /\ \A i, k \in Nat : {j \in S : j < k} = {j \in S : j < i} \cup {i} /\ i \in S
                 => Below(S, k) = Below(S, i) + 1
<1>1. IsFiniteSet(1..n) /\ Cardinality(1..n) = n
  BY FS_Interval
<1>2. IsFiniteSet(S) /\ Cardinality(S) <= n /\ (Cardinality(S) = n => S = 1..n)
  BY <1>1, FS_Subset
<1>3. \A T \in SUBSET S : IsFiniteSet(T) /\ Cardinality(T) \in Nat /\ Cardinality(T) <= Cardinality(S)
  BY <1>2, FS_Subset, FS_CardinalityType
<1>4. Cardinality(S) \in Nat
  BY <1>3
<1>0. \A j \in S : j \in Nat
  OBVIOUS
<1>5. \A i : {j \in S : j < i} \in SUBSET S /\ {j \in S : j <= i} \in SUBSET S
  OBVIOUS
<1>6. \A i \in Nat : Below(S, i) \in Nat /\ Below(S, i) <= Cardinality(S)
  BY <1>3, <1>5 DEF Below
<1>7. ASSUME NEW i \in S PROVE Cardinality({j \in S : j < i} \cup {i}) = Below(S, i) + 1
  <2>1. i \notin {j \in S : j < i} /\ IsFiniteSet({j \in S : j < i})
    BY <1>3, <1>5
  <2>2. QED
    BY <2>1, FS_AddElement DEF Below
<1>8. ASSUME NEW i \in S PROVE Rank(S, i) = Below(S, i) + 1 /\ Rank(S, i) \in 1..Cardinality(S)
  <2>1. {j \in S : j <= i} = {j \in S : j < i} \cup {i}
    <3>1. \A j \in S : j <= i <=> j < i \/ j = i
      BY <1>0
    <3>2. QED
      BY <3>1
  <2>2. Rank(S, i) = Below(S, i) + 1
    BY <1>7, <2>1 DEF Rank
  <2>3. Rank(S, i) \in Nat /\ Rank(S, i) <= Cardinality(S)
    BY <1>3, <1>5 DEF Rank
  <2>4. Below(S, i) \in Nat
    BY <1>6
  <2>5. QED
    BY <1>4, <2>2, <2>3, <2>4
<1>9. ASSUME NEW i \in S, NEW j \in S, i < j PROVE Rank(S, i) # Rank(S, j)
  <2> DEFINE I == {k \in S : k <= i}
             J == {k \in S : k <= j}
  <2>1. I \in SUBSET J /\ j \in J /\ j \notin I
    <3>1. \A m \in S : m <= i => m <= j
      BY <1>0, <1>9
    <3>2. i \in Nat /\ j \in Nat /\ j <= j /\ ~(j <= i)
      BY <1>0, <1>9
    <3>3. I \in SUBSET J
      BY <3>1
    <3>4. j \in J /\ j \notin I
      BY <3>2
    <3>5. QED
      BY <3>3, <3>4
  <2>2. IsFiniteSet(J)
    BY <1>3, <1>5
  <2>3. Cardinality(J) # Cardinality(I)
    <3> HIDE DEF I, J
    <3>1. Cardinality(J) = Cardinality(I) => J = I
      BY <2>1, <2>2, FS_Subset
    <3>2. QED
      BY <2>1, <3>1
  <2>4. QED
    BY <2>3 DEF Rank
<1>10. \A i, j \in S : Rank(S, i) = Rank(S, j) => i = j
  <2>1. TAKE i, j \in S
  <2>2. i < j \/ j < i \/ i = j
    OBVIOUS
  <2>3. QED
    BY <1>9, <2>2
<1>11. ASSUME NEW i \in Nat, NEW k \in Nat,
              {j \in S : j < k} = {j \in S : j < i} \cup {i}, i \in S
       PROVE  Below(S, k) = Below(S, i) + 1
  BY <1>7, <1>11 DEF Below
<1>12. QED
  BY <1>2, <1>4, <1>6, <1>8, <1>10, <1>11

\* The escape at i is one.
EscapeAt(s, i) == s[i] = "%" => i + 2 <= Len(s) /\ {s[i + 1], s[i + 2]} \subseteq Hex

\* Where percent_decode goes on after a position that stands for a character.
LEMMA NextStanding ==
    ASSUME NEW s \in Text, NEW i \in Standing(s), EscapeAt(s, i),
           NEW k, k = IF s[i] = "%" THEN i + 3 ELSE i + 1
    PROVE  /\ i \in 1..Len(s) /\ k \in Nat /\ k > i /\ k <= Len(s) + 1
           /\ k \in Standing(s) \cup {Len(s) + 1}
           /\ {j \in Standing(s) : j < k} = {j \in Standing(s) : j < i} \cup {i}
           /\ \A j \in i..(k - 1) : EscapeAt(s, j)
<1> DEFINE n == Len(s)
           S == Standing(s)
<1>1. n \in Nat /\ DOMAIN s = 1..n
  BY DEF Text
<1>2. i \in 1..n /\ ~InEscape(s, i)
  BY <1>1 DEF Standing
<1>3. \A j \in Nat : j \in S <=> j \in 1..n /\ ~InEscape(s, j)
  BY <1>1 DEF Standing
<1>4. S \subseteq Nat
  BY <1>1 DEF Standing
<1>5. \A c \in Hex : c # "%"
  BY BindingAssumption
<1>6. CASE s[i] = "%"
  <2>1. k = i + 3 /\ i + 2 <= n /\ s[i + 1] \in Hex /\ s[i + 2] \in Hex
    BY <1>6 DEF EscapeAt
  <2>2. s[i + 1] # "%" /\ s[i + 2] # "%"
    BY <1>5, <2>1
  <2>3. InEscape(s, i + 1)
    <3>1. (i + 1) - 1 = i /\ i + 1 > 1
      BY <1>1, <1>2
    <3>2. QED
      BY <1>6, <3>1 DEF InEscape
  <2>4. InEscape(s, i + 2)
    <3>1. (i + 2) - 2 = i /\ i + 2 > 2
      BY <1>1, <1>2
    <3>2. QED
      BY <1>6, <3>1 DEF InEscape
  <2>5. ~InEscape(s, i + 3)
    <3>1. (i + 3) - 1 = i + 2 /\ (i + 3) - 2 = i + 1
      BY <1>1, <1>2
    <3>2. QED
      BY <2>2, <3>1 DEF InEscape
  <2>6. i + 1 \notin S /\ i + 2 \notin S
    BY <2>3, <2>4 DEF Standing
  <2>7. i + 3 \in Nat /\ i + 3 > i /\ i + 3 <= n + 1
    BY <1>1, <1>2, <2>1
  <2>8. i + 3 \in S \cup {n + 1}
    <3>1. i + 3 = n + 1 \/ i + 3 \in 1..n
      BY <1>1, <1>2, <2>7
    <3>2. QED
      BY <1>3, <2>5, <2>7, <3>1
  <2>9. {j \in S : j < k} = {j \in S : j < i} \cup {i}
    <3>1. \A j \in S : j < i + 3 <=> j < i \/ j = i
      <4>1. TAKE j \in S
      <4>2. j \in Nat /\ j # i + 1 /\ j # i + 2
        BY <1>4, <2>6
      <4> HIDE DEF S
      <4>3. QED
        BY <1>2, <4>2
    <3> HIDE DEF S
    <3>2. i \in S
      BY DEF S
    <3>3. QED
      BY <2>1, <3>1, <3>2
  <2>10. \A j \in i..(k - 1) : EscapeAt(s, j)
    <3>1. \A j \in i..(k - 1) : j = i \/ j = i + 1 \/ j = i + 2
      BY <1>2, <2>1
    <3>2. EscapeAt(s, i + 1) /\ EscapeAt(s, i + 2)
      BY <2>2 DEF EscapeAt
    <3>3. QED
      BY <3>1, <3>2
  <2>11. QED
    BY <1>2, <2>1, <2>7, <2>8, <2>9, <2>10
<1>7. CASE s[i] # "%"
  <2>1. k = i + 1
    BY <1>7
  <2>2. ~InEscape(s, i + 1)
    <3>1. (i + 1) - 1 = i /\ (i + 1) - 2 = i - 1 /\ (i + 1 > 2 => i > 1)
      BY <1>2
    <3>2. i > 1 => s[i - 1] # "%"
      BY <1>2 DEF InEscape
    <3>3. QED
      BY <1>7, <3>1, <3>2 DEF InEscape
  <2>3. i + 1 \in Nat /\ i + 1 > i /\ i + 1 <= n + 1
    BY <1>1, <1>2
  <2>4. i + 1 \in S \cup {n + 1}
    <3>1. i + 1 = n + 1 \/ i + 1 \in 1..n
      BY <1>1, <1>2, <2>3
    <3>2. QED
      BY <1>3, <2>2, <2>3, <3>1
  <2>5. {j \in S : j < k} = {j \in S : j < i} \cup {i}
    <3>1. \A j \in S : j < i + 1 <=> j < i \/ j = i
      BY <1>2, <1>4
    <3> HIDE DEF S
    <3>2. i \in S
      BY DEF S
    <3>3. QED
      BY <2>1, <3>1, <3>2
  <2>6. \A j \in i..(k - 1) : EscapeAt(s, j)
    <3>1. \A j \in i..(k - 1) : j = i
      BY <1>2, <2>1
    <3>2. QED
      BY <3>1
  <2>7. QED
    BY <1>2, <2>1, <2>3, <2>4, <2>5, <2>6
<1>8. QED
  BY <1>6, <1>7

\* What percent_decode returns from a position on: whether the rest is well formed, and the
\* characters it spells.
WellFrom(s, i) == \A j \in i..Len(s) : EscapeAt(s, j)
Remaining(s, plus, i) ==
    [m \in 1..(Cardinality(Standing(s)) - Below(Standing(s), i)) |->
        Plain(s, plus)[Below(Standing(s), i) + m]]
Right(s, plus, i, d) ==
    d \in Decodings /\ (d.ok <=> WellFrom(s, i)) /\ (d.ok => d.text = Remaining(s, plus, i))

LEMMA StandingType ==
    ASSUME NEW s \in Text
    PROVE  Len(s) \in Nat /\ DOMAIN s = 1..Len(s) /\ Standing(s) \in SUBSET (1..Len(s))
BY DEF Text, Standing

\* A position is found by its rank.
LEMMA PlainAt ==
    ASSUME NEW s \in Text, NEW plus, NEW i \in Standing(s)
    PROVE  LET S == Standing(s)
           IN  /\ Below(S, i) \in Nat /\ Below(S, i) + 1 \in 1..Cardinality(S)
               /\ Plain(s, plus)[Below(S, i) + 1] = Spelled(s, plus, i)
<1> DEFINE S == Standing(s)
           n == Len(s)
           k == Below(S, i) + 1
<1>1. n \in Nat /\ S \in SUBSET (1..n) /\ i \in S
  BY StandingType
<1>2. Plain(s, plus) = [m \in 1..Cardinality(S) |->
                          Spelled(s, plus, CHOOSE j \in S : Rank(S, j) = m)]
  BY DEF Plain
<1> HIDE DEF S, n
<1>3. Rank(S, i) = k /\ k \in 1..Cardinality(S) /\ Below(S, i) \in Nat
  <2>1. Rank(S, i) = Below(S, i) + 1 /\ Rank(S, i) \in 1..Cardinality(S)
    BY <1>1, Ranks
  <2>2. i \in Nat
    BY <1>1
  <2>3. Below(S, i) \in Nat
    BY <1>1, <2>2, Ranks
  <2>4. QED
    BY <2>1, <2>3
<1> HIDE DEF k
<1>4. \A j \in S : Rank(S, j) = k => j = i
  BY <1>1, <1>3, Ranks
<1>5. (CHOOSE j \in S : Rank(S, j) = k) = i
  BY <1>1, <1>3, <1>4
<1>6. Plain(s, plus)[k] = Spelled(s, plus, i)
  BY <1>2, <1>3, <1>5
<1>7. QED
  BY <1>3, <1>6 DEF S, k

\* A character put in front of what the rest spells.
LEMMA PutRight ==
    ASSUME NEW s \in Text, NEW plus, NEW i \in Standing(s), EscapeAt(s, i),
           NEW k, k = IF s[i] = "%" THEN i + 3 ELSE i + 1,
           NEW d, Right(s, plus, k, d), Spelled(s, plus, i) \in Char
    PROVE  Right(s, plus, i, Put(Spelled(s, plus, i), d))
<1> DEFINE S == Standing(s)
           c == Spelled(s, plus, i)
           P == Plain(s, plus)
           C == Cardinality(S)
           a == Below(S, i)
           b == Below(S, k)
           e == Put(c, d)
<1>1. /\ Len(s) \in Nat /\ S \in SUBSET (1..Len(s)) /\ i \in S
  BY StandingType
<1>2. /\ i \in 1..Len(s) /\ k \in Nat /\ k > i /\ k <= Len(s) + 1
      /\ {j \in S : j < k} = {j \in S : j < i} \cup {i}
      /\ \A j \in i..(k - 1) : EscapeAt(s, j)
  BY NextStanding
<1>3. a \in Nat /\ b \in Nat /\ b = a + 1 /\ C \in Nat /\ b <= C
  <2>1. i \in Nat /\ k \in Nat
    BY <1>2
  <2> HIDE DEF S
  <2>2. /\ C \in Nat /\ \A q \in Nat : Below(S, q) \in Nat /\ Below(S, q) <= C
        /\ \A q, r \in Nat : {j \in S : j < r} = {j \in S : j < q} \cup {q} /\ q \in S
              => Below(S, r) = Below(S, q) + 1
    BY <1>1, Ranks
  <2>3. b = a + 1
    BY <1>1, <1>2, <2>1, <2>2
  <2>4. QED
    BY <2>1, <2>2, <2>3
<1>4. P[a + 1] = c
  BY PlainAt
<1>5. d \in Decodings /\ (d.ok <=> WellFrom(s, k)) /\ (d.ok => d.text = Remaining(s, plus, k))
  BY DEF Right
<1>6. e.ok = d.ok /\ e.text = <<c>> \o d.text /\ e \in Decodings
  <2>1. d.ok \in BOOLEAN /\ d.text \in Seq(Char) /\ d = [ok |-> d.ok, text |-> d.text]
    BY <1>5 DEF Decodings, Text
  <2>2. \A o, t, u : [[ok |-> o, text |-> t] EXCEPT !.text = u] = [ok |-> o, text |-> u]
    OBVIOUS
  <2>3. e = [d EXCEPT !.text = <<c>> \o d.text]
    BY DEF Put
  <2>4. e = [ok |-> d.ok, text |-> <<c>> \o d.text]
    BY <2>1, <2>2, <2>3
  <2> HIDE DEF c, e
  <2>5. c \in Char
    BY DEF c
  <2>6. <<c>> \o d.text \in Seq(Char)
    BY <2>1, <2>5, ConcatProperties
  <2>7. QED
    BY <2>1, <2>4, <2>6 DEF Decodings, Text
<1>7. WellFrom(s, i) <=> WellFrom(s, k)
  <2>1. \A j \in i..Len(s) : j \in i..(k - 1) \/ j \in k..Len(s)
    BY <1>1, <1>2
  <2>2. \A j \in k..Len(s) : j \in i..Len(s)
    BY <1>1, <1>2
  <2>3. QED
    BY <1>2, <2>1, <2>2 DEF WellFrom
<1>8. ASSUME d.ok PROVE e.text = Remaining(s, plus, i)
  <2>1. d.text = [m \in 1..(C - b) |-> P[b + m]]
    BY <1>5, <1>8 DEF Remaining
  <2>2. Remaining(s, plus, i) = [m \in 1..(C - a) |-> P[a + m]]
    BY DEF Remaining
  <2>3. d.text \in Seq(Char) /\ c \in Char
    BY <1>5 DEF Decodings, Text
  <2> HIDE DEF S, P, C, a, b, c, e
  <2>4. Len(d.text) = C - b /\ \A m \in 1..(C - b) : d.text[m] = P[b + m]
    <3>1. C - b \in Nat
      BY <1>3
    <3>2. DOMAIN d.text = 1..(C - b)
      BY <2>1
    <3>3. Len(d.text) = C - b
      BY <2>3, <3>1, <3>2, LenProperties
    <3>4. QED
      BY <2>1, <3>3
  <2>5. Len(<<c>> \o d.text) = C - a /\ <<c>> \o d.text \in Seq(Char)
    BY <1>3, <2>3, <2>4, ConcatProperties
  <2>6. \A m \in 1..(C - a) : (<<c>> \o d.text)[m] = P[a + m]
    <3>1. TAKE m \in 1..(C - a)
    <3>2. CASE m = 1
      BY <1>4, <2>3, <3>2 DEF a, c, P, S
    <3>3. CASE m # 1
      <4>1. m - 1 \in 1..(C - b) /\ b + (m - 1) = a + m
        BY <1>3, <3>3
      <4>2. (<<c>> \o d.text)[m] = d.text[m - 1]
        BY <1>3, <2>3, <2>4, <3>3, <4>1, ConcatProperties
      <4>3. QED
        BY <2>4, <4>1, <4>2
    <3>4. QED
      BY <3>2, <3>3
  <2>7. <<c>> \o d.text = [m \in 1..(C - a) |-> (<<c>> \o d.text)[m]]
    BY <2>5
  <2>8. <<c>> \o d.text = [m \in 1..(C - a) |-> P[a + m]]
    BY <2>6, <2>7
  <2>9. QED
    BY <1>6, <2>2, <2>8
<1>9. QED
  BY <1>5, <1>6, <1>7, <1>8 DEF Right

\* One position, with what the later ones return.
LEMMA DecodedRight ==
    ASSUME NEW s \in Text, NEW plus, NEW i \in Standing(s), NEW D, Decoding(s, plus, D),
           \A k \in Standing(s) \cup {Len(s) + 1} : k > i => Right(s, plus, k, D[k])
    PROVE  Right(s, plus, i, D[i])
<1>1. Len(s) \in Nat /\ i \in 1..Len(s)
  BY StandingType
<1>2. D[i] = Decoded(s, plus, i, D[i + 1], D[i + 3])
  BY <1>1 DEF Decoding
<1>3. s[i] \in Char /\ " " \in Char /\ \A a, b \in Hex : Byte[a, b] \in Char
  BY <1>1, BindingAssumption, ElementOfSeq DEF Text
<1>4. CASE ~EscapeAt(s, i)
  <2>1. s[i] = "%" /\ (i + 2 > Len(s) \/ <<s[i + 1], s[i + 2]>> \notin Hex \X Hex)
    BY <1>1, <1>4 DEF EscapeAt
  <2>2. D[i] = Malformed
    <3>1. ~(i > Len(s))
      BY <1>1
    <3>2. D[i] = IF i + 2 > Len(s) THEN Malformed
                 ELSE IF <<s[i + 1], s[i + 2]>> \notin Hex \X Hex THEN Malformed
                 ELSE Put(Byte[s[i + 1], s[i + 2]], D[i + 3])
      BY <1>2, <2>1, <3>1, Zenon DEF Decoded
    <3>3. QED
      BY <2>1, <3>2, Zenon
  <2>3. i \in i..Len(s)
    BY <1>1
  <2>4. ~WellFrom(s, i)
    BY <1>4, <2>3 DEF WellFrom
  <2>5. Malformed \in Decodings /\ ~Malformed.ok
    BY EmptySeq DEF Malformed, Decodings, Text
  <2>6. QED
    BY <2>2, <2>4, <2>5 DEF Right
<1>5. CASE EscapeAt(s, i)
  <2> DEFINE k == IF s[i] = "%" THEN i + 3 ELSE i + 1
  <2>1. k \in Standing(s) \cup {Len(s) + 1} /\ k > i
    BY <1>5, NextStanding
  <2>2. Right(s, plus, k, D[k])
    BY <2>1
  <2>3. D[i] = Put(Spelled(s, plus, i), D[k]) /\ Spelled(s, plus, i) \in Char
    <3>1. CASE s[i] = "%"
      <4>1. /\ i + 2 <= Len(s) /\ s[i + 1] \in Hex /\ s[i + 2] \in Hex
            /\ <<s[i + 1], s[i + 2]>> \in Hex \X Hex
        BY <1>5, <3>1 DEF EscapeAt
      <4>2. ~(i > Len(s)) /\ ~(i + 2 > Len(s))
        BY <1>1, <4>1
      <4>3. D[i] = Put(Byte[s[i + 1], s[i + 2]], D[i + 3])
        BY <1>2, <3>1, <4>1, <4>2 DEF Decoded
      <4>4. Spelled(s, plus, i) = Byte[s[i + 1], s[i + 2]]
        BY <3>1 DEF Spelled
      <4>5. QED
        BY <1>3, <3>1, <4>1, <4>3, <4>4
    <3>2. CASE s[i] # "%"
      <4>1. ~(i > Len(s))
        BY <1>1
      <4>2. D[i] = Put(IF s[i] = "+" /\ plus THEN " " ELSE s[i], D[i + 1])
        BY <1>2, <3>2, <4>1 DEF Decoded
      <4>3. Spelled(s, plus, i) = IF s[i] = "+" /\ plus THEN " " ELSE s[i]
        BY <3>2 DEF Spelled
      <4>4. QED
        BY <1>3, <3>2, <4>2, <4>3
    <3>3. QED
      BY <3>1, <3>2
  <2> HIDE DEF k
  <2>4. Right(s, plus, i, Put(Spelled(s, plus, i), D[k]))
    BY <1>5, <2>2, <2>3, PutRight DEF k
  <2>5. QED
    BY <2>3, <2>4
<1>6. QED
  BY <1>4, <1>5

\* percent_decode refuses what is not well formed, and returns what the text spells.
LEMMA DecodeMeans ==
    ASSUME NEW s \in Text, NEW plus
    PROVE  /\ Decode(s, plus).ok <=> WellFormed(s)
           /\ WellFormed(s) => Decode(s, plus).text = Plain(s, plus)
<1> DEFINE n == Len(s)
           S == Standing(s)
<1>1. n \in Nat /\ DOMAIN s = 1..n /\ S \in SUBSET (1..n)
  BY StandingType
<1>2. PICK D : Decoding(s, plus, D) /\ Decode(s, plus) = D[1]
  BY DecodeTurns
<1>3. Cardinality(S) \in Nat
  <2> HIDE DEF n, S
  <2>1. QED
    BY <1>1, Ranks
<1>4. Right(s, plus, n + 1, D[n + 1])
  <2>1. D[n + 1] = Good(<<>>)
    <3>1. n + 1 \in Nat /\ n + 1 > n
      BY <1>1
    <3>2. D[n + 1] = Decoded(s, plus, n + 1, D[(n + 1) + 1], D[(n + 1) + 3])
      BY <1>2, <3>1, Zenon DEF Decoding
    <3>3. QED
      BY <3>1, <3>2, Zenon DEF Decoded
  <2>2. Good(<<>>) \in Decodings /\ Good(<<>>).ok /\ Good(<<>>).text = <<>>
    BY EmptySeq DEF Good, Decodings, Text
  <2>3. WellFrom(s, n + 1)
    BY <1>1 DEF WellFrom
  <2>4. {j \in S : j < n + 1} = S
    BY <1>1
  <2>5. Below(S, n + 1) = Cardinality(S)
    BY <2>4 DEF Below
  <2>6. Remaining(s, plus, n + 1) = [m \in 1..(Cardinality(S) - Cardinality(S)) |->
                                  Plain(s, plus)[Cardinality(S) + m]]
    BY <2>5 DEF Remaining
  <2>7. 1..(Cardinality(S) - Cardinality(S)) = {}
    BY <1>3
  <2>8. Remaining(s, plus, n + 1) = <<>>
    <3>1. Remaining(s, plus, n + 1) =
             [m \in {} |-> Plain(s, plus)[Cardinality(S) + m]]
      BY <2>6, <2>7, Zenon
    <3>2. \A P, C : [m \in {} |-> P[C + m]] = <<>>
      OBVIOUS
    <3>3. QED
      BY <3>1, <3>2, Zenon
  <2>9. QED
    BY <2>1, <2>2, <2>3, <2>8 DEF Right
<1>5. \A i \in S \cup {n + 1} : Right(s, plus, i, D[i])
  <2> DEFINE W == {i \in S : ~Right(s, plus, i, D[i])}
  <2>1. SUFFICES ASSUME W # {} PROVE FALSE
    BY <1>4
  <2>2. PICK i \in W : \A r \in W : r <= i
    <3>1. W \in SUBSET (0..n)
      BY <1>1
    <3> HIDE DEF W, n
    <3>2. QED
      BY <1>1, <2>1, <3>1, LastPosition
  <2>3. i \in S /\ ~Right(s, plus, i, D[i]) /\ i \in 1..n
    BY <1>1, <2>2
  <2>4. ASSUME NEW k \in S \cup {n + 1}, k > i PROVE Right(s, plus, k, D[k])
    <3>1. CASE k = n + 1
      BY <1>4, <3>1
    <3>2. CASE k \in S
      <4>1. k \in 1..n /\ ~(k <= i)
        BY <1>1, <2>3, <2>4, <3>2
      <4>2. k \notin W
        <5> HIDE DEF W
        <5>1. QED
          BY <2>2, <4>1
      <4>3. QED
        BY <3>2, <4>2
    <3>3. QED
      BY <3>1, <3>2
  <2>5. Right(s, plus, i, D[i])
    BY <1>2, <2>3, <2>4, DecodedRight
  <2>6. QED
    BY <2>3, <2>5
<1>6. 1 \in S \cup {n + 1}
  <2>1. ~InEscape(s, 1)
    BY DEF InEscape
  <2>2. n = 0 \/ 1 \in DOMAIN s
    BY <1>1
  <2>3. 1 \in DOMAIN s => 1 \in S
    BY <2>1 DEF Standing
  <2>4. QED
    BY <2>2, <2>3
<1>7. Right(s, plus, 1, Decode(s, plus))
  BY <1>2, <1>5, <1>6
<1>8. WellFrom(s, 1) <=> WellFormed(s)
  BY <1>1 DEF WellFrom, WellFormed, EscapeAt
<1>9. Remaining(s, plus, 1) = Plain(s, plus)
  <2>1. {j \in S : j < 1} = {}
    BY <1>1
  <2>2. Below(S, 1) = 0
    BY <2>1, FS_EmptySet DEF Below
  <2>3. Remaining(s, plus, 1) = [m \in 1..(Cardinality(S) - 0) |-> Plain(s, plus)[0 + m]]
    BY <2>2 DEF Remaining
  <2>4. Plain(s, plus) = [m \in 1..Cardinality(S) |-> Plain(s, plus)[m]]
    BY DEF Plain
  <2>5. Cardinality(S) - 0 = Cardinality(S) /\ \A m \in 1..Cardinality(S) : 0 + m = m
    BY <1>3
  <2> HIDE DEF S
  <2>6. QED
    BY <2>3, <2>4, <2>5
<1>10. QED
  BY <1>7, <1>8, <1>9 DEF Right

\* requires_decoding: a well-formed text that it finds nothing in spells itself, any other
\* one does not.
LEMMA OwnedMeans ==
    ASSUME NEW s \in Text, NEW plus, WellFormed(s)
    PROVE  Owned(s, plus) <=> Plain(s, plus) # s
<1> DEFINE n == Len(s)
           S == Standing(s)
<1>1. n \in Nat /\ DOMAIN s = 1..n /\ S \in SUBSET (1..n) /\ s = [i \in 1..n |-> s[i]]
  BY StandingType DEF Text
<1>2. /\ Cardinality(S) \in Nat /\ Cardinality(S) <= n
      /\ Cardinality(S) = n => S = 1..n
  <2> HIDE DEF n, S
  <2>1. QED
    BY <1>1, Ranks
<1>3. DOMAIN Plain(s, plus) = 1..Cardinality(S)
  BY DEF Plain
<1>4. CASE \E i \in DOMAIN s : s[i] = "%"
  <2>1. PICK i \in 1..n : s[i] = "%"
    BY <1>1, <1>4
  <2>2. i + 1 \in 1..n /\ InEscape(s, i + 1)
    <3>1. i + 2 <= n
      BY <1>1, <2>1 DEF WellFormed
    <3>2. i + 1 \in 1..n /\ (i + 1) - 1 = i /\ i + 1 > 1
      BY <1>1, <3>1
    <3>3. QED
      BY <2>1, <3>2 DEF InEscape
  <2>3. i + 1 \notin S
    BY <2>2 DEF Standing
  <2>4. Cardinality(S) # n
    BY <1>2, <2>2, <2>3
  <2>5. 1..Cardinality(S) # 1..n
    <3>1. n \in 1..n /\ n \notin 1..Cardinality(S)
      BY <1>1, <1>2, <2>4
    <3>2. QED
      BY <3>1
  <2>6. Plain(s, plus) # s
    BY <1>1, <1>3, <2>5
  <2>7. QED
    BY <1>4, <2>6 DEF Owned
<1>5. CASE \A i \in DOMAIN s : s[i] # "%"
  <2>1. ASSUME NEW i \in 1..n PROVE i \in S
    <3>1. (i > 1 => i - 1 \in 1..n) /\ (i > 2 => i - 2 \in 1..n)
      BY <1>1
    <3>2. ~InEscape(s, i)
      BY <1>1, <1>5, <3>1 DEF InEscape
    <3>3. QED
      BY <1>1, <3>2 DEF Standing
  <2>2. S = 1..n
    BY <1>1, <2>1
  <2>3. Cardinality(S) = n
    <3>1. n \in Int /\ 1 \in Int /\ (1 > n => n = 0) /\ (~(1 > n) => n - 1 + 1 = n)
      BY <1>1
    <3>2. Cardinality(1..n) = IF 1 > n THEN 0 ELSE n - 1 + 1
      BY ONLY <3>1, FS_Interval, Zenon
    <3>3. Cardinality(1..n) = n
      BY ONLY <3>1, <3>2, Zenon
    <3>4. QED
      BY ONLY <2>2, <3>3, Zenon
  <2>4. ASSUME NEW i \in 1..n
        PROVE  Plain(s, plus)[i] = IF s[i] = "+" /\ plus THEN " " ELSE s[i]
    <3>1. {j \in S : j < i} = 1..(i - 1)
      BY <1>1, <2>2
    <3>2. Cardinality(1..(i - 1)) = i - 1
      <4>1. i - 1 \in Int /\ 1 \in Int /\ (1 > i - 1 => i - 1 = 0)
        OBVIOUS
      <4>2. QED
        BY <4>1, FS_Interval
    <3>3. Below(S, i) + 1 = i
      <4>1. Below(S, i) = i - 1
        BY <3>1, <3>2, Zenon DEF Below
      <4> HIDE DEF S
      <4>2. QED
        BY <4>1
    <3>4. Plain(s, plus)[Below(S, i) + 1] = Spelled(s, plus, i)
      BY <2>1, PlainAt
    <3>5. s[i] # "%"
      BY <1>1, <1>5
    <3>6. QED
      BY <3>3, <3>4, <3>5 DEF Spelled
  <2>5. Owned(s, plus) <=> plus /\ \E i \in 1..n : s[i] = "+"
    BY <1>1, <1>5 DEF Owned
  <2>6. CASE plus /\ \E i \in 1..n : s[i] = "+"
    <3>1. PICK i \in 1..n : s[i] = "+"
      BY <2>6
    <3>2. Plain(s, plus)[i] = " "
      BY <2>4, <2>6, <3>1
    <3>3. Plain(s, plus) # s
      BY <3>1, <3>2
    <3>4. QED
      BY <2>5, <2>6, <3>3
  <2>7. CASE ~(plus /\ \E i \in 1..n : s[i] = "+")
    <3>1. \A i \in 1..n : Plain(s, plus)[i] = s[i]
      BY <2>4, <2>7
    <3>2. Plain(s, plus) = [i \in 1..n |-> Plain(s, plus)[i]]
      BY <2>3 DEF Plain
    <3>3. Plain(s, plus) = s
      BY <1>1, <3>1, <3>2
    <3>4. QED
      BY <2>5, <2>7, <3>3
  <2>8. QED
    BY <2>6, <2>7
<1>6. QED
  BY <1>4, <1>5

-----------------------------------------------------------------------------
(* Cookies.                                                                *)

Inked(t, a, b) == {i \in a..b : t[i] # " "}

LEMMA SliceType ==
    ASSUME NEW t \in Text, NEW a \in Nat \ {0}, NEW b \in 0..Len(t)
    PROVE  /\ SubSeq(t, a, b) \in Text
           /\ Len(SubSeq(t, a, b)) = IF a <= b THEN b - a + 1 ELSE 0
           /\ \A i \in 1..(b - a + 1) : SubSeq(t, a, b)[i] = t[a + i - 1]
<1>1. Len(t) \in Nat /\ a \in Int /\ b \in Int
  BY DEF Text
<1>2. \A i \in a..b : i \in 1..Len(t)
  BY <1>1
<1>3. \A i \in a..b : t[i] \in Char
  BY <1>2, ElementOfSeq DEF Text
<1>4. QED
  BY <1>1, <1>3, SubSeqProperties DEF Text

\* What trimming leaves of a part depends on where the part is inked.
LEMMA TrimPart ==
    ASSUME NEW t \in Text, NEW a \in Nat \ {0}, NEW b \in 0..Len(t)
    PROVE  /\ Inked(t, a, b) = {} => trim_optional_whitespace(SubSeq(t, a, b)) = <<>>
           /\ \A f, l \in Inked(t, a, b) :
                 (\A k \in Inked(t, a, b) : f <= k /\ k <= l)
                    => trim_optional_whitespace(SubSeq(t, a, b)) = SubSeq(t, f, l)
<1> DEFINE u == SubSeq(t, a, b)
           K == Inked(t, a, b)
           kept == {i \in DOMAIN u : u[i] # " "}
<1>1. Len(t) \in Nat /\ a \in Nat /\ a >= 1 /\ b \in Nat /\ b <= Len(t)
  BY DEF Text
<1>2. /\ u \in Text /\ Len(u) = IF a <= b THEN b - a + 1 ELSE 0
      /\ \A i \in 1..(b - a + 1) : u[i] = t[a + i - 1]
  BY SliceType
<1>0. a \in Nat /\ a >= 1 /\ b \in Nat
  BY <1>1
<1> HIDE DEF u
<1>3. DOMAIN u = 1..(b - a + 1)
  <2>1. DOMAIN u = 1..Len(u)
    BY <1>2 DEF Text
  <2>2. 1..Len(u) = 1..(b - a + 1)
    BY <1>1, <1>2
  <2>3. QED
    BY <2>1, <2>2
<1>4. \A k \in K : k \in Nat /\ k - a + 1 \in kept
  <2>1. TAKE k \in K
  <2>2. k \in a..b /\ t[k] # " "
    BY DEF Inked
  <2>3. k - a + 1 \in 1..(b - a + 1) /\ a + (k - a + 1) - 1 = k /\ k \in Nat
    <3>1. k \in a..b
      BY <2>2
    <3>2. QED
      BY ONLY <1>0, <3>1
  <2>4. u[k - a + 1] = t[k]
    BY <1>2, <2>3
  <2>5. QED
    BY <1>3, <2>2, <2>3, <2>4
<1>5. \A i \in kept : i \in Nat /\ a + i - 1 \in K
  <2>0. \A j \in 1..(b - a + 1) : a + j - 1 \in a..b /\ j \in Nat
    BY ONLY <1>0
  <2>1. TAKE i \in kept
  <2>2. i \in 1..(b - a + 1) /\ u[i] # " "
    BY <1>3
  <2>3. a + i - 1 \in a..b /\ i \in Nat
    BY <2>0, <2>2
  <2>4. u[i] = t[a + i - 1]
    BY <1>2, <2>2
  <2>5. QED
    BY <2>2, <2>3, <2>4 DEF Inked
<1>6. trim_optional_whitespace(u) =
         IF kept = {} THEN <<>>
         ELSE SubSeq(u, CHOOSE i \in kept : \A j \in kept : i <= j,
                        CHOOSE i \in kept : \A j \in kept : j <= i)
  BY DEF trim_optional_whitespace
<1>7. ASSUME K = {} PROVE trim_optional_whitespace(u) = <<>>
  <2>1. kept = {}
    <3> HIDE DEF kept, K
    <3>1. QED
      BY <1>5, <1>7
  <2>2. QED
    BY <1>6, <2>1
<1>8. ASSUME NEW f \in K, NEW l \in K, \A k \in K : f <= k /\ k <= l
      PROVE  trim_optional_whitespace(u) = SubSeq(t, f, l)
  <2> DEFINE F == f - a + 1
             L == l - a + 1
  <2>0. f \in a..b /\ l \in a..b
    BY DEF Inked
  <2> HIDE DEF kept, K
  <2>1. F \in kept /\ L \in kept /\ F \in Nat /\ L \in Nat
    BY <1>4, <1>5
  <2>2. \A i \in kept : F <= i /\ i <= L
    <3>1. TAKE i \in kept
    <3>2. i \in Nat /\ f <= a + i - 1 /\ a + i - 1 <= l
      BY <1>5, <1>8
    <3>3. QED
      BY <1>1, <2>0, <3>2
  <2>3. \A i \in kept : i \in Nat
    BY <1>5
  <2> HIDE DEF F, L
  <2>4. (CHOOSE i \in kept : \A j \in kept : i <= j) = F
    <3>1. \A i \in kept : (\A j \in kept : i <= j) => i = F
      BY <2>1, <2>2, <2>3
    <3>2. QED
      BY <2>1, <2>2, <3>1
  <2>5. (CHOOSE i \in kept : \A j \in kept : j <= i) = L
    <3>1. \A i \in kept : (\A j \in kept : j <= i) => i = L
      BY <2>1, <2>2, <2>3
    <3>2. QED
      BY <2>1, <2>2, <3>1
  <2>6. trim_optional_whitespace(u) = SubSeq(u, F, L)
    BY <1>6, <2>1, <2>4, <2>5
  <2>7. SubSeq(SubSeq(t, a, b), F, L) = SubSeq(t, a + F - 1, a + L - 1)
    <3>1. a \in 1..Len(t) /\ b \in 1..Len(t) /\ F \in 1..(b - a + 1) /\ L \in 1..(b - a + 1)
      BY <1>1, <2>0 DEF F, L
    <3>2. t \in Seq(Char)
      BY DEF Text
    <3>3. QED
      BY <3>1, <3>2, SubSeqOfSubSeq
  <2>8. a + F - 1 = f /\ a + L - 1 = l
    BY <1>1, <2>0 DEF F, L
  <2>9. QED
    BY <2>6, <2>7, <2>8 DEF u
<1>9. QED
  BY <1>7, <1>8 DEF u

\* An inked part has a first and a last character.
LEMMA InkedEnds ==
    ASSUME NEW t \in Text, NEW a \in Nat \ {0}, NEW b \in 0..Len(t), Inked(t, a, b) # {}
    PROVE  \E f, l \in Inked(t, a, b) :
              /\ \A k \in Inked(t, a, b) : f <= k /\ k <= l
              /\ f \in a..b /\ l \in f..b
<1> DEFINE K == Inked(t, a, b)
<1>1. \A k \in K : k \in a..b
  BY DEF Inked
<1>2. b \in Nat /\ a \in Nat
  BY DEF Text
<1>3. K \in SUBSET (0..b) /\ K \in SUBSET Nat
  BY <1>1, <1>2
<1> HIDE DEF K
<1>4. K # {}
  BY DEF K
<1>5. PICK f \in K : \A k \in K : f <= k
  BY <1>3, <1>4, FirstPosition
<1>6. PICK l \in K : \A k \in K : k <= l
  BY <1>2, <1>3, <1>4, LastPosition
<1>7. f \in a..b /\ l \in f..b
  BY <1>1, <1>2, <1>5, <1>6
<1>8. QED
  BY <1>5, <1>6, <1>7 DEF K

LEMMA TrimSame ==
    ASSUME NEW t \in Text, NEW a \in Nat \ {0}, NEW b \in 0..Len(t),
           NEW c \in Nat \ {0}, NEW d \in 0..Len(t), Inked(t, a, b) = Inked(t, c, d)
    PROVE  trim_optional_whitespace(SubSeq(t, a, b)) = trim_optional_whitespace(SubSeq(t, c, d))
<1>1. CASE Inked(t, a, b) = {}
  <2>1. trim_optional_whitespace(SubSeq(t, a, b)) = <<>>
    BY <1>1, TrimPart
  <2>2. Inked(t, c, d) = {}
    BY <1>1
  <2>3. trim_optional_whitespace(SubSeq(t, c, d)) = <<>>
    BY <2>2, TrimPart
  <2>4. QED
    BY <2>1, <2>3
<1>2. CASE Inked(t, a, b) # {}
  <2>1. PICK f, l \in Inked(t, a, b) : \A k \in Inked(t, a, b) : f <= k /\ k <= l
    BY <1>2, InkedEnds
  <2>2. trim_optional_whitespace(SubSeq(t, a, b)) = SubSeq(t, f, l)
    BY <2>1, TrimPart
  <2>3. trim_optional_whitespace(SubSeq(t, c, d)) = SubSeq(t, f, l)
    BY <2>1, TrimPart
  <2>4. QED
    BY <2>2, <2>3
<1>3. QED
  BY <1>1, <1>2

\* A cookie is cut at its first "=", and trimming the whole of it first changes nothing.
LEMMA CookieCut ==
    ASSUME NEW u \in Text
    PROVE  LET pair   == trim_optional_whitespace(u)
               equals == Find(pair, "=", 1)
           IN  /\ equals <= Len(pair) <=> \E i \in DOMAIN u : u[i] = "="
               /\ equals <= Len(pair) =>
                     /\ trim_optional_whitespace(Between(pair, 1, equals))
                           = trim_optional_whitespace(Before(u, "="))
                     /\ trim_optional_whitespace(Between(pair, equals + 1, Len(pair) + 1))
                           = trim_optional_whitespace(After(u, "="))
<1> DEFINE n == Len(u)
           K == Inked(u, 1, n)
           pair == trim_optional_whitespace(u)
           q == Find(pair, "=", 1)
           m == Len(pair)
           e == Find(u, "=", 1)
<1>1. n \in Nat /\ DOMAIN u = 1..n /\ u \in Seq(Char)
  BY DEF Text
<1>2. SubSeq(u, 1, n) = u
  BY <1>1, SubSeqFull
<1>3. 1 \in Nat \ {0} /\ n \in 0..Len(u)
  BY <1>1
<1>4. \A i \in 1..n : u[i] = "=" => i \in K
  BY DEF Inked
<1>5. CASE K = {}
  <2>1. pair = <<>>
    <3>1. trim_optional_whitespace(SubSeq(u, 1, n)) = <<>>
      <4> HIDE DEF n, pair
      <4>1. Inked(u, 1, n) = {}
        BY <1>5
      <4>2. QED
        BY <1>3, <4>1, TrimPart
    <3>2. QED
      BY <1>2, <3>1
  <2>2. m = 0 /\ pair \in Text
    BY <2>1, EmptySeq DEF Text
  <2>3. q \in 1..(m + 1)
    <3>1. 1 \in 1..(Len(pair) + 1)
      BY <2>2
    <3>2. QED
      BY <2>2, <3>1, FindType
  <2>4. ~(q <= m)
    BY <2>2, <2>3
  <2>5. ~\E i \in DOMAIN u : u[i] = "="
    BY <1>1, <1>4, <1>5
  <2>6. QED
    BY <2>4, <2>5
<1>6. CASE K # {}
  <2>1. PICK f, l \in K : (\A k \in K : f <= k /\ k <= l) /\ f \in 1..n /\ l \in f..n
    BY <1>3, <1>6, InkedEnds
  <2>2. pair = SubSeq(u, f, l)
    BY <1>2, <1>3, <2>1, TrimPart
  <2>3. pair \in Text /\ m = l - f + 1 /\ m \in Nat /\ m >= 1
        /\ \A i \in 1..m : pair[i] = u[f + i - 1]
    <3>1. f \in Nat \ {0} /\ l \in 0..Len(u) /\ f <= l
      BY <1>1, <2>1
    <3>2. l - f + 1 \in Nat /\ l - f + 1 >= 1
      BY ONLY <1>1, <2>1
    <3>3. QED
      BY <2>2, <3>1, <3>2, SliceType
  <2>4. /\ q \in 1..(m + 1) /\ (q = m + 1 \/ pair[q] = "=") /\ \A j \in 1..(q - 1) : pair[j] # "="
    <3>1. 1 \in 1..(Len(pair) + 1)
      BY <2>3
    <3>2. QED
      BY <2>3, <3>1, FindType
  <2>5. /\ e \in 1..(n + 1) /\ (e = n + 1 \/ u[e] = "=") /\ \A j \in 1..(e - 1) : u[j] # "="
    <3>1. 1 \in 1..(Len(u) + 1)
      BY <1>1
    <3>2. QED
      BY <3>1, FindType
  <2>6. f \in Nat /\ l \in Nat /\ 1 <= f /\ f <= l /\ l <= n
    BY <1>1, <2>1
  <2>10. \A x, y \in 1..(l - f + 1) : SubSeq(pair, x, y) = SubSeq(u, f + x - 1, f + y - 1)
    <3>1. f \in 1..Len(u) /\ l \in 1..Len(u)
      BY <1>1, <2>6
    <3>2. \A x, y \in 1..(l - f + 1) :
             SubSeq(SubSeq(u, f, l), x, y) = SubSeq(u, f + x - 1, f + y - 1)
      BY <1>1, <3>1, SubSeqOfSubSeq
    <3>3. QED
      BY <2>2, <3>2
  <2> HIDE DEF K, m, q, e
  <2>7. CASE \E i \in DOMAIN u : u[i] = "="
    <3>1. PICK d \in 1..n : u[d] = "="
      BY <1>1, <2>7
    <3>2. e # n + 1 /\ e \in 1..n /\ u[e] = "="
      <4>1. d \notin 1..(e - 1)
        BY <2>5, <3>1
      <4>2. e # n + 1
        BY <1>1, <2>5, <4>1
      <4>3. QED
        BY <1>1, <2>5, <4>2
    <3>3. e \in K /\ f <= e /\ e <= l
      BY <1>4, <2>1, <3>2
    <3>4. q = e - f + 1
      <4>1. e - f + 1 \in 1..m /\ f + (e - f + 1) - 1 = e
        BY <1>1, <2>3, <2>6, <3>2, <3>3
      <4>2. pair[e - f + 1] = "="
        BY <2>3, <3>2, <4>1
      <4>3. e - f + 1 \notin 1..(q - 1)
        BY <2>4, <4>2
      <4>4. q <= e - f + 1 /\ q \in 1..m
        BY <2>3, <2>4, <4>1, <4>3
      <4>5. q # m + 1 /\ pair[q] = "=" /\ pair[q] = u[f + q - 1]
        BY <2>3, <2>4, <4>4
      <4>6. f + q - 1 \in Nat /\ f + q - 1 >= 1
        BY <2>3, <2>6, <4>4
      <4>7. f + q - 1 \notin 1..(e - 1)
        BY <2>5, <4>5
      <4>8. QED
        BY <1>1, <2>6, <3>2, <4>4, <4>6, <4>7
    <3>5. q <= m /\ q \in 1..m
      BY <2>3, <2>6, <3>2, <3>3, <3>4
    <3>6. pair \in Seq(Char) /\ u \in Text
      BY <2>3 DEF Text
    <3>7. trim_optional_whitespace(Between(pair, 1, q)) = trim_optional_whitespace(Before(u, "="))
      <4>1. Before(u, "=") = SubSeq(u, 1, e - 1)
        BY DEF Before, Between, e
      <4>2. Between(pair, 1, q) = SubSeq(u, f, e - 1)
        <5>1. Between(pair, 1, q) = SubSeq(pair, 1, q - 1)
          BY DEF Between
        <5>2. CASE q = 1
          <6>1. e = f /\ q - 1 < 1 /\ e - 1 < f /\ q - 1 \in Int /\ e - 1 \in Int /\ f \in Int
            BY <2>6, <3>2, <3>4, <5>2
          <6>2. SubSeq(pair, 1, q - 1) = <<>> /\ SubSeq(u, f, e - 1) = <<>>
            BY <6>1, SubSeqEmpty
          <6>3. QED
            BY <5>1, <6>2
        <5>3. CASE q # 1
          <6>1. /\ f \in 1..Len(u) /\ l \in 1..Len(u) /\ 1 \in 1..(l - f + 1)
                /\ q - 1 \in 1..(l - f + 1) /\ f + 1 - 1 = f /\ f + (q - 1) - 1 = e - 1
            BY <1>1, <2>3, <2>6, <3>2, <3>4, <3>5, <5>3
          <6>2. SubSeq(pair, 1, q - 1) = SubSeq(u, f + 1 - 1, f + (q - 1) - 1)
            BY <2>10, <6>1
          <6>3. QED
            BY <5>1, <6>1, <6>2
        <5>4. QED
          BY <5>2, <5>3
      <4>3. Inked(u, f, e - 1) = Inked(u, 1, e - 1)
        <5>1. \A i \in 1..(e - 1) : u[i] # " " => i \in f..(e - 1)
          <6>1. TAKE i \in 1..(e - 1)
          <6>2. HAVE u[i] # " "
          <6>3. i \in 1..n
            BY <1>1, <3>2
          <6>4. i \in K
            BY <6>2, <6>3 DEF K, Inked
          <6>5. f <= i
            BY <2>1, <6>4
          <6>6. QED
            BY <2>6, <3>2, <6>5
        <5>2. \A i \in f..(e - 1) : i \in 1..(e - 1)
          BY <2>6, <3>2
        <5>3. QED
          BY <5>1, <5>2 DEF Inked
      <4>4. f \in Nat \ {0} /\ e - 1 \in 0..Len(u)
        BY <1>1, <2>6, <3>2
      <4>5. trim_optional_whitespace(SubSeq(u, f, e - 1)) = trim_optional_whitespace(SubSeq(u, 1, e - 1))
        BY <1>3, <4>3, <4>4, TrimSame
      <4>6. QED
        BY <4>1, <4>2, <4>5
    <3>8. trim_optional_whitespace(Between(pair, q + 1, m + 1)) = trim_optional_whitespace(After(u, "="))
      <4>1. After(u, "=") = SubSeq(u, e + 1, n)
        <5>1. After(u, "=") = SubSeq(u, e + 1, (n + 1) - 1)
          BY DEF After, Between, e
        <5>2. (n + 1) - 1 = n
          BY <1>1
        <5>3. QED
          BY <5>1, <5>2
      <4>2. Between(pair, q + 1, m + 1) = SubSeq(u, e + 1, l)
        <5>1. Between(pair, q + 1, m + 1) = SubSeq(pair, q + 1, m)
          <6>1. (m + 1) - 1 = m
            BY <2>3
          <6>2. QED
            BY <6>1 DEF Between
        <5>2. CASE q = m
          <6>1. e = l /\ m < q + 1 /\ l < e + 1 /\ q + 1 \in Int /\ m \in Int /\ e + 1 \in Int /\ l \in Int
            BY <2>3, <2>6, <3>2, <3>4, <5>2
          <6>2. SubSeq(pair, q + 1, m) = <<>> /\ SubSeq(u, e + 1, l) = <<>>
            BY <6>1, SubSeqEmpty
          <6>3. QED
            BY <5>1, <6>2
        <5>3. CASE q # m
          <6>1. /\ f \in 1..Len(u) /\ l \in 1..Len(u) /\ q + 1 \in 1..(l - f + 1)
                /\ m \in 1..(l - f + 1) /\ f + (q + 1) - 1 = e + 1 /\ f + m - 1 = l
            BY <1>1, <2>3, <2>6, <3>2, <3>4, <3>5, <5>3
          <6>2. SubSeq(pair, q + 1, m) = SubSeq(u, f + (q + 1) - 1, f + m - 1)
            BY <2>10, <6>1
          <6>3. QED
            BY <5>1, <6>1, <6>2
        <5>4. QED
          BY <5>2, <5>3
      <4>3. Inked(u, e + 1, l) = Inked(u, e + 1, n)
        <5>1. \A i \in (e + 1)..n : u[i] # " " => i \in (e + 1)..l
          <6>1. TAKE i \in (e + 1)..n
          <6>2. HAVE u[i] # " "
          <6>3. i \in 1..n
            BY <1>1, <3>2
          <6>4. i \in K
            BY <6>2, <6>3 DEF K, Inked
          <6>5. i <= l
            BY <2>1, <6>4
          <6>6. QED
            BY <2>6, <3>2, <6>5
        <5>2. \A i \in (e + 1)..l : i \in (e + 1)..n
          BY <1>1, <2>6, <3>2
        <5>3. QED
          BY <5>1, <5>2 DEF Inked
      <4>4. e + 1 \in Nat \ {0} /\ l \in 0..Len(u)
        BY <1>1, <2>6, <3>2
      <4>5. trim_optional_whitespace(SubSeq(u, e + 1, l)) = trim_optional_whitespace(SubSeq(u, e + 1, n))
        <5>1. n \in 0..Len(u)
          BY <1>3
        <5> HIDE DEF n
        <5>2. QED
          BY <4>3, <4>4, <5>1, TrimSame
      <4>6. QED
        BY <4>1, <4>2, <4>5
    <3>9. QED
      BY <2>7, <3>5, <3>7, <3>8 DEF q, m
  <2>8. CASE ~\E i \in DOMAIN u : u[i] = "="
    <3>1. \A i \in 1..m : pair[i] # "="
      <4>1. TAKE i \in 1..m
      <4>2. f + i - 1 \in 1..n
        BY <1>1, <2>3, <2>6
      <4>3. QED
        BY <1>1, <2>3, <2>8, <4>2
    <3>2. ~(q <= m)
      BY <2>3, <2>4, <3>1
    <3>3. QED
      BY <2>8, <3>2 DEF q, m
  <2>9. QED
    BY <2>7, <2>8
<1>7. QED
  BY <1>5, <1>6

-----------------------------------------------------------------------------
(* What is found is what is given.                                         *)

LEMMA FirstIs ==
    ASSUME NEW S \in SUBSET Nat, NEW x \in S, \A r \in S : x <= r
    PROVE  First(S) = x
<1>1. \A i \in S : (\A j \in S : i <= j) => i = x
  BY \A i \in S : i \in Nat
<1>2. QED
  BY <1>1 DEF First

LEMMA FirstIn ==
    ASSUME NEW S \in SUBSET Nat, S # {}
    PROVE  First(S) \in S /\ \A r \in S : First(S) <= r
<1>1. \E i \in S : \A j \in S : i <= j
  BY FirstPosition
<1>2. QED
  BY <1>1 DEF First

\* With one place at most, none comes again, and what was found is the value there.
LEMMA OnlyOne ==
    ASSUME NEW N \in SUBSET Nat, NEW values, NEW found, Only(N, values, found)
    PROVE  /\ Again(N) = {} /\ (found = <<>> <=> N = {})
           /\ \A i, j \in N : i = j
           /\ N # {} => First(N) \in N /\ found[1] = values[First(N)]
<1>1. CASE N = {}
  BY <1>1 DEF Only, Again
<1>2. CASE N # {}
  <2>1. PICK s \in N : N = {s} /\ found = <<values[s]>>
    BY <1>2 DEF Only
  <2>2. s \in Nat /\ ~(s < s)
    BY <2>1
  <2>3. Again(N) = {}
    BY <2>1, <2>2 DEF Again
  <2>4. First(N) = s
    <3>1. \A r \in N : s <= r
      BY <2>1, <2>2
    <3>2. QED
      BY <3>1, FirstIs
  <2>5. found # <<>> /\ found[1] = values[s]
    BY <2>1
  <2>6. QED
    BY <2>1, <2>3, <2>4, <2>5
<1>3. QED
  BY <1>1, <1>2

LEMMA PlaceType ==
    ASSUME NEW t \in Text, NEW c
    PROVE  /\ Begins(t, c) \in SUBSET Nat
           /\ \A s \in Begins(t, c) : Between(t, s, Find(t, c, s)) \in Text
           /\ t # <<>> => Parts(t, c) = [s \in Begins(t, c) |-> Between(t, s, Find(t, c, s))]
           /\ t = <<>> => DOMAIN Parts(t, c) = {}
BY PairType DEF Begins, Parts, Text

LEMMA HeaderPlaces ==
    ASSUME TypeInv
    PROVE  \A n : HeaderNamed(n) \in SUBSET Nat /\ HeaderNamed(n) \subseteq DOMAIN request.headers
<1>1. DOMAIN request.headers = 1..Len(request.headers) /\ Len(request.headers) \in Nat
  BY RequestType
<1>2. QED
  BY <1>1 DEF HeaderNamed

LEMMA CutType ==
    ASSUME NEW t \in Text
    PROVE  Before(t, "=") \in Text /\ After(t, "=") \in Text
<1>1. Len(t) \in Nat
  BY DEF Text
<1>2. Find(t, "=", 1) \in 1..(Len(t) + 1)
  BY <1>1, FindType
<1>3. 1 \in Nat \ {0} /\ Find(t, "=", 1) \in 0..(Len(t) + 1)
  BY <1>1, <1>2
<1>4. QED
  BY <1>3, BetweenType, AfterEquals DEF Before, After

\* What a header means: nothing but what the search sees.
LEMMA InHeadersIs ==
    ASSUME NEW n
    PROVE  /\ InHeaders(request, n).value = [i \in HeaderNamed(n) |-> HeaderValues[i]]
           /\ InHeaders(request, n).error =
                 IF Again(HeaderNamed(n)) = {} THEN "none" ELSE "duplicate_header"
<1>1. \A i \in HeaderNamed(n) : HeaderValues[i] = request.headers[i].value
  BY DEF HeaderNamed, HeaderValues
<1>2. InHeaders(request, n) =
         [error |-> IF Again(HeaderNamed(n)) = {} THEN "none" ELSE "duplicate_header",
          value |-> [i \in HeaderNamed(n) |-> request.headers[i].value]]
  BY DEF InHeaders, HeaderNamed
<1>3. QED
  BY <1>1, <1>2

Unread(t) == {s \in Begins(t, "&") : ~QueryPair(t, s).name.ok}

\* What a query means: the names that percent_decode refuses are not well formed, and those
\* it returns are what they spell.
LEMMA InQueryIs ==
    ASSUME NEW p, request.query \in Text, request.query # <<>>
    PROVE  LET t == request.query
               N == QueryNamed(t, p.name)
               wrong == Unread(t) \cup Again(N)
           IN  /\ InQuery(request, p).value = [s \in N |-> QueryValues(t)[s]]
               /\ InQuery(request, p).error =
                     IF wrong = {} THEN "none"
                     ELSE IF First(wrong) \in Unread(t) THEN "invalid_percent_encoding"
                     ELSE "duplicate_query_parameter"
<1> DEFINE t == request.query
           parts == Parts(t, "&")
           bad   == {s \in DOMAIN parts : ~WellFormed(Before(parts[s], "="))}
           named == {s \in DOMAIN parts \ bad : Plain(Before(parts[s], "="), TRUE) = p.name}
<1>1. DOMAIN parts = Begins(t, "&")
      /\ \A s \in Begins(t, "&") : parts[s] = Between(t, s, Find(t, "&", s)) /\ parts[s] \in Text
  BY PlaceType
<1>2. ASSUME NEW s \in Begins(t, "&")
      PROVE  /\ QueryPair(t, s).name.ok <=> WellFormed(Before(parts[s], "="))
             /\ QueryPair(t, s).name.ok =>
                   QueryPair(t, s).name.text = Plain(Before(parts[s], "="), TRUE)
             /\ QueryPair(t, s).value = After(parts[s], "=")
  <2>1. QueryPair(t, s).name = Decode(Before(parts[s], "="), TRUE)
        /\ QueryPair(t, s).value = After(parts[s], "=")
    BY <1>1 DEF QueryPair, Before, After
  <2>2. Before(parts[s], "=") \in Text
    BY <1>1, CutType
  <2> HIDE DEF t, parts
  <2>3. QED
    BY <2>1, <2>2, DecodeMeans
<1>3. bad = Unread(t)
  <2> HIDE DEF t, parts
  <2>1. QED
    BY <1>1, <1>2 DEF Unread
<1>4. named = QueryNamed(t, p.name)
  <2>1. \A s \in Begins(t, "&") : s \notin bad <=> QueryPair(t, s).name.ok
    BY <1>3 DEF Unread
  <2> HIDE DEF t, parts, bad
  <2>2. \A s \in Begins(t, "&") : s \in named <=> s \in QueryNamed(t, p.name)
    BY <1>1, <1>2, <2>1 DEF QueryNamed
  <2>3. named \subseteq Begins(t, "&") /\ QueryNamed(t, p.name) \subseteq Begins(t, "&")
    BY <1>1 DEF QueryNamed
  <2> HIDE DEF named
  <2>4. QED
    BY <2>2, <2>3
<1>5. InQuery(request, p) =
         [error |-> IF bad \cup Again(named) = {} THEN "none"
                    ELSE IF First(bad \cup Again(named)) \in bad THEN "invalid_percent_encoding"
                    ELSE "duplicate_query_parameter",
          value |-> [s \in named |-> After(parts[s], "=")]]
  BY DEF InQuery
<1>6. \A s \in QueryNamed(t, p.name) : QueryValues(t)[s] = After(parts[s], "=")
  <2>1. \A s \in QueryNamed(t, p.name) : s \in Begins(t, "&")
    BY DEF QueryNamed
  <2> HIDE DEF t, parts
  <2>2. QED
    BY <1>2, <2>1 DEF QueryValues
<1> HIDE DEF t, parts, bad, named
<1>7. InQuery(request, p).value = [s \in named |-> After(parts[s], "=")]
      /\ InQuery(request, p).error =
            IF bad \cup Again(named) = {} THEN "none"
            ELSE IF First(bad \cup Again(named)) \in bad THEN "invalid_percent_encoding"
            ELSE "duplicate_query_parameter"
  BY <1>5
<1>8. QED
  BY <1>3, <1>4, <1>6, <1>7 DEF t

\* What the cookies mean, once it is known which header holds them.
LEMMA InCookiesIs ==
    ASSUME TypeInv, NEW p, NEW t \in Text,
           LET held == HeaderNamed(<<"Cookie">>)
           IN  /\ Again(held) = {}
               /\ t = IF held = {} THEN <<>> ELSE HeaderValues[First(held)]
    PROVE  LET N == IF t = <<>> THEN {} ELSE CookieNamed(t, p.name)
           IN  /\ InCookies(request, p).value = [s \in N |-> CookieValues(t)[s]]
               /\ InCookies(request, p).error = IF Again(N) = {} THEN "none" ELSE "duplicate_cookie"
<1> DEFINE held  == InHeaders(request, <<"Cookie">>)
           H == HeaderNamed(<<"Cookie">>)
           cookies == IF DOMAIN held.value = {} THEN <<>> ELSE held.value[First(DOMAIN held.value)]
           parts == Parts(cookies, ";")
           named == {s \in DOMAIN parts : /\ \E i \in DOMAIN parts[s] : parts[s][i] = "="
                                          /\ trim_optional_whitespace(Before(parts[s], "=")) = p.name}
           N == IF t = <<>> THEN {} ELSE CookieNamed(t, p.name)
<1>1. held.error = "none" /\ held.value = [i \in H |-> HeaderValues[i]]
  BY InHeadersIs
<1>2. cookies = t
  <2>1. CASE H = {}
    BY <1>1, <2>1
  <2>2. CASE H # {}
    <3>1. DOMAIN held.value = H /\ \A i \in H : held.value[i] = HeaderValues[i]
      BY <1>1
    <3>2. \E x : t = x /\ x = HeaderValues[First(H)]
      BY <2>2
    <3>3. First(H) \in H
      <4>1. H \in SUBSET Nat
        BY HeaderPlaces
      <4>2. QED
        BY <2>2, <4>1, FirstIn
    <3> HIDE DEF held, H
    <3>4. QED
      BY <2>2, <3>1, <3>2, <3>3
  <2>3. QED
    BY <2>1, <2>2
<1>3. InCookies(request, p) =
         [error |-> IF held.error # "none" THEN held.error
                    ELSE IF Again(named) = {} THEN "none" ELSE "duplicate_cookie",
          value |-> [s \in named |-> trim_optional_whitespace(After(parts[s], "="))]]
  BY DEF InCookies
<1> HIDE DEF held, cookies
<1>4. /\ t # <<>> => parts = [s \in Begins(t, ";") |-> Between(t, s, Find(t, ";", s))]
      /\ t = <<>> => DOMAIN parts = {}
  <2>1. parts = Parts(t, ";")
    BY <1>2
  <2> HIDE DEF parts
  <2>2. QED
    BY <2>1, PlaceType
<1>5. ASSUME t # <<>>, NEW s \in Begins(t, ";")
      PROVE  /\ s \in DOMAIN parts
             /\ CookiePair(t, s).ok <=> \E i \in DOMAIN parts[s] : parts[s][i] = "="
             /\ CookiePair(t, s).ok =>
                   /\ CookiePair(t, s).name = trim_optional_whitespace(Before(parts[s], "="))
                   /\ CookiePair(t, s).value = trim_optional_whitespace(After(parts[s], "="))
  <2> DEFINE u == Between(t, s, Find(t, ";", s))
             pair == trim_optional_whitespace(u)
             equals == Find(pair, "=", 1)
  <2>1. s \in DOMAIN parts /\ parts[s] = u /\ u \in Text
    <3> HIDE DEF parts
    <3>1. QED
      BY <1>4, <1>5, PlaceType
  <2>2. /\ CookiePair(t, s).ok = (equals <= Len(pair))
        /\ CookiePair(t, s).name = trim_optional_whitespace(Between(pair, 1, equals))
        /\ CookiePair(t, s).value = trim_optional_whitespace(Between(pair, equals + 1, Len(pair) + 1))
    BY DEF CookiePair
  <2> HIDE DEF u, parts
  <2>3. /\ equals <= Len(pair) <=> \E i \in DOMAIN u : u[i] = "="
        /\ equals <= Len(pair) =>
              /\ trim_optional_whitespace(Between(pair, 1, equals))
                    = trim_optional_whitespace(Before(u, "="))
              /\ trim_optional_whitespace(Between(pair, equals + 1, Len(pair) + 1))
                    = trim_optional_whitespace(After(u, "="))
    BY <2>1, CookieCut
  <2> HIDE DEF pair, equals
  <2>4. QED
    BY <2>1, <2>2, <2>3
<1>6. named = N
  <2>1. CASE t = <<>>
    BY <1>4, <2>1
  <2>2. CASE t # <<>>
    <3>1. DOMAIN parts = Begins(t, ";")
      <4> HIDE DEF parts
      <4>1. QED
        BY <1>4, <2>2
    <3>2. N = {s \in Begins(t, ";") : CookiePair(t, s).ok /\ CookiePair(t, s).name = p.name}
      BY <2>2 DEF CookieNamed
    <3> HIDE DEF parts, N
    <3>3. QED
      BY <1>5, <2>2, <3>1, <3>2
  <2>3. QED
    BY <2>1, <2>2
<1>7. \A s \in N : CookieValues(t)[s] = trim_optional_whitespace(After(parts[s], "="))
  <2>1. \A s \in N : t # <<>> /\ s \in Begins(t, ";") /\ CookiePair(t, s).ok
    BY DEF CookieNamed
  <2> HIDE DEF parts, N
  <2>2. QED
    BY <1>5, <2>1 DEF CookieValues
<1> HIDE DEF named, N, parts
<1>8. InCookies(request, p).value = [s \in named |-> trim_optional_whitespace(After(parts[s], "="))]
      /\ InCookies(request, p).error = IF Again(named) = {} THEN "none" ELSE "duplicate_cookie"
  BY <1>1, <1>3
<1>9. QED
  BY <1>6, <1>7, <1>8 DEF N

-----------------------------------------------------------------------------
(* The inductive invariant of the meaning: what is bound is what is meant, *)
(* and a search has passed nothing that refuses the request.               *)

OneCookieHeader == \A i, j \in HeaderNamed(<<"Cookie">>) : i = j

TakeInv ==
    step = "take" =>
        /\ Param.source # "body"
        /\ Param.source = "path" => result = find_path_value(Param.name)
        /\ Param.source = "query" /\ text # <<>> => Unread(text) = {}
        /\ Param.source = "cookie" => OneCookieHeader

BodyInv ==
    step = "body" =>
        /\ Param.source = "body"
        /\ Only(HeaderNamed(<<"Content-Type">>), HeaderValues, result)

NamesInv == step = "query" => \A s \in Unread(text) : ~(s < at)

BoundInv == \A k \in 1..Len(bound) : bound[k] = Meant(request, request.params[k])

\* The answer for what is bound.
Verdict(values) ==
    LET refused == {i \in DOMAIN values : values[i].status # 200}
    IN  IF refused = {} THEN [status |-> 200, parameter |-> 0, code |-> "none"]
        ELSE [status |-> values[First(refused)].status, parameter |-> First(refused),
              code |-> values[First(refused)].code]

AnswerInv ==
    outcome # Pending =>
        step = "find" /\ Len(bound) = Len(request.params) /\ outcome = Verdict(bound)

MeaningInv == TakeInv /\ BodyInv /\ NamesInv /\ BoundInv /\ AnswerInv

\* What bind_parameter returns is what is meant, and the other parameters stay as they are.
LEMMA BindMeant ==
    ASSUME BindingInv, MeaningInv, step # "find", NEW v, v = Meant(request, Param), Bind(v)
    PROVE  MeaningInv'
<1>1. /\ bound' = Append(bound, v) /\ step' = "find" /\ request' = request /\ outcome' = outcome
      /\ Len(bound) \in Nat /\ bound = [k \in 1..Len(bound) |-> bound[k]]
  BY DEF Bind, BindingInv, TypeInv
<1>2. Len(bound') = Len(bound) + 1
  BY <1>1, AppendAny
<1>3. (\A k \in 1..Len(bound) : bound'[k] = bound[k]) /\ bound'[Len(bound) + 1] = v
  BY <1>1, AppendAny
<1>4. v = Meant(request, request.params[Len(bound) + 1])
  BY DEF Param, index
<1>5. BoundInv'
  <2>1. ASSUME NEW k \in 1..(Len(bound) + 1)
        PROVE  bound'[k] = Meant(request, request.params[k])
    <3>1. k \in 1..Len(bound) \/ k = Len(bound) + 1
      BY <1>1
    <3>2. QED
      BY <1>3, <1>4, <3>1 DEF MeaningInv, BoundInv
  <2>2. QED
    BY <1>1, <1>2, <2>1 DEF BoundInv
<1>6. AnswerInv'
  BY <1>1 DEF MeaningInv, AnswerInv
<1>7. QED
  BY <1>1, <1>5, <1>6 DEF MeaningInv, TakeInv, BodyInv, NamesInv

\* A step within a search keeps what is bound.
LEMMA SearchMeant ==
    ASSUME MeaningInv, UNCHANGED <<request, bound, outcome>>, outcome = Pending
    PROVE  /\ BoundInv' /\ AnswerInv' /\ Param' = Param /\ HeaderValues' = HeaderValues
           /\ \A n : HeaderNamed(n)' = HeaderNamed(n)
           /\ \A n : find_path_value(n)' = find_path_value(n)
<1>1. index' = index
  BY DEF index
<1>2. QED
  BY <1>1 DEF MeaningInv, BoundInv, AnswerInv, Param, HeaderValues, HeaderNamed, find_path_value

LEMMA StillPending ==
    ASSUME TypeInv, MeaningInv, step # "find" \/ index <= Len(request.params)
    PROVE  outcome = Pending
<1>1. Len(bound) \in Nat /\ Len(request.params) \in Nat
  BY RequestType DEF TypeInv
<1>2. index <= Len(request.params) => Len(bound) # Len(request.params)
  BY <1>1 DEF index
<1>3. QED
  BY <1>2 DEF MeaningInv, AnswerInv

\* What a search for a value ends with is what the request has for the parameter.
LEMMA GivenAtTake ==
    ASSUME BindingInv, MeaningInv, step = "take", NEW given, given = Given(request, Param)
    PROVE  /\ given.error = "none"
           /\ result = <<>> <=> DOMAIN given.value = {}
           /\ result # <<>> => result[1] = given.value[First(DOMAIN given.value)]
<1>1. TypeInv /\ index <= Len(request.params)
  BY DEF BindingInv, TypeInv
<1>2. Param.source \in Sources
  BY <1>1, RequestType
<1>3. FoundIsUnique /\ TakeInv
  BY DEF BindingInv, MeaningInv
<1>4. ASSUME NEW N \in SUBSET Nat, NEW values, Only(N, values, result),
             given.error = "none", given.value = [s \in N |-> values[s]]
      PROVE  /\ result = <<>> <=> DOMAIN given.value = {}
             /\ result # <<>> => result[1] = given.value[First(DOMAIN given.value)]
  <2>1. DOMAIN given.value = N /\ \A i \in N : given.value[i] = values[i]
    BY <1>4
  <2>2. (result = <<>> <=> N = {}) /\ (N # {} => First(N) \in N /\ result[1] = values[First(N)])
    BY <1>4, OnlyOne
  <2>3. QED
    BY ONLY <2>1, <2>2, Zenon
<1>5. CASE Param.source = "path"
  <2> DEFINE N == {i \in DOMAIN request.captures : request.captures[i].name = Param.name}
  <2>1. given = InPath(request, Param)
    BY <1>5 DEF Given
  <2>2. given.error = "none" /\ given.value = [i \in N |-> request.captures[i].value]
    BY <2>1 DEF InPath
  <2>3. result = IF N = {} THEN <<>> ELSE <<request.captures[First(N)].value>>
    BY <1>3, <1>5 DEF TakeInv, find_path_value, First
  <2>4. N # {} => First(N) \in N
    <3>1. N \in SUBSET Nat
      <4>1. request.captures \in Seq(Named)
        BY <1>1, RequestType
      <4>2. QED
        BY <4>1
    <3> HIDE DEF N
    <3>2. QED
      BY <3>1, FirstIn
  <2> HIDE DEF N
  <2>5. QED
    BY <2>2, <2>3, <2>4
<1>6. CASE Param.source = "header"
  <2>1. given = InHeaders(request, Param.name)
    BY <1>6 DEF Given
  <2>2. Only(HeaderNamed(Param.name), HeaderValues, result)
    BY <1>3, <1>6 DEF FoundIsUnique
  <2>3. HeaderNamed(Param.name) \in SUBSET Nat
    BY <1>1, HeaderPlaces
  <2>4. Again(HeaderNamed(Param.name)) = {}
    BY <2>2, <2>3, OnlyOne
  <2>5. given.error = "none" /\ given.value = [i \in HeaderNamed(Param.name) |-> HeaderValues[i]]
    BY <2>1, <2>4, InHeadersIs
  <2>6. QED
    BY <1>4, <2>2, <2>3, <2>5
<1>7. CASE Param.source = "query"
  <2>1. given = InQuery(request, Param) /\ text = request.query /\ text \in Text
    BY <1>1, <1>3, <1>7 DEF Given, FoundIsUnique, TypeInv
  <2>2. CASE text = <<>>
    <3>1. result = <<>>
      BY <1>3, <1>7, <2>2 DEF FoundIsUnique
    <3> DEFINE parts == Parts(request.query, "&")
               bad   == {s \in DOMAIN parts : ~WellFormed(Before(parts[s], "="))}
               named == {s \in DOMAIN parts \ bad : Plain(Before(parts[s], "="), TRUE) = Param.name}
    <3>2. DOMAIN parts = {}
      BY <2>1, <2>2, PlaceType
    <3>3. bad = {} /\ named = {} /\ Again(named) = {}
      BY <3>2 DEF Again
    <3>4. given.error = (IF bad \cup Again(named) = {} THEN "none"
                         ELSE IF First(bad \cup Again(named)) \in bad THEN "invalid_percent_encoding"
                         ELSE "duplicate_query_parameter")
          /\ given.value = [s \in named |-> After(parts[s], "=")]
      BY <2>1 DEF InQuery
    <3> HIDE DEF parts, bad, named
    <3>5. QED
      BY <3>1, <3>3, <3>4
  <2>3. CASE text # <<>>
    <3> DEFINE N == QueryNamed(text, Param.name)
    <3>1. Only(N, QueryValues(text), result) /\ Unread(text) = {}
      BY <1>3, <1>7, <2>3 DEF FoundIsUnique, TakeInv
    <3>2. N \in SUBSET Nat
      BY <2>1, PlaceType DEF QueryNamed
    <3>3. Again(N) = {}
      <4> HIDE DEF N
      <4>1. QED
        BY <3>1, <3>2, OnlyOne
    <3>4. Unread(text) \cup Again(N) = {}
      BY <3>1, <3>3
    <3>5. given.value = [s \in N |-> QueryValues(text)[s]] /\ given.error = "none"
      BY <2>1, <2>3, <3>4, InQueryIs
    <3> HIDE DEF N
    <3>6. QED
      BY <1>4, <3>1, <3>2, <3>5
  <2>4. QED
    BY <2>2, <2>3
<1>8. CASE Param.source = "cookie"
  <2> DEFINE held == HeaderNamed(<<"Cookie">>)
             N == IF text = <<>> THEN {} ELSE CookieNamed(text, Param.name)
  <2>1. given = InCookies(request, Param) /\ text \in Text
    BY <1>1, <1>8 DEF Given, TypeInv
  <2>2. held \in SUBSET Nat
    BY <1>1, HeaderPlaces
  <2>3. \A i, j \in held : i = j
    BY <1>3, <1>8 DEF TakeInv, OneCookieHeader
  <2>4. Again(held) = {}
    <3> HIDE DEF held
    <3>1. \A i, j \in held : i \in Nat /\ ~(j < i)
      BY <2>2, <2>3
    <3>2. QED
      BY <3>1 DEF Again
  <2>5. text = IF held = {} THEN <<>> ELSE HeaderValues[First(held)]
    <3>1. CASE text = <<>>
      <4>1. \A i \in held : HeaderValues[i] = <<>>
        BY <1>3, <1>8, <3>1 DEF FoundIsUnique
      <4> HIDE DEF held
      <4>2. held # {} => First(held) \in held
        BY <2>2, FirstIn
      <4>3. QED
        BY <3>1, <4>1, <4>2
    <3>2. CASE text # <<>>
      <4>1. Only(held, HeaderValues, <<text>>)
        BY <1>3, <1>8, <3>2 DEF FoundIsUnique
      <4> HIDE DEF held
      <4>2. held # {} /\ <<text>>[1] = HeaderValues[First(held)]
        <5>1. <<text>> # <<>>
          OBVIOUS
        <5>2. QED
          BY <2>2, <4>1, <5>1, OnlyOne
      <4>3. QED
        BY <4>2
    <3>3. QED
      BY <3>1, <3>2
  <2>6. N \in SUBSET Nat
    BY <2>1, PlaceType DEF CookieNamed
  <2>7. Only(N, CookieValues(text), result)
    BY <1>3, <1>8 DEF FoundIsUnique, Only
  <2>8. Again(N) = {}
    <3> HIDE DEF N
    <3>1. QED
      BY <2>6, <2>7, OnlyOne
  <2>9. given.value = [s \in N |-> CookieValues(text)[s]] /\ given.error = "none"
    BY <1>1, <2>1, <2>4, <2>5, <2>8, InCookiesIs
  <2> HIDE DEF N
  <2>10. QED
    BY <1>4, <2>6, <2>7, <2>9
<1>9. QED
  BY <1>2, <1>3, <1>5, <1>6, <1>7, <1>8 DEF Sources, TakeInv

-----------------------------------------------------------------------------
(* The steps.                                                              *)

LEMMA StartMeant == ASSUME BindingInv, MeaningInv, Start PROVE MeaningInv'
<1>1. TypeInv /\ index <= Len(request.params)
  BY DEF BindingInv, Start
<1>2. outcome = Pending /\ Param.source \in Sources
  BY <1>1, StillPending, RequestType
<1>3. ASSUME NEW w, NEW t, NEW f, Go(w, t, f)
      PROVE  /\ UNCHANGED <<request, bound, outcome>>
             /\ step' = w /\ text' = t /\ at' = 1 /\ result' = f
             /\ BoundInv' /\ AnswerInv' /\ Param' = Param
             /\ \A n : find_path_value(n)' = find_path_value(n)
  <2>1. /\ UNCHANGED <<request, bound, outcome>>
        /\ step' = w /\ text' = t /\ at' = 1 /\ result' = f
    BY <1>3 DEF Go
  <2>2. QED
    BY <1>2, <2>1, SearchMeant
<1>4. CASE Param.source = "path"
  <2>1. Go("take", <<>>, find_path_value(Param.name))
    BY <1>4 DEF Start
  <2>2. /\ step' = "take" /\ Param' = Param /\ result' = find_path_value(Param.name)
        /\ find_path_value(Param.name)' = find_path_value(Param.name) /\ BoundInv' /\ AnswerInv'
    <3>1. UNCHANGED request
      BY <2>1, <1>3
    <3>2. /\ step' = "take" /\ Param' = Param /\ result' = find_path_value(Param.name)
          /\ BoundInv' /\ AnswerInv'
      BY <2>1, <1>3
    <3>3. find_path_value(Param.name)' = find_path_value(Param.name)
      BY <3>1, <3>2 DEF find_path_value
    <3>4. QED
      BY <3>2, <3>3
  <2>3. TakeInv'
    BY <1>4, <2>2 DEF TakeInv
  <2>4. QED
    BY <2>2, <2>3 DEF MeaningInv, BodyInv, NamesInv
<1>5. CASE Param.source = "query" /\ request.query = <<>>
  <2>1. Go("take", <<>>, <<>>)
    BY <1>5 DEF Start
  <2>2. step' = "take" /\ Param' = Param /\ text' = <<>> /\ BoundInv' /\ AnswerInv'
    BY <2>1, <1>3
  <2>3. QED
    BY <1>5, <2>2 DEF MeaningInv, TakeInv, BodyInv, NamesInv
<1>6. CASE Param.source = "query" /\ request.query # <<>>
  <2>1. Go("query", request.query, <<>>)
    BY <1>6 DEF Start
  <2>2. step' = "query" /\ text' = request.query /\ at' = 1 /\ BoundInv' /\ AnswerInv'
    BY <2>1, <1>3
  <2>3. \A s \in Unread(request.query) : ~(s < 1)
    <3>1. Len(request.query) \in Nat
      BY <1>1, RequestType DEF Text
    <3>2. QED
      BY <3>1 DEF Unread, Begins
  <2>4. NamesInv'
    BY <2>2, <2>3 DEF NamesInv
  <2>5. QED
    BY <2>2, <2>4 DEF MeaningInv, TakeInv, BodyInv
<1>7. CASE Param.source \in {"header", "cookie", "body"}
  <2>1. Go("header", <<>>, <<>>)
    BY <1>7 DEF Start
  <2>2. step' = "header" /\ BoundInv' /\ AnswerInv'
    BY <2>1, <1>3
  <2>3. QED
    BY <2>2 DEF MeaningInv, TakeInv, BodyInv, NamesInv
<1>8. QED
  BY <1>2, <1>4, <1>5, <1>6, <1>7 DEF Sources

\* An error in what is given is what is meant.
LEMMA ErrorMeant ==
    ASSUME NEW c, c # "none", Given(request, Param).error = c
    PROVE  Meant(request, Param) = Error(IF Param.source = "body" THEN 400 ELSE 422, c)
BY DEF Meant

LEMMA ScanHeaderMeant == ASSUME BindingInv, MeaningInv, ScanHeader PROVE MeaningInv'
<1> DEFINE header == request.headers[at]
           N      == HeaderNamed(Wanted)
<1>1. TypeInv /\ step = "header" /\ at <= Len(request.headers) /\ index <= Len(request.params)
  BY DEF BindingInv, ScanHeader, TypeInv
<1>2. outcome = Pending
  BY <1>1, StillPending
<1>3. Only({i \in N : i < at}, HeaderValues, result) /\ Param.source \in {"header", "cookie", "body"}
  BY <1>1 DEF BindingInv, HeaderInv
<1>4. CASE header.name = Wanted /\ result # <<>>
  <2>1. at \in N
    <3>1. at \in DOMAIN request.headers
      <4>1. DOMAIN request.headers = 1..Len(request.headers) /\ at \in Nat \ {0}
        BY <1>1, RequestType DEF TypeInv
      <4>2. QED
        BY <1>1, <4>1
    <3>2. QED
      BY <1>4, <3>1 DEF HeaderNamed
  <2>2. Again(N) # {}
    <3>1. {i \in N : i < at} # {}
      BY <1>3, <1>4 DEF Only
    <3> HIDE DEF N
    <3>2. QED
      BY <2>1, <3>1 DEF Again
  <2>3. InHeaders(request, Wanted).error = "duplicate_header"
    BY <2>2, InHeadersIs
  <2>4. Given(request, Param).error = "duplicate_header"
    <3>1. CASE Param.source = "header"
      BY <2>3, <3>1 DEF Given, Wanted
    <3>2. CASE Param.source = "body"
      BY <2>3, <3>2 DEF Given, Wanted
    <3>3. CASE Param.source = "cookie"
      <4>1. InHeaders(request, <<"Cookie">>).error = "duplicate_header"
        BY <2>3, <3>3 DEF Wanted
      <4>2. Given(request, Param) = InCookies(request, Param)
        BY <3>3 DEF Given
      <4>3. InCookies(request, Param).error = "duplicate_header"
        BY <4>1 DEF InCookies
      <4>4. QED
        BY <4>2, <4>3
    <3>4. QED
      BY <1>3, <3>1, <3>2, <3>3
  <2>5. Meant(request, Param) =
           Error(IF Param.source = "body" THEN 400 ELSE 422, "duplicate_header")
    BY <2>4, ErrorMeant
  <2>6. Bind(Error(IF Param.source = "body" THEN 400 ELSE 422, "duplicate_header"))
    BY <1>4 DEF ScanHeader
  <2>7. step # "find"
    BY <1>1
  <2>8. QED
    BY <2>5, <2>6, <2>7, BindMeant
<1>5. CASE ~(header.name = Wanted /\ result # <<>>)
  <2>1. UNCHANGED <<request, step, text, bound, outcome>>
    BY <1>5 DEF ScanHeader
  <2>2. step' = "header" /\ BoundInv' /\ AnswerInv'
    BY <1>1, <1>2, <2>1, SearchMeant
  <2>3. QED
    BY <2>2 DEF MeaningInv, TakeInv, BodyInv, NamesInv
<1>6. QED
  BY <1>4, <1>5

LEMMA HeadersSeenMeant == ASSUME BindingInv, MeaningInv, HeadersSeen PROVE MeaningInv'
<1>1. TypeInv /\ step = "header" /\ index <= Len(request.params)
  BY DEF BindingInv, HeadersSeen, TypeInv
<1>2. outcome = Pending
  BY <1>1, StillPending
<1>3. Only(HeaderNamed(Wanted), HeaderValues, result) /\ Param.source \in {"header", "cookie", "body"}
  BY HeadersAllSeen DEF HeadersSeen, BindingInv, HeaderInv
<1>4. UNCHANGED <<request, bound, outcome>>
  BY DEF HeadersSeen, Go
<1>5. /\ BoundInv' /\ AnswerInv' /\ Param' = Param /\ HeaderValues' = HeaderValues
      /\ \A n : HeaderNamed(n)' = HeaderNamed(n)
  BY <1>2, <1>4, SearchMeant
<1>6. CASE Param.source = "body"
  <2>1. step' = "body" /\ result' = result
    BY <1>6 DEF HeadersSeen, Go
  <2>2. Wanted = <<"Content-Type">>
    BY <1>6 DEF Wanted
  <2>3. Only(HeaderNamed(<<"Content-Type">>)', HeaderValues', result')
    BY <1>3, <1>5, <2>1, <2>2
  <2>4. BodyInv'
    BY <1>5, <1>6, <2>3 DEF BodyInv
  <2>5. QED
    BY <1>5, <2>1, <2>4 DEF MeaningInv, TakeInv, NamesInv
<1>7. CASE Param.source = "header"
  <2>1. step' = "take"
    BY <1>7 DEF HeadersSeen, Go
  <2>2. QED
    BY <1>5, <1>7, <2>1 DEF MeaningInv, TakeInv, BodyInv, NamesInv
<1>8. CASE Param.source = "cookie"
  <2>1. step' \in {"cookie", "take"}
    BY <1>8 DEF HeadersSeen, Go
  <2>2. Wanted = <<"Cookie">>
    BY <1>8 DEF Wanted
  <2>3. HeaderNamed(<<"Cookie">>) \in SUBSET Nat
    BY <1>1, HeaderPlaces
  <2>4. \A i, j \in HeaderNamed(<<"Cookie">>) : i = j
    BY <1>3, <2>2, <2>3, OnlyOne
  <2>5. OneCookieHeader'
    BY <1>5, <2>4 DEF OneCookieHeader
  <2>6. QED
    BY <1>5, <1>8, <2>1, <2>5 DEF MeaningInv, TakeInv, BodyInv, NamesInv
<1>9. QED
  BY <1>3, <1>6, <1>7, <1>8

LEMMA ScanQueryMeant == ASSUME BindingInv, MeaningInv, ScanQuery PROVE MeaningInv'
<1> DEFINE N == QueryNamed(text, Param.name)
           B == Unread(text)
           e == Find(text, "&", at)
           wrong == B \cup Again(N)
<1>1. TypeInv /\ step = "query" /\ index <= Len(request.params) /\ text \in Text
  BY DEF BindingInv, ScanQuery, TypeInv
<1>2. outcome = Pending
  BY <1>1, StillPending
<1>3. /\ at \in Begins(text, "&") /\ Param.source = "query"
      /\ text = request.query /\ text # <<>>
      /\ Only({s \in N : s < at}, QueryValues(text), result)
  BY <1>1 DEF BindingInv, QueryInv
<1>4. \A s \in B : ~(s < at)
  BY <1>1 DEF MeaningInv, NamesInv
<1>5. Begins(text, "&") \in SUBSET Nat /\ N \subseteq Begins(text, "&") /\ B \subseteq Begins(text, "&")
  BY <1>1, PlaceType DEF QueryNamed, Unread
<1>6. Given(request, Param).error =
         IF wrong = {} THEN "none"
         ELSE IF First(wrong) \in B THEN "invalid_percent_encoding"
         ELSE "duplicate_query_parameter"
  <2>1. Given(request, Param) = InQuery(request, Param)
    BY <1>3 DEF Given
  <2>2. QED
    BY <1>1, <1>3, <2>1, InQueryIs
<1>7. at \in B <=> ~QueryPair(text, at).name.ok
  BY <1>3 DEF Unread
<1>8. at \in N <=> QueryPair(text, at).name.ok /\ QueryPair(text, at).name.text = Param.name
  BY <1>3 DEF QueryNamed
\* Nothing before the offset is wrong.
<1>9. \A s \in wrong : ~(s < at)
  <2>1. \A i, j \in {s \in N : s < at} : i = j
    <3>1. {s \in N : s < at} \in SUBSET Nat
      BY <1>5
    <3> HIDE DEF N
    <3>2. QED
      BY <1>3, <3>1, OnlyOne
  <2>2. ASSUME NEW s \in Again(N), s < at PROVE FALSE
    <3>1. PICK j \in N : s \in N /\ j < s
      BY DEF Again
    <3>2. s \in Nat /\ j \in Nat /\ at \in Nat /\ j < at
      BY <1>3, <1>5, <2>2, <3>1
    <3>3. j = s
      BY <2>1, <2>2, <3>1, <3>2
    <3>4. QED
      BY <3>1, <3>2, <3>3
  <2>3. QED
    BY <1>4, <2>2
<1>10. wrong \in SUBSET Nat /\ at \in Nat
  BY <1>3, <1>5 DEF Again
<1>11. ASSUME at \in wrong PROVE First(wrong) = at /\ wrong # {}
  <2> HIDE DEF wrong
  <2>1. \A r \in wrong : at <= r
    BY <1>9, <1>10
  <2>2. QED
    BY <1>10, <1>11, <2>1, FirstIs
<1>12. CASE ~QueryPair(text, at).name.ok
  <2>1. at \in B /\ at \in wrong
    BY <1>7, <1>12
  <2>2. Given(request, Param).error = "invalid_percent_encoding"
    BY <1>6, <1>11, <2>1
  <2>3. Meant(request, Param) = Error(422, "invalid_percent_encoding")
    BY <1>3, <2>2, ErrorMeant
  <2>4. Bind(Error(422, "invalid_percent_encoding")) /\ step # "find"
    BY <1>1, <1>12 DEF ScanQuery
  <2>5. QED
    BY <2>3, <2>4, BindMeant
<1>13. CASE QueryPair(text, at).name.ok /\ QueryPair(text, at).name.text = Param.name /\ result # <<>>
  <2>1. {s \in N : s < at} # {}
    BY <1>3, <1>13 DEF Only
  <2>2. at \in N /\ at \notin B
    BY <1>7, <1>8, <1>13
  <2>3. at \in Again(N)
    <3> HIDE DEF N
    <3>1. QED
      BY <2>1, <2>2 DEF Again
  <2>4. Given(request, Param).error = "duplicate_query_parameter"
    BY <1>6, <1>11, <2>2, <2>3
  <2>5. Meant(request, Param) = Error(422, "duplicate_query_parameter")
    BY <1>3, <2>4, ErrorMeant
  <2>6. Bind(Error(422, "duplicate_query_parameter")) /\ step # "find"
    BY <1>1, <1>13 DEF ScanQuery
  <2>7. QED
    BY <2>5, <2>6, BindMeant
<1>14. CASE QueryPair(text, at).name.ok
            /\ ~(QueryPair(text, at).name.text = Param.name /\ result # <<>>)
  <2>1. PICK next : Advance(e, next)
    BY <1>14 DEF ScanQuery
  <2>2. UNCHANGED <<request, text, bound, outcome>>
    BY <2>1 DEF Advance
  <2>3. BoundInv' /\ AnswerInv' /\ Param' = Param
    BY <1>2, <2>2, SearchMeant
  <2>4. \A s \in B : ~(s <= at)
    BY <1>3, <1>4, <1>5, <1>7, <1>14
  <2>5. /\ e \in 1..(Len(text) + 1)
        /\ e = Len(text) + 1 => \A r \in Begins(text, "&") : r <= at
        /\ e # Len(text) + 1 => \A r \in Begins(text, "&") : r < e + 1 <=> r < at \/ r = at
    BY <1>1, <1>3, NextBegin
  <2> HIDE DEF e, B
  <2>6. CASE e = Len(text) + 1
    <3>1. step' = "take" /\ text' = text
      BY <2>1, <2>6 DEF Advance
    <3>2. Unread(text') = {}
      BY <1>5, <2>4, <2>5, <2>6, <3>1 DEF B
    <3>3. QED
      BY <1>3, <2>3, <3>1, <3>2 DEF MeaningInv, TakeInv, BodyInv, NamesInv
  <2>7. CASE e # Len(text) + 1
    <3>1. step' = "query" /\ text' = text /\ at' = e + 1
      BY <1>1, <2>1, <2>7 DEF Advance
    <3>2. \A s \in B : ~(s < e + 1)
      <4>1. \A s \in B : s < e + 1 => s <= at
        BY <1>5, <1>10, <2>5, <2>7
      <4>2. QED
        BY <2>4, <4>1
    <3>3. NamesInv'
      BY <3>1, <3>2 DEF NamesInv, B
    <3>4. QED
      BY <2>3, <3>1, <3>3 DEF MeaningInv, TakeInv, BodyInv
  <2>8. QED
    BY <2>6, <2>7
<1>15. QED
  BY <1>12, <1>13, <1>14

LEMMA ScanCookieMeant == ASSUME BindingInv, MeaningInv, ScanCookie PROVE MeaningInv'
<1> DEFINE N == CookieNamed(text, Param.name)
           held == HeaderNamed(<<"Cookie">>)
           pair == CookiePair(text, at)
           same == pair.ok /\ pair.name = Param.name
<1>1. TypeInv /\ step = "cookie" /\ index <= Len(request.params) /\ text \in Text
  BY DEF BindingInv, ScanCookie, TypeInv
<1>2. outcome = Pending
  BY <1>1, StillPending
<1>3. /\ at \in Begins(text, ";") /\ Param.source = "cookie" /\ text # <<>>
      /\ Only(held, HeaderValues, <<text>>)
      /\ Only({s \in N : s < at}, CookieValues(text), result)
  BY <1>1 DEF BindingInv, CookieInv
<1>4. held \in SUBSET Nat
  BY <1>1, HeaderPlaces
<1>5. Again(held) = {} /\ (\A i, j \in held : i = j) /\ held # {} /\ text = HeaderValues[First(held)]
  <2>1. <<text>> # <<>> /\ <<text>>[1] = text
    OBVIOUS
  <2> HIDE DEF held
  <2>2. QED
    BY <1>3, <1>4, <2>1, OnlyOne
<1>6. Given(request, Param).error = IF Again(N) = {} THEN "none" ELSE "duplicate_cookie"
  <2>1. Given(request, Param) = InCookies(request, Param)
    BY <1>3 DEF Given
  <2>2. Again(HeaderNamed(<<"Cookie">>)) = {}
        /\ text = IF HeaderNamed(<<"Cookie">>) = {} THEN <<>>
                  ELSE HeaderValues[First(HeaderNamed(<<"Cookie">>))]
    BY <1>5
  <2>3. QED
    BY <1>1, <1>3, <2>1, <2>2, InCookiesIs
<1>7. CASE same /\ result # <<>>
  <2>1. at \in N
    BY <1>3, <1>7 DEF CookieNamed
  <2>2. {s \in N : s < at} # {}
    BY <1>3, <1>7 DEF Only
  <2>3. Again(N) # {}
    <3> HIDE DEF N
    <3>1. QED
      BY <2>1, <2>2 DEF Again
  <2>4. Meant(request, Param) = Error(422, "duplicate_cookie")
    BY <1>3, <1>6, <2>3, ErrorMeant, ZenonT(40)
  <2>5. Bind(Error(422, "duplicate_cookie")) /\ step # "find"
    BY <1>1, <1>7 DEF ScanCookie
  <2>6. QED
    BY <2>4, <2>5, BindMeant
<1>8. CASE ~(same /\ result # <<>>)
  <2>1. PICK separator, next : Advance(separator, next)
    BY <1>8 DEF ScanCookie
  <2>2. UNCHANGED <<request, text, bound, outcome>> /\ step' \in {"take", "cookie"}
    BY <1>1, <2>1 DEF Advance
  <2>3. /\ BoundInv' /\ AnswerInv' /\ Param' = Param
        /\ \A n : HeaderNamed(n)' = HeaderNamed(n)
    BY <1>2, <2>2, SearchMeant
  <2>4. OneCookieHeader'
    BY <1>5, <2>3 DEF OneCookieHeader
  <2>5. QED
    BY <1>3, <2>2, <2>3, <2>4 DEF MeaningInv, TakeInv, BodyInv, NamesInv
<1>9. QED
  BY <1>7, <1>8

\* The value is decoded once: the checks of Take on the raw text are checks of what it spells.
LEMMA TakeMeant == ASSUME BindingInv, MeaningInv, Take PROVE MeaningInv'
<1> DEFINE given   == Given(request, Param)
           plus    == Param.source = "query"
           raw     == result[1]
           decoded == Decode(raw, plus)
<1>1. TypeInv /\ step = "take" /\ result \in Seq(Text) /\ Param.source # "body"
  BY DEF BindingInv, Take, TypeInv, MeaningInv, TakeInv
<1>2. /\ given.error = "none"
      /\ result = <<>> <=> DOMAIN given.value = {}
      /\ result # <<>> => raw = given.value[First(DOMAIN given.value)]
  BY <1>1, GivenAtTake
<1>3. Meant(request, Param) = IF DOMAIN given.value = {} THEN MeantByNone(Param)
                              ELSE MeantBy(Param, given.value[First(DOMAIN given.value)])
  BY <1>1, <1>2 DEF Meant
<1> HIDE DEF given
<1>4. CASE result = <<>>
  <2>1. Meant(request, Param) = MeantByNone(Param)
    BY <1>2, <1>3, <1>4
  <2>2. Bind(MeantByNone(Param))
    BY <1>1, <1>4 DEF Take, MeantByNone
  <2>3. step # "find"
    BY <1>1
  <2>4. QED
    BY <2>1, <2>2, <2>3, BindMeant
<1>5. CASE result # <<>>
  <2>1. Meant(request, Param) = MeantBy(Param, raw)
    BY <1>2, <1>3, <1>5
  <2>2. raw \in Text
    BY <1>1, <1>5
  <2>3. /\ decoded.ok <=> WellFormed(raw)
        /\ WellFormed(raw) => decoded.text = Plain(raw, plus)
        /\ WellFormed(raw) => (Owned(raw, plus) <=> Plain(raw, plus) # raw)
    <3> HIDE DEF raw, plus
    <3>1. QED
      BY <2>2, DecodeMeans, OwnedMeans
  <2>4. Bind(IF ~decoded.ok THEN Error(422, "invalid_percent_encoding")
             ELSE IF Param.kind = "view" /\ Owned(raw, plus) THEN Error(422, "escaped_borrowed_string")
             ELSE Parse(Param, decoded.text))
    BY <1>5 DEF Take
  <2>5. MeantBy(Param, raw) =
           IF ~WellFormed(raw) THEN Error(422, "invalid_percent_encoding")
           ELSE IF Param.kind = "view" /\ Plain(raw, plus) # raw
                THEN Error(422, "escaped_borrowed_string")
           ELSE Parse(Param, Plain(raw, plus))
    BY DEF MeantBy
  <2> HIDE DEF raw, plus, decoded
  <2>6. Bind(MeantBy(Param, raw))
    BY <2>3, <2>4, <2>5
  <2>7. step # "find"
    BY <1>1
  <2>8. QED
    BY <2>1, <2>6, <2>7, BindMeant
<1>6. QED
  BY <1>4, <1>5

LEMMA ReadBodyMeant == ASSUME BindingInv, MeaningInv, ReadBody PROVE MeaningInv'
<1> DEFINE N == HeaderNamed(<<"Content-Type">>)
           given == Given(request, Param)
<1>1. TypeInv /\ step = "body" /\ Param.source = "body" /\ Only(N, HeaderValues, result)
  BY DEF BindingInv, ReadBody, MeaningInv, BodyInv
<1>2. N \in SUBSET Nat
  BY <1>1, HeaderPlaces
<1>3. /\ Again(N) = {} /\ (result = <<>> <=> N = {})
      /\ N # {} => First(N) \in N /\ result[1] = HeaderValues[First(N)]
  <2> HIDE DEF N
  <2>1. QED
    BY <1>1, <1>2, OnlyOne
<1>4. given.value = [i \in N |-> HeaderValues[i]] /\ given.error = "none"
  <2>1. given = InHeaders(request, <<"Content-Type">>)
    BY <1>1 DEF Given
  <2>2. QED
    BY <1>3, <2>1, InHeadersIs
<1> HIDE DEF N
<1>5. DOMAIN given.value = N
  BY <1>4
<1>6. Meant(request, Param) = IF N = {} THEN MeantByNone(Param)
                              ELSE MeantBody(request, given.value[First(N)])
  BY <1>1, <1>4, <1>5 DEF Meant
<1> HIDE DEF given
<1>7. Meant(request, Param) =
         IF result = <<>> THEN Error(415, "unsupported_media_type")
         ELSE IF ~is_json_media_type(result[1]) THEN Error(415, "unsupported_media_type")
         ELSE IF ~request.body THEN Error(422, "unreadable_body")
         ELSE Bound("body", <<>>, 0)
  <2>1. CASE N = {}
    BY <1>1, <1>3, <1>6, <2>1 DEF MeantByNone
  <2>2. CASE N # {}
    <3>1. given.value[First(N)] = result[1]
      BY <1>3, <1>4, <2>2
    <3>2. QED
      BY <1>3, <1>6, <2>2, <3>1 DEF MeantBody
  <2>3. QED
    BY <2>1, <2>2
<1>8. Bind(Meant(request, Param)) /\ step # "find"
  BY <1>1, <1>7 DEF ReadBody
<1>9. QED
  BY <1>8, BindMeant

LEMMA AnswerMeant == ASSUME BindingInv, MeaningInv, Answer PROVE MeaningInv'
<1> DEFINE refused == {i \in DOMAIN bound : bound[i].status # 200}
<1>1. /\ step = "find" /\ index > Len(request.params)
      /\ UNCHANGED <<request, step, text, at, result, bound>>
      /\ outcome' = IF refused = {} THEN [Pending EXCEPT !.status = 200]
                    ELSE [status |-> bound[First(refused)].status, parameter |-> First(refused),
                          code |-> bound[First(refused)].code]
  BY DEF Answer, First
<1>2. Len(bound) = Len(request.params)
  <2>1. Len(bound) \in Nat /\ Len(request.params) \in Nat /\ Len(bound) <= Len(request.params)
    BY RequestType DEF BindingInv, TypeInv
  <2>2. QED
    BY <1>1, <2>1 DEF index
<1>3. [Pending EXCEPT !.status = 200] = [status |-> 200, parameter |-> 0, code |-> "none"]
  BY DEF Pending
<1>4. outcome' = Verdict(bound)
  BY <1>1, <1>3 DEF Verdict
<1>5. AnswerInv'
  BY <1>1, <1>2, <1>4 DEF AnswerInv
<1>6. BoundInv'
  BY <1>1 DEF MeaningInv, BoundInv
<1>7. QED
  BY <1>1, <1>5, <1>6 DEF MeaningInv, TakeInv, BodyInv, NamesInv

\* For every request and every list of parameters: each parameter is bound to what the
\* request means for it, or refused for the first thing that is wrong with it, and the
\* answer is the first refusal or a call of the endpoint.
THEOREM BindingIsMeant == BindingSpec => []BoundAsMeant
<1>1. BindingInit => MeaningInv
  <2> SUFFICES ASSUME BindingInit PROVE MeaningInv
    OBVIOUS
  <2>1. step = "find" /\ bound = <<>> /\ outcome = Pending
    BY DEF BindingInit
  <2>2. QED
    BY <2>1 DEF MeaningInv, TakeInv, BodyInv, NamesInv, BoundInv, AnswerInv
<1>2. BindingInv /\ MeaningInv /\ [BindingNext]_bindingVars => MeaningInv'
  <2> SUFFICES ASSUME BindingInv, MeaningInv, [BindingNext]_bindingVars PROVE MeaningInv'
    OBVIOUS
  <2>1. CASE UNCHANGED bindingVars
    <3>1. UNCHANGED <<request, step, text, at, result, bound, outcome>>
      BY <2>1 DEF bindingVars
    <3>2. /\ Param' = Param /\ HeaderValues' = HeaderValues
          /\ \A n : HeaderNamed(n)' = HeaderNamed(n)
          /\ \A n : find_path_value(n)' = find_path_value(n)
      BY <3>1 DEF Param, index, HeaderValues, HeaderNamed, find_path_value
    <3>3. TakeInv'
      BY <3>1, <3>2 DEF MeaningInv, TakeInv, OneCookieHeader
    <3>4. BodyInv' /\ NamesInv'
      BY <3>1, <3>2 DEF MeaningInv, BodyInv, NamesInv
    <3>5. BoundInv' /\ AnswerInv'
      BY <3>1 DEF MeaningInv, BoundInv, AnswerInv
    <3>6. QED
      BY <3>3, <3>4, <3>5 DEF MeaningInv
  <2>2. QED
    BY <2>1, StartMeant, ScanHeaderMeant, HeadersSeenMeant, ScanQueryMeant, ScanCookieMeant,
       TakeMeant, ReadBodyMeant, AnswerMeant DEF BindingNext
<1>3. BindingInv /\ MeaningInv => BoundAsMeant
  <2> SUFFICES ASSUME BindingInv, MeaningInv, outcome # Pending PROVE BoundAsMeant
    BY DEF BoundAsMeant
  <2>1. DOMAIN bound = 1..Len(bound)
    <3>1. bound = [k \in 1..Len(bound) |-> bound[k]]
      BY DEF BindingInv, TypeInv
    <3>2. QED
      BY <3>1
  <2>2. Len(bound) = Len(request.params) /\ outcome = Verdict(bound)
    BY DEF MeaningInv, AnswerInv
  <2>3. \A i \in DOMAIN bound : bound[i] = Meant(request, request.params[i])
    BY <2>1 DEF MeaningInv, BoundInv
  <2>4. QED
    BY <2>2, <2>3 DEF BoundAsMeant, Verdict
<1>4. QED
  BY <1>1, <1>2, <1>3, BindingInvariant, PTL DEF BindingSpec

-----------------------------------------------------------------------------
(* What a client encodes is what the endpoint receives.                    *)

\* What the client wrote for one character is one turn of percent_decode.
LEMMA WrittenTurn ==
    ASSUME NEW s \in Text, NEW plus, NEW c, NEW D, Decoding(s, plus, D),
           NEW i \in 1..(Len(s) + 1), NEW j \in 1..(Len(s) + 1),
           Writes(Between(s, i, j), c, plus)
    PROVE  i < j /\ D[i] = Put(c, D[j])
<1> DEFINE w == Between(s, i, j)
<1>1. Len(s) \in Nat /\ i \in Nat \ {0} /\ j \in Nat \ {0} /\ j - 1 \in 0..Len(s)
  BY DEF Text
<1>2. /\ Len(w) = IF i <= j - 1 THEN (j - 1) - i + 1 ELSE 0
      /\ \A k \in 1..((j - 1) - i + 1) : w[k] = s[i + k - 1]
  BY <1>1, SliceType DEF Between
<1>3. D[i] = Decoded(s, plus, i, D[i + 1], D[i + 3])
  BY <1>1 DEF Decoding
<1> HIDE DEF w
<1>0. ASSUME NEW k \in Nat \ {0}, Len(w) = k PROVE j = i + k /\ i < j /\ i + k - 1 <= Len(s)
  <2>1. k = IF i <= j - 1 THEN (j - 1) - i + 1 ELSE 0
    BY <1>0, <1>2
  <2>2. QED
    BY <1>1, <2>1
<1>4. CASE Len(w) = 1
  <2>1. j = i + 1 /\ i < j /\ ~(i > Len(s))
    BY <1>0, <1>1, <1>4
  <2>2. 1 \in 1..((j - 1) - i + 1) /\ i + 1 - 1 = i
    BY <1>1, <2>1
  <2>3. w[1] = s[i]
    BY <1>2, <2>2
  <2>4. \A a, b : w # <<"%", a, b>>
    BY <1>4
  <2>5. \/ w = <<c>> /\ c # "%" /\ (plus => c # "+")
        \/ w = <<"+">> /\ plus /\ c = " "
    BY <2>4 DEF Writes, w
  <2>6. s[i] # "%" /\ c = IF s[i] = "+" /\ plus THEN " " ELSE s[i]
    <3>1. \A x : <<x>>[1] = x
      OBVIOUS
    <3>2. \/ s[i] = c /\ c # "%" /\ (plus => c # "+")
          \/ s[i] = "+" /\ plus /\ c = " "
      BY <2>3, <2>5, <3>1
    <3>3. QED
      BY <3>2, "+" # "%", Zenon
  <2>7. D[i] = Put(c, D[i + 1])
    BY <1>3, <2>1, <2>6 DEF Decoded
  <2>8. QED
    BY <2>1, <2>7
<1>5. CASE Len(w) # 1
  <2>1. \A x : Len(<<x>>) = 1
    OBVIOUS
  <2>2. PICK a \in Hex, b \in Hex : w = <<"%", a, b>> /\ c = Byte[a, b]
    BY <1>5, <2>1 DEF Writes, w
  <2>3. Len(w) = 3 /\ w[1] = "%" /\ w[2] = a /\ w[3] = b
    BY <2>2
  <2>4. j = i + 3 /\ i < j /\ ~(i > Len(s)) /\ ~(i + 2 > Len(s))
    BY <1>0, <1>1, <2>3
  <2>5. w[1] = s[i] /\ w[2] = s[i + 1] /\ w[3] = s[i + 2]
    <3>1. /\ 1 \in 1..((j - 1) - i + 1) /\ i + 1 - 1 = i
          /\ 2 \in 1..((j - 1) - i + 1) /\ i + 2 - 1 = i + 1
          /\ 3 \in 1..((j - 1) - i + 1) /\ i + 3 - 1 = i + 2
      BY <1>1, <2>4
    <3>2. QED
      BY <1>2, <3>1
  <2>6. s[i] = "%" /\ <<s[i + 1], s[i + 2]>> \in Hex \X Hex
    BY <2>2, <2>3, <2>5
  <2>7. c = Byte[s[i + 1], s[i + 2]]
    BY <2>2, <2>3, <2>5
  <2>8. D[i] = Put(c, D[i + 3])
    BY <1>3, <2>4, <2>6, <2>7 DEF Decoded
  <2>9. QED
    BY <2>4, <2>8
<1>6. QED
  BY <1>4, <1>5

\* percent_decode returns the text that the client encoded, whichever way it wrote it.
LEMMA EncodedIsDecoded ==
    ASSUME NEW s \in Text, NEW t \in Text, NEW plus, Encodes(s, t, plus)
    PROVE  Decode(s, plus) = Good(t)
<1> DEFINE m == Len(s)
           n == Len(t)
<1>1. m \in Nat /\ n \in Nat
  BY DEF Text
<1>2. PICK cut \in [1..(n + 1) -> 1..(m + 1)] :
         /\ cut[1] = 1 /\ cut[n + 1] = m + 1
         /\ \A k \in 1..n : Writes(Between(s, cut[k], cut[k + 1]), t[k], plus)
  BY DEF Encodes
<1>3. PICK D : Decoding(s, plus, D) /\ Decode(s, plus) = D[1]
  BY DecodeTurns
<1> DEFINE Done(k) == D[cut[k]] = Good(SubSeq(t, k, n))
<1>4. Done(n + 1)
  <2>1. D[m + 1] = Good(<<>>)
    <3>1. m + 1 \in Nat /\ m + 1 > m
      BY <1>1
    <3>2. D[m + 1] = Decoded(s, plus, m + 1, D[(m + 1) + 1], D[(m + 1) + 3])
      BY <1>3, <3>1, Zenon DEF Decoding
    <3>3. QED
      BY <3>1, <3>2, Zenon DEF Decoded
  <2>2. SubSeq(t, n + 1, n) = <<>>
    BY <1>1, SubSeqEmpty
  <2>3. QED
    BY <1>2, <2>1, <2>2
<1>5. ASSUME NEW k \in 1..n, Done(k + 1) PROVE Done(k)
  <2>1. k \in 1..(n + 1) /\ k + 1 \in 1..(n + 1) /\ n \in k..n /\ k \in 1..n
    BY <1>1
  <2>2. cut[k] \in 1..(m + 1) /\ cut[k + 1] \in 1..(m + 1)
    BY <1>2, <2>1
  <2>3. Writes(Between(s, cut[k], cut[k + 1]), t[k], plus)
    BY <1>2
  <2>4. D[cut[k]] = Put(t[k], D[cut[k + 1]])
    <3> HIDE DEF Done, n
    <3>1. QED
      BY <1>3, <2>2, <2>3, WrittenTurn
  <2>5. SubSeq(t, k, n) = <<t[k]>> \o SubSeq(t, k + 1, n)
    BY <2>1, SubSeqRecursiveFirst DEF Text
  <2>6. \A x, r : Put(x, Good(r)) = Good(<<x>> \o r)
    <3>1. \A o, u, v : [[ok |-> o, text |-> u] EXCEPT !.text = v] = [ok |-> o, text |-> v]
      OBVIOUS
    <3>2. \A x, r : Put(x, Good(r)) = [[ok |-> TRUE, text |-> r] EXCEPT !.text = <<x>> \o r]
      BY DEF Put, Good
    <3>3. TAKE x, r
    <3> DEFINE longer == <<x>> \o r
    <3>4. Put(x, Good(r)) = [[ok |-> TRUE, text |-> r] EXCEPT !.text = longer]
      BY <3>2
    <3> HIDE DEF longer
    <3>5. Put(x, Good(r)) = [ok |-> TRUE, text |-> longer]
      BY <3>1, <3>4
    <3>6. QED
      BY <3>5 DEF Good, longer
  <2>7. D[cut[k + 1]] = Good(SubSeq(t, k + 1, n))
    BY <1>5
  <2>8. QED
    BY <2>4, <2>5, <2>6, <2>7
<1>6. Done(1)
  <2> DEFINE W == {k \in 1..(n + 1) : ~Done(k)}
  <2>1. SUFFICES ASSUME W # {} PROVE FALSE
    BY <1>1
  <2>2. PICK k \in W : \A r \in W : r <= k
    <3>1. W \in SUBSET (0..(n + 1)) /\ n + 1 \in Nat
      BY <1>1
    <3> HIDE DEF W, n
    <3>2. QED
      BY <2>1, <3>1, LastPosition
  <2>3. k \in 1..(n + 1) /\ ~Done(k)
    BY <2>2
  <2> HIDE DEF Done
  <2>4. k \in 1..n /\ k + 1 \in 1..(n + 1) /\ ~(k + 1 <= k)
    BY <1>1, <1>4, <2>3
  <2>5. Done(k + 1)
    BY <2>2, <2>4
  <2>6. QED
    BY <1>5, <2>3, <2>4, <2>5
<1>7. SubSeq(t, 1, n) = t
  BY SubSeqFull DEF Text
<1>8. QED
  BY <1>2, <1>3, <1>6, <1>7

\* So it is well formed and spells the text.
LEMMA EncodedMeans ==
    ASSUME NEW s \in Text, NEW t \in Text, NEW plus, Encodes(s, t, plus)
    PROVE  WellFormed(s) /\ Plain(s, plus) = t
<1>1. Decode(s, plus).ok /\ Decode(s, plus).text = t
  BY EncodedIsDecoded DEF Good
<1>2. QED
  BY <1>1, DecodeMeans

\* The value of a string parameter that holds a text encoded means that text.
LEMMA StringMeant ==
    ASSUME NEW raw \in Text, NEW t \in Text, NEW p \in Parameter, p.kind = "string",
           p.least <= Len(t),
           \/ p.source = "path" /\ Encodes(raw, t, FALSE)
           \/ p.source = "query" /\ Encodes(raw, t, TRUE)
    PROVE  MeantBy(p, raw) = Bound("value", t, 0)
<1>1. WellFormed(raw) /\ Plain(raw, p.source = "query") = t
  <2>1. CASE p.source = "path" /\ Encodes(raw, t, FALSE)
    <3>1. WellFormed(raw) /\ Plain(raw, FALSE) = t
      BY <2>1, EncodedMeans
    <3>2. (p.source = "query") = FALSE
      BY <2>1
    <3>3. QED
      BY <3>1, <3>2
  <2>2. CASE p.source = "query" /\ Encodes(raw, t, TRUE)
    <3>1. WellFormed(raw) /\ Plain(raw, TRUE) = t
      BY <2>2, EncodedMeans
    <3>2. (p.source = "query") = TRUE
      BY <2>2
    <3>3. QED
      BY <3>1, <3>2
  <2>3. QED
    BY <2>1, <2>2
<1>2. MeantBy(p, raw) = Parse(p, t)
  BY <1>1 DEF MeantBy
<1>3. ~(Len(t) < p.least)
  BY DEF Parameter, Text
<1>4. Parse(p, t) = Bound("value", t, 0)
  BY <1>3 DEF Parse
<1>5. QED
  BY <1>2, <1>4

LEMMA OneFirst ==
    ASSUME NEW i \in Nat
    PROVE  First({i}) = i /\ Again({i}) = {}
<1>1. {i} \in SUBSET Nat /\ i \in {i} /\ (\A r \in {i} : i <= r) /\ ~(i < i)
  OBVIOUS
<1>2. First({i}) = i
  BY <1>1, FirstIs
<1>3. Again({i}) = {}
  BY <1>1 DEF Again
<1>4. QED
  BY <1>2, <1>3

\* A path parameter means the text that the client sent for it.
LEMMA PathSent ==
    ASSUME WellTyped(request), NEW p \in Parameter, NEW t \in Text, p.source = "path",
           p.kind = "string", p.least <= Len(t), SentInPath(request, p.name, t)
    PROVE  Meant(request, p) = Bound("value", t, 0)
<1>1. /\ DOMAIN request.captures = 1..Len(request.captures) /\ Len(request.captures) \in Nat
      /\ \A j \in DOMAIN request.captures : request.captures[j].value \in Text
  <2>1. request.captures \in Seq(Named)
    BY DEF WellTyped
  <2>2. \A j \in DOMAIN request.captures : request.captures[j] \in Named
    BY <2>1, ElementOfSeq
  <2>3. QED
    BY <2>1, <2>2 DEF Named
<1>2. PICK j \in DOMAIN request.captures :
         /\ \A k \in DOMAIN request.captures : request.captures[k].name = p.name <=> k = j
         /\ Encodes(request.captures[j].value, t, FALSE)
  BY DEF SentInPath
<1>3. {i \in DOMAIN request.captures : request.captures[i].name = p.name} = {j}
  BY <1>2
<1>4. Given(request, p) = [error |-> "none", value |-> [i \in {j} |-> request.captures[i].value]]
  BY <1>3 DEF Given, InPath
<1>5. j \in Nat /\ request.captures[j].value \in Text
  BY <1>1
<1>6. Meant(request, p) = MeantBy(p, request.captures[j].value)
  <2>1. First({j}) = j
    BY <1>5, OneFirst
  <2>2. /\ Given(request, p).error = "none" /\ DOMAIN Given(request, p).value = {j}
        /\ Given(request, p).value[j] = request.captures[j].value
    BY <1>4
  <2>3. QED
    BY <2>1, <2>2 DEF Meant
<1>7. QED
  BY <1>2, <1>5, <1>6, StringMeant

\* A query parameter means the text that the client sent for it, wherever its field is.
LEMMA QuerySent ==
    ASSUME WellTyped(request), Sent(request), NEW i \in From(request, "query"),
           request.params[i] \in Parameter, request.sent[i] \in Text
    PROVE  Meant(request, request.params[i]) = Bound("value", request.sent[i], 0)
<1> DEFINE parts == Parts(request.query, "&")
           p     == request.params[i]
           B     == From(request, "query")
<1>1. /\ DOMAIN parts \in SUBSET Nat
      /\ \A u \in DOMAIN parts : parts[u] \in Text
  <2>1. request.query \in Text
    BY DEF WellTyped
  <2>2. CASE request.query = <<>>
    BY <2>1, <2>2, PlaceType
  <2>3. CASE request.query # <<>>
    <3>1. parts = [s \in Begins(request.query, "&") |->
                     Between(request.query, s, Find(request.query, "&", s))]
      BY <2>1, <2>3, PlaceType
    <3>2. /\ Begins(request.query, "&") \in SUBSET Nat
          /\ \A s \in Begins(request.query, "&") :
                Between(request.query, s, Find(request.query, "&", s)) \in Text
      BY <2>1, PlaceType
    <3>3. QED
      BY <3>1, <3>2
  <2>4. QED
    BY <2>2, <2>3
<1>2. \A u \in DOMAIN parts : Before(parts[u], "=") \in Text /\ After(parts[u], "=") \in Text
  BY <1>1, CutType
<1>3. PICK field \in [DOMAIN parts -> B] :
         /\ \A j \in B : \E s \in DOMAIN parts : \A u \in DOMAIN parts : field[u] = j <=> u = s
         /\ \A s \in DOMAIN parts :
               /\ Encodes(Before(parts[s], "="), request.params[field[s]].name, TRUE)
               /\ Encodes(After(parts[s], "="), request.sent[field[s]], TRUE)
  BY DEF Sent, SentInQuery
<1>4. PICK s \in DOMAIN parts : \A u \in DOMAIN parts : field[u] = i <=> u = s
  BY <1>3
<1>5. \A j \in B : request.params[j].name \in Text
  <2>1. \A j \in DOMAIN request.params : request.params[j] \in Parameter
    BY ElementOfSeq DEF WellTyped
  <2>2. QED
    BY <2>1 DEF From, Parameter
<1>6. ASSUME NEW u \in DOMAIN parts
      PROVE  /\ WellFormed(Before(parts[u], "="))
             /\ Plain(Before(parts[u], "="), TRUE) = p.name <=> u = s
  <2>1. field[u] \in B
    BY <1>3
  <2>2. /\ WellFormed(Before(parts[u], "="))
        /\ Plain(Before(parts[u], "="), TRUE) = request.params[field[u]].name
    <3>1. Before(parts[u], "=") \in Text /\ request.params[field[u]].name \in Text
      BY <1>2, <1>5, <2>1
    <3>2. Encodes(Before(parts[u], "="), request.params[field[u]].name, TRUE)
      BY <1>3
    <3> HIDE DEF parts, B
    <3>3. QED
      BY <3>1, <3>2, EncodedMeans
  <2>3. request.params[field[u]].name = p.name <=> field[u] = i
    BY <2>1 DEF Sent
  <2>4. QED
    BY <1>4, <2>2, <2>3
<1> DEFINE bad   == {u \in DOMAIN parts : ~WellFormed(Before(parts[u], "="))}
           named == {u \in DOMAIN parts \ bad : Plain(Before(parts[u], "="), TRUE) = p.name}
<1>7. bad = {} /\ named = {s}
  <2> HIDE DEF parts, p
  <2>1. bad = {}
    BY <1>6
  <2>2. QED
    BY <1>4, <1>6, <2>1
<1>8. InQuery(request, p) =
         [error |-> IF bad \cup Again(named) = {} THEN "none"
                    ELSE IF First(bad \cup Again(named)) \in bad THEN "invalid_percent_encoding"
                    ELSE "duplicate_query_parameter",
          value |-> [u \in named |-> After(parts[u], "=")]]
  BY DEF InQuery
<1>9. s \in Nat /\ First({s}) = s /\ Again({s}) = {}
  BY <1>1, OneFirst
<1>10. After(parts[s], "=") \in Text /\ Encodes(After(parts[s], "="), request.sent[i], TRUE)
  BY <1>2, <1>3, <1>4
<1>11. p.source = "query" /\ p.kind = "string" /\ p.least <= Len(request.sent[i])
  BY DEF From, Sent
<1> HIDE DEF parts, bad, named, p
<1>12. Given(request, p) = [error |-> "none", value |-> [u \in {s} |-> After(parts[u], "=")]]
  BY <1>7, <1>8, <1>9, <1>11 DEF Given
<1>13. Meant(request, p) = MeantBy(p, After(parts[s], "="))
  <2>1. /\ Given(request, p).error = "none" /\ DOMAIN Given(request, p).value = {s}
        /\ Given(request, p).value[s] = After(parts[s], "=")
    BY <1>12
  <2>2. QED
    BY <1>9, <1>11, <2>1 DEF Meant
<1>14. p \in Parameter
  BY DEF p
<1>15. Meant(request, p) = Bound("value", request.sent[i], 0)
  BY <1>10, <1>11, <1>13, <1>14, StringMeant
<1>16. QED
  BY <1>15 DEF p

\* For every request, every list of string parameters in its path and its query, and every
\* way to encode the texts sent for them: the endpoint is called, with those texts.
THEOREM WhatIsSentIsReceived == BindingSpec => []SentIsReceived
<1>1. BindingInv /\ BoundAsMeant => SentIsReceived
  <2> SUFFICES ASSUME BindingInv, BoundAsMeant, outcome # Pending, Sent(request)
               PROVE  /\ outcome.status = 200
                      /\ [i \in DOMAIN bound |-> bound[i].text] = request.sent
    BY DEF SentIsReceived
  <2>0. WellTyped(request) /\ bound = [k \in 1..Len(bound) |-> bound[k]]
    BY RequestType DEF BindingInv, TypeInv
  <2>1. /\ request.params \in Seq(Parameter) /\ request.sent \in Seq(Text)
        /\ Len(request.sent) = Len(request.params)
    BY <2>0 DEF WellTyped, Sent
  <2>2. ASSUME NEW i \in DOMAIN request.params
        PROVE  Meant(request, request.params[i]) = Bound("value", request.sent[i], 0)
    <3> DEFINE p == request.params[i]
    <3>1. p \in Parameter /\ request.sent[i] \in Text
      BY <2>1, <2>2, ElementOfSeq
    <3>2. p.source \in {"path", "query"} /\ p.kind = "string" /\ p.least <= Len(request.sent[i])
      BY DEF Sent
    <3>3. CASE p.source = "path"
      <4>1. i \in From(request, "path")
        BY <3>3 DEF From
      <4>2. SentInPath(request, p.name, request.sent[i])
        BY <4>1 DEF Sent
      <4> HIDE DEF p
      <4>3. Meant(request, p) = Bound("value", request.sent[i], 0)
        BY <2>0, <3>1, <3>2, <3>3, <4>2, PathSent
      <4>4. QED
        BY <4>3 DEF p
    <3>4. CASE p.source = "query"
      <4>1. i \in From(request, "query")
        BY <3>4 DEF From
      <4>2. QED
        BY <2>0, <3>1, <4>1, QuerySent
    <3>5. QED
      BY <3>2, <3>3, <3>4
  <2>3. DOMAIN bound = DOMAIN request.sent /\ DOMAIN bound = DOMAIN request.params
    <3>1. DOMAIN bound = 1..Len(bound)
      BY <2>0
    <3>2. Len(bound) = Len(request.params)
      BY DEF BoundAsMeant
    <3>3. QED
      BY <2>1, <3>1, <3>2
  <2>4. \A i \in DOMAIN bound : bound[i] = Bound("value", request.sent[i], 0)
    BY <2>2, <2>3 DEF BoundAsMeant
  <2>5. \A i \in DOMAIN bound : bound[i].status = 200 /\ bound[i].text = request.sent[i]
    BY <2>4 DEF Bound
  <2>6. outcome.status = 200
    <3>1. {i \in DOMAIN bound : bound[i].status # 200} = {}
      BY <2>5
    <3>2. outcome = [status |-> 200, parameter |-> 0, code |-> "none"]
      BY <3>1 DEF BoundAsMeant
    <3>3. QED
      BY <3>2
  <2>7. [i \in DOMAIN bound |-> bound[i].text] = request.sent
    <3>1. request.sent = [i \in DOMAIN request.sent |-> request.sent[i]]
      BY <2>1
    <3>2. QED
      BY <2>3, <2>5, <3>1
  <2>8. QED
    BY <2>6, <2>7
<1>2. QED
  BY <1>1, BindingInvariant, BindingIsMeant, PTL

=============================================================================
