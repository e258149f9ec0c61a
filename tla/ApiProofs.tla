------------------------------ MODULE ApiProofs -------------------------------
(***************************************************************************)
(* What the compiler, the document and dispatch promise each other, for    *)
(* every namespace of endpoints and every request.                         *)
(*                                                                         *)
(* GrammarInv is the loop invariant of parse_route; its part Cut says that *)
(* the segments are the pieces between the slashes, which makes the        *)
(* pattern a function of the source: two endpoints with the same path text *)
(* have the same pattern, so validate_routes refuses them if they share a  *)
(* method and a path of the document never lists a method twice.           *)
(***************************************************************************)
EXTENDS Api, RouterProofs, Positions, FiniteSetTheorems

-----------------------------------------------------------------------------
(* parse_route.                                                            *)

\* p is made of the pieces of s between slashes, from the second character up to end.
Cut(s, p, end) ==
    \E c \in [1..(Len(p) + 1) -> Nat] :
        /\ c[1] = 2 /\ c[Len(p) + 1] = end
        /\ \A i \in 1..Len(p) :
              /\ c[i] <= Len(s)
              /\ c[i + 1] = FindIn(s, "/", c[i]) + 1
              /\ p[i] = SegmentOf(SubSeq(s, c[i], c[i + 1] - 2))

\* p is the pattern of the source s.
PatternOf(s, p) == IF s = <<"/">> THEN p = <<>> ELSE Cut(s, p, Len(s) + 2)

GrammarInv ==
    /\ GrammarTypeOK
    /\ Sound(segments)
    /\ error = "start" => offset = 2 /\ segments = <<>>
    /\ error = "scan" =>
          /\ source # <<"/">> /\ source[Len(source)] # "/"
          /\ \A i \in DOMAIN segments : segments[i].kind # "catch_all"
          /\ Cut(source, segments, offset)
    /\ error = "none" /\ source # <<>> => PatternOf(source, segments)

\* A search ends at the first place where the character is, or past the end.
LEMMA FindInFinds ==
    ASSUME NEW s \in Text, NEW c, NEW from \in 1..Len(s)
    PROVE  /\ FindIn(s, c, from) \in from..(Len(s) + 1)
           /\ FindIn(s, c, from) # Len(s) + 1 => s[FindIn(s, c, from)] = c
           /\ \A j \in from..(FindIn(s, c, from) - 1) : s[j] # c
<1> DEFINE Z == {i \in 1..(Len(s) + 1) : i = Len(s) + 1 \/ s[i] = c}
<1>1. Len(s) \in Nat
  BY DEF Text
<1>2. Z \in SUBSET Nat /\ Len(s) + 1 \in Z /\ from \in 1..(Len(s) + 1)
  BY <1>1
<1>3. \E q \in from..(Len(s) + 1) : q \in Z /\ \A r \in from..(q - 1) : r \notin Z
  <2> HIDE DEF Z
  <2>1. Len(s) + 1 \in Nat
    BY <1>1
  <2>2. QED
    BY <1>2, <2>1, FirstFrom, Zenon
<1>4. PICK q \in from..(Len(s) + 1) : q \in Z /\ \A r \in from..(q - 1) : r \notin Z
  BY <1>3
<1>5. \A r \in from..(q - 1) : s[r] # c
  BY <1>1, <1>4
<1>6. q = Len(s) + 1 \/ s[q] = c
  BY <1>4
<1>7. QED
  BY <1>5, <1>6 DEF FindIn

\* A place that has the character, or is past the end, and no place before it has it.
LEMMA FindInStops ==
    ASSUME NEW s \in Text, NEW c, NEW from \in 1..Len(s), NEW v \in from..(Len(s) + 1),
           v = Len(s) + 1 \/ s[v] = c, \A j \in from..(v - 1) : s[j] # c
    PROVE  FindIn(s, c, from) = v
<1> DEFINE u == FindIn(s, c, from)
<1>1. Len(s) \in Nat
  BY DEF Text
<1>2. /\ u \in from..(Len(s) + 1) /\ (u # Len(s) + 1 => s[u] = c)
      /\ \A j \in from..(u - 1) : s[j] # c
  BY FindInFinds
<1> HIDE DEF u
<1>3. ~(u < v)
  <2>1. SUFFICES ASSUME u < v PROVE FALSE
    OBVIOUS
  <2>2. u \in from..(v - 1) /\ u # Len(s) + 1
    BY <1>1, <1>2, <2>1
  <2>3. QED
    BY <1>2, <2>2
<1>4. ~(v < u)
  <2>1. SUFFICES ASSUME v < u PROVE FALSE
    OBVIOUS
  <2>2. v \in from..(u - 1) /\ v # Len(s) + 1
    BY <1>1, <1>2, <2>1
  <2>3. QED
    BY <1>2, <2>2
<1>5. u = v
  BY <1>1, <1>2, <1>3, <1>4
<1>6. QED
  BY <1>5 DEF u

\* A piece of a text is a text.
LEMMA PieceIsText ==
    ASSUME NEW s \in Text, NEW m \in Nat \ {0}, NEW n \in Nat, n <= Len(s)
    PROVE  SubSeq(s, m, n) \in Text
<1>1. \A i \in m..n : s[i] \in Char
  BY DEF Text
<1>2. QED
  BY <1>1, SubSeqProperties DEF Text

\* A segment that is not refused has a name, or is a text with a character in it.
LEMMA SegmentType ==
    ASSUME NEW t \in Text, Refusal(t) = "none"
    PROVE  /\ SegmentOf(t) \in Segment
           /\ SegmentOf(t).text # <<>>
           /\ SegmentOf(t).kind = "catch_all" => Final
           /\ SegmentOf(t).kind # "literal" => ~Named(segments, SegmentOf(t).text)
           /\ Len(segments) # MaxSegments
<1>1. t # <<>> /\ Len(segments) # MaxSegments
  BY DEF Refusal
<1>2. CASE ~Braced(t)
  BY <1>1, <1>2 DEF SegmentOf, Segment, Kind
<1>3. CASE Braced(t)
  <2>1. /\ ~(Len(t) < 3) /\ valid_parameter_name(name(t)) /\ ~Named(segments, name(t))
        /\ Starred(t) => Final
    BY <1>3 DEF Refusal
  <2>2. Len(t) \in Nat /\ Len(t) - 1 \in Nat /\ Len(t) - 1 <= Len(t)
    BY <2>1 DEF Text
  <2>3. name(t) \in Text
    <3>1. CASE Starred(t)
      BY <2>2, <3>1, PieceIsText DEF name
    <3>2. CASE ~Starred(t)
      BY <2>2, <3>2, PieceIsText DEF name
    <3>3. QED
      BY <3>1, <3>2
  <2>4. name(t) # <<>>
    BY <2>1 DEF valid_parameter_name
  <2>5. QED
    BY <1>1, <1>3, <2>1, <2>3, <2>4 DEF SegmentOf, Segment, Kind
<1>4. QED
  BY <1>2, <1>3

\* A refusal is one of the errors of route_error.
LEMMA RefusalType == ASSUME NEW t PROVE Refusal(t) \in Errors
BY DEF Refusal, Errors

\* One more piece.
LEMMA CutGrows ==
    ASSUME NEW s \in Text, NEW p \in Seq(Segment), NEW end \in 1..Len(s), Cut(s, p, end),
           NEW x \in Segment, NEW q \in Nat, q = FindIn(s, "/", end),
           x = SegmentOf(SubSeq(s, end, q - 1))
    PROVE  Cut(s, Append(p, x), q + 1)
<1> DEFINE n == Len(p)
           P == Append(p, x)
<1>1. n \in Nat /\ Len(s) \in Nat
  BY DEF Text
<1>2. /\ Len(P) = n + 1
      /\ \A i \in 1..n : P[i] = p[i]
      /\ P[n + 1] = x
  BY AppendProperties
<1>3. PICK c \in [1..(n + 1) -> Nat] :
         /\ c[1] = 2 /\ c[n + 1] = end
         /\ \A i \in 1..n : /\ c[i] <= Len(s)
                            /\ c[i + 1] = FindIn(s, "/", c[i]) + 1
                            /\ p[i] = SegmentOf(SubSeq(s, c[i], c[i + 1] - 2))
  BY DEF Cut
<1> HIDE DEF P, n
<1> DEFINE d == [i \in 1..(n + 2) |-> IF i = n + 2 THEN q + 1 ELSE c[i]]
<1>4. /\ d \in [1..(n + 2) -> Nat]
      /\ \A i \in 1..(n + 1) : d[i] = c[i]
      /\ d[n + 2] = q + 1
  BY <1>1, <1>3, SMTT(30)
<1> HIDE DEF d
<1>5. d[1] = 2
  BY <1>1, <1>3, <1>4
<1>6. ASSUME NEW i \in 1..n
      PROVE  /\ d[i] <= Len(s)
             /\ d[i + 1] = FindIn(s, "/", d[i]) + 1
             /\ P[i] = SegmentOf(SubSeq(s, d[i], d[i + 1] - 2))
  <2>0. i \in 1..(n + 1) /\ i + 1 \in 1..(n + 1)
    BY ONLY <1>1, i \in 1..n
  <2>1. d[i] = c[i] /\ d[i + 1] = c[i + 1] /\ P[i] = p[i]
    BY <1>2, <1>4, <2>0
  <2>2. QED
    BY <1>3, <2>1
<1>7. /\ d[n + 1] <= Len(s)
      /\ d[n + 2] = FindIn(s, "/", d[n + 1]) + 1
      /\ P[n + 1] = SegmentOf(SubSeq(s, d[n + 1], d[n + 2] - 2))
  <2>1. d[n + 1] = end
    BY <1>1, <1>3, <1>4
  <2>2. d[n + 2] - 2 = q - 1
    BY <1>4
  <2>3. QED
    BY <1>1, <1>2, <1>4, <2>1, <2>2
<1>8. \A i \in 1..(n + 1) : i \in 1..n \/ i = n + 1
  BY <1>1
<1>9. (n + 1) + 1 = n + 2
  BY <1>1
<1>10. QED
  <2>1. \A i \in 1..(n + 1) : /\ d[i] <= Len(s)
                             /\ d[i + 1] = FindIn(s, "/", d[i]) + 1
                             /\ P[i] = SegmentOf(SubSeq(s, d[i], d[i + 1] - 2))
    BY <1>6, <1>7, <1>8, <1>9
  <2>2. /\ d \in [1..(Len(P) + 1) -> Nat]
        /\ d[Len(P) + 1] = q + 1
        /\ \A i \in 1..Len(P) : /\ d[i] <= Len(s)
                               /\ d[i + 1] = FindIn(s, "/", d[i]) + 1
                               /\ P[i] = SegmentOf(SubSeq(s, d[i], d[i + 1] - 2))
    BY <1>2, <1>4, <1>9, <2>1
  <2>3. Cut(s, P, q + 1)
    BY <1>5, <2>2, Zenon DEF Cut
  <2>4. QED
    BY <2>3 DEF P

\* The pattern is a function of the source: the cuts cannot differ in a first place.
LEMMA PatternUnique ==
    ASSUME NEW s \in Text, NEW p \in Seq(Segment), NEW q \in Seq(Segment),
           PatternOf(s, p), PatternOf(s, q)
    PROVE  p = q
<1>1. CASE s = <<"/">>
  BY <1>1 DEF PatternOf
<1>2. CASE s # <<"/">>
  <2>1. Cut(s, p, Len(s) + 2) /\ Cut(s, q, Len(s) + 2)
    BY <1>2 DEF PatternOf
  <2>2. Len(p) \in Nat /\ Len(q) \in Nat /\ Len(s) \in Nat
    BY DEF Text
  <2>3. PICK c \in [1..(Len(p) + 1) -> Nat] :
           /\ c[1] = 2 /\ c[Len(p) + 1] = Len(s) + 2
           /\ \A i \in 1..Len(p) : /\ c[i] <= Len(s)
                                   /\ c[i + 1] = FindIn(s, "/", c[i]) + 1
                                   /\ p[i] = SegmentOf(SubSeq(s, c[i], c[i + 1] - 2))
    BY <2>1 DEF Cut
  <2>4. PICK d \in [1..(Len(q) + 1) -> Nat] :
           /\ d[1] = 2 /\ d[Len(q) + 1] = Len(s) + 2
           /\ \A i \in 1..Len(q) : /\ d[i] <= Len(s)
                                   /\ d[i + 1] = FindIn(s, "/", d[i]) + 1
                                   /\ q[i] = SegmentOf(SubSeq(s, d[i], d[i + 1] - 2))
    BY <2>1 DEF Cut
  <2> DEFINE Both == (1..(Len(p) + 1)) \cap (1..(Len(q) + 1))
             D    == {i \in Both : c[i] # d[i]}
  <2>5. D = {}
    <3>1. SUFFICES ASSUME D # {} PROVE FALSE
      OBVIOUS
    <3>2. D \in SUBSET Nat
      BY <2>2
    <3>3. PICK i \in D : \A r \in D : i <= r
      <4> HIDE DEF D
      <4>1. QED
        BY <3>1, <3>2, FirstPosition
    <3>4. i # 1 /\ i \in Nat /\ i - 1 \in Both /\ i - 1 \in 1..Len(p) /\ i - 1 \in 1..Len(q)
      BY <2>2, <2>3, <2>4, <3>3
    <3>5. i - 1 \notin D
      <4>1. i \in Nat
        BY <3>4
      <4> HIDE DEF D
      <4>2. QED
        BY ONLY <3>3, <4>1
    <3>6. c[i - 1] = d[i - 1]
      BY <3>4, <3>5
    <3>7. c[(i - 1) + 1] = d[(i - 1) + 1]
      BY <2>3, <2>4, <3>4, <3>6
    <3>8. QED
      BY <3>3, <3>4, <3>7
  <2>6. \A i \in Both : c[i] = d[i]
    BY <2>5
  <2>7. Len(p) = Len(q)
    <3>1. ASSUME Len(p) < Len(q) PROVE FALSE
      <4>1. Len(p) + 1 \in Both /\ Len(p) + 1 \in 1..Len(q)
        BY <2>2, <3>1
      <4>2. d[Len(p) + 1] = Len(s) + 2 /\ d[Len(p) + 1] <= Len(s)
        BY <2>3, <2>4, <2>6, <4>1
      <4>3. QED
        BY <2>2, <4>2
    <3>2. ASSUME Len(q) < Len(p) PROVE FALSE
      <4>1. Len(q) + 1 \in Both /\ Len(q) + 1 \in 1..Len(p)
        BY <2>2, <3>2
      <4>2. c[Len(q) + 1] = Len(s) + 2 /\ c[Len(q) + 1] <= Len(s)
        BY <2>3, <2>4, <2>6, <4>1
      <4>3. QED
        BY <2>2, <4>2
    <3>3. QED
      BY <2>2, <3>1, <3>2
  <2>8. \A i \in 1..Len(p) : p[i] = q[i]
    <3>1. TAKE i \in 1..Len(p)
    <3>2. i \in Both /\ i + 1 \in Both
      BY <2>2, <2>7
    <3>3. QED
      BY <2>3, <2>4, <2>6, <2>7, <3>2
  <2>9. QED
    BY <2>7, <2>8, SeqEqual
<1>3. QED
  BY <1>1, <1>2

\* parse_route starts.
LEMMA ParseInv == ASSUME NEW s \in Text, Parse(s) PROVE GrammarInv'
<1>1. /\ source' = s /\ offset' = 2 /\ segments' = <<>> /\ error' = "start"
      /\ segments' \in Seq(Segment) /\ Len(segments') = 0
  BY DEF Parse
<1>2. GrammarTypeOK'
  BY <1>1, GrammarAssumption DEF GrammarTypeOK, Errors
<1>3. Sound(segments)'
  BY <1>1 DEF Sound, Placeholders
<1>4. QED
  BY <1>1, <1>2, <1>3 DEF GrammarInv

\* The checks before the loop: it is entered with a character after the slash to look at.
LEMMA EnterInv == ASSUME GrammarInv, Enter PROVE GrammarInv'
<1>1. /\ error = "start" /\ UNCHANGED <<source, offset, segments>>
      /\ offset = 2 /\ segments = <<>> /\ source \in Text
      /\ segments \in Seq(Segment) /\ Len(segments) <= MaxSegments
  BY DEF Enter, GrammarInv, GrammarTypeOK
<1>2. error' \in {"missing_leading_slash", "none", "trailing_slash", "scan"}
  BY DEF Enter
<1>3. ASSUME error' = "scan"
      PROVE  /\ source # <<"/">> /\ source[Len(source)] # "/"
             /\ 2 \in 2..Len(source)
             /\ Cut(source, segments, 2)
  <2>1. source # <<>> /\ source[1] = "/" /\ source # <<"/">> /\ source[Len(source)] # "/"
    BY <1>3 DEF Enter
  <2>2. Len(source) \in Nat /\ Len(source) # 0 /\ Len(source) # 1
    <3>1. source \in Seq(Char)
      BY <1>1 DEF Text
    <3>2. QED
      BY <2>1, <3>1
  <2>3. Cut(source, segments, 2)
    <3> DEFINE c == [i \in 1..1 |-> 2]
    <3>1. c \in [1..(Len(segments) + 1) -> Nat] /\ c[1] = 2 /\ Len(segments) = 0
      BY <1>1
    <3> HIDE DEF c
    <3>2. QED
      BY <3>1 DEF Cut
  <2>4. QED
    BY <2>1, <2>2, <2>3
<1>4. ASSUME error' = "none", source # <<>> PROVE PatternOf(source, segments)
  BY <1>1, <1>4 DEF Enter, PatternOf
<1>5. GrammarTypeOK'
  BY <1>1, <1>2, <1>3 DEF GrammarTypeOK, Errors
<1>6. Sound(segments)'
  BY <1>1 DEF GrammarInv, Sound, Placeholders
<1>7. QED
  BY <1>1, <1>2, <1>3, <1>4, <1>5, <1>6 DEF GrammarInv

\* A new segment keeps the pattern sound.
LEMMA SoundGrows ==
    ASSUME NEW p \in Seq(Segment), NEW x \in Segment, Sound(p), x.text # <<>>,
           x.kind # "literal" => ~Named(p, x.text),
           \A i \in DOMAIN p : p[i].kind # "catch_all"
    PROVE  Sound(Append(p, x))
<1> DEFINE P == Append(p, x)
           n == Len(p)
<1>1. n \in Nat /\ DOMAIN p = 1..n
  OBVIOUS
<1>2. /\ P \in Seq(Segment) /\ Len(P) = n + 1 /\ DOMAIN P = 1..(n + 1)
      /\ \A i \in 1..n : P[i] = p[i]
      /\ P[n + 1] = x
  BY AppendProperties, LenProperties
<1> HIDE DEF P, n
<1>3. \A i \in DOMAIN P : \/ i \in DOMAIN p /\ P[i] = p[i]
                          \/ i = n + 1 /\ P[i] = x
  <2>1. TAKE i \in DOMAIN P
  <2>2. i \in 1..n \/ i = n + 1
    BY <1>1, <1>2
  <2>3. QED
    BY <1>1, <1>2, <2>2
<1>4. \A i \in DOMAIN P : P[i].kind = "catch_all" => i = Len(P)
  BY <1>2, <1>3
<1>5. \A i \in DOMAIN P : P[i].text # <<>>
  BY <1>3 DEF Sound
<1>6. ASSUME NEW i \in Placeholders(P), NEW j \in Placeholders(P), P[i].text = P[j].text
      PROVE  i = j
  <2>1. i \in DOMAIN P /\ j \in DOMAIN P /\ P[i].kind # "literal" /\ P[j].kind # "literal"
    BY DEF Placeholders
  <2>2. CASE P[i] = p[i] /\ i \in DOMAIN p /\ P[j] = p[j] /\ j \in DOMAIN p
    BY <1>6, <2>1, <2>2 DEF Sound, Placeholders
  <2>3. CASE i = n + 1 /\ P[i] = x /\ P[j] = p[j] /\ j \in DOMAIN p
    BY <1>6, <2>1, <2>3 DEF Named, Placeholders
  <2>4. CASE j = n + 1 /\ P[j] = x /\ P[i] = p[i] /\ i \in DOMAIN p
    BY <1>6, <2>1, <2>4 DEF Named, Placeholders
  <2>5. QED
    BY <1>3, <2>1, <2>2, <2>3, <2>4
<1>7. Sound(P)
  BY <1>4, <1>5, <1>6 DEF Sound
<1>8. QED
  BY <1>7 DEF P

\* One turn of the loop.
LEMMA ScanSegmentInv == ASSUME GrammarInv, ScanSegment PROVE GrammarInv'
<1> DEFINE t == segment_text
           x == SegmentOf(t)
<1>1. /\ error = "scan" /\ source' = source
      /\ source \in Text /\ Len(source) \in Nat /\ source # <<>>
      /\ offset \in 2..Len(source) /\ offset \in 1..Len(source)
      /\ segments \in Seq(Segment) /\ Len(segments) <= MaxSegments
      /\ source # <<"/">> /\ source[Len(source)] # "/"
      /\ Cut(source, segments, offset) /\ Sound(segments)
      /\ \A i \in DOMAIN segments : segments[i].kind # "catch_all"
  BY DEF ScanSegment, GrammarInv, GrammarTypeOK, Text
<1>2. /\ separator \in offset..(Len(source) + 1)
      /\ ~Final => source[separator] = "/"
  BY <1>1, FindInFinds DEF separator, Final
<1>3. t \in Text
  BY <1>1, <1>2, PieceIsText DEF segment_text
<1>4. CASE Refusal(t) # "none"
  <2>1. error' = Refusal(t) /\ UNCHANGED <<source, offset, segments>>
    BY <1>1, <1>4 DEF ScanSegment
  <2>2. error' \in Errors /\ error' \notin {"start", "scan", "none"}
    BY <1>4, <2>1, RefusalType DEF Errors
  <2>3. QED
    BY <1>1, <2>1, <2>2 DEF GrammarInv, GrammarTypeOK
<1>5. CASE Refusal(t) = "none"
  <2>1. /\ segments' = Append(segments, x)
        /\ IF Final THEN error' = "none" /\ UNCHANGED offset
                    ELSE offset' = separator + 1 /\ UNCHANGED error
    BY <1>5 DEF ScanSegment
  <2>2. /\ x \in Segment /\ x.text # <<>>
        /\ x.kind = "catch_all" => Final
        /\ x.kind # "literal" => ~Named(segments, x.text)
        /\ Len(segments) # MaxSegments
    BY <1>3, <1>5, SegmentType
  <2> HIDE DEF x
  <2>3. /\ segments' \in Seq(Segment) /\ Len(segments') = Len(segments) + 1
        /\ Len(segments') <= MaxSegments
        /\ \A i \in DOMAIN segments' : \/ i \in DOMAIN segments /\ segments'[i] = segments[i]
                                      \/ segments'[i] = x
    BY <1>1, <2>1, <2>2, AppendProperties, GrammarAssumption
  <2>4. Sound(segments')
    BY <1>1, <2>1, <2>2, SoundGrows
  <2>5. Cut(source, segments', separator + 1)
    <3>1. x = SegmentOf(SubSeq(source, offset, separator - 1))
      BY DEF x, segment_text
    <3>2. separator = FindIn(source, "/", offset) /\ separator \in Nat
      BY <1>1, <1>2 DEF separator
    <3>3. QED
      BY <1>1, <2>1, <2>2, <3>1, <3>2, CutGrows
  <2>6. CASE Final
    <3>1. error' = "none" /\ separator + 1 = Len(source) + 2
      BY <1>1, <2>1, <2>6 DEF Final
    <3>2. PatternOf(source, segments')
      BY <1>1, <2>5, <3>1 DEF PatternOf
    <3>3. QED
      BY <1>1, <2>3, <2>4, <3>1, <3>2 DEF GrammarInv, GrammarTypeOK, Errors
  <2>7. CASE ~Final
    <3>1. offset' = separator + 1 /\ error' = "scan"
      BY <1>1, <2>1, <2>7
    <3>2. separator # Len(source) /\ separator # Len(source) + 1
      BY <1>1, <1>2, <2>7 DEF Final
    <3>3. offset' \in 2..Len(source)
      BY <1>1, <1>2, <3>1, <3>2
    <3>4. \A i \in DOMAIN segments' : segments'[i].kind # "catch_all"
      BY <1>1, <2>2, <2>3, <2>7
    <3>5. QED
      BY <1>1, <2>3, <2>4, <2>5, <3>1, <3>3, <3>4 DEF GrammarInv, GrammarTypeOK
  <2>8. QED
    BY <2>6, <2>7
<1>6. QED
  BY <1>4, <1>5

\* One step of parse_route; a pattern is only made of a source that is not empty.
LEMMA GrammarStep ==
    ASSUME GrammarInv, GrammarNext
    PROVE  GrammarInv' /\ source' = source /\ (error' = "none" => source # <<>>)
<1>1. CASE Enter
  <2>1. source' = source /\ (error' = "none" => source # <<>>)
    BY <1>1 DEF Enter
  <2>2. QED
    BY <1>1, <2>1, EnterInv
<1>2. CASE ScanSegment
  <2>1. source' = source /\ error = "scan"
    BY <1>2 DEF ScanSegment
  <2>2. source \in Seq(Char) /\ offset \in 2..Len(source)
    BY <2>1 DEF GrammarInv, GrammarTypeOK, Text
  <2>3. source # <<>>
    BY <2>2
  <2>4. QED
    BY <1>2, <2>1, <2>3, ScanSegmentInv
<1>3. QED
  BY <1>1, <1>2 DEF GrammarNext

\* A variable that parse_route does not get to see.
LEMMA GrammarStays == ASSUME GrammarInv, UNCHANGED grammarVars PROVE GrammarInv'
<1>1. UNCHANGED <<source, offset, segments, error>>
  BY DEF grammarVars
<1>2. QED
  BY <1>1 DEF GrammarInv, GrammarTypeOK, Sound, Placeholders

-----------------------------------------------------------------------------
(* The texts of routes.                                                    *)

\* Texts of up to three characters.
LEMMA Short ==
    ASSUME NEW C, NEW a \in C, NEW b \in C, NEW c \in C
    PROVE  /\ <<a>> \in Seq(C) /\ Len(<<a>>) = 1 /\ <<a>>[1] = a
           /\ <<a, b>> \in Seq(C) /\ Len(<<a, b>>) = 2 /\ <<a, b>>[1] = a /\ <<a, b>>[2] = b
           /\ <<a, b, c>> \in Seq(C) /\ Len(<<a, b, c>>) = 3
           /\ <<a, b, c>>[1] = a /\ <<a, b, c>>[2] = b /\ <<a, b, c>>[3] = c
OBVIOUS

\* The delimiters are characters, and no name has one.
LEMMA Delimiters ==
    /\ "/" \in Char /\ "{" \in Char /\ "}" \in Char /\ "*" \in Char
    /\ "/" \notin NameChar /\ "{" \notin NameChar /\ "}" \notin NameChar /\ "*" \notin NameChar
BY CharAssumption DEF Char

\* A text between two others, the second of one character.
Wraps(w, C, a, t, b) ==
    /\ w \in Seq(C) /\ Len(w) = Len(a) + Len(t) + 1
    /\ \A i \in 1..Len(a) : w[i] = a[i]
    /\ \A i \in 1..Len(t) : w[Len(a) + i] = t[i]
    /\ w[Len(a) + Len(t) + 1] = b

LEMMA Between ==
    ASSUME NEW C, NEW a \in Seq(C), NEW t \in Seq(C), NEW b \in C,
           NEW w, w = a \o t \o <<b>>
    PROVE  Wraps(w, C, a, t, b)
<1> DEFINE v == a \o t
           e == <<b>>
<1>1. Len(a) \in Nat /\ Len(t) \in Nat
  OBVIOUS
<1>2. /\ v \in Seq(C) /\ Len(v) = Len(a) + Len(t)
      /\ \A i \in 1..(Len(a) + Len(t)) : v[i] = IF i <= Len(a) THEN a[i] ELSE t[i - Len(a)]
  BY ConcatProperties
<1>3. e \in Seq(C) /\ Len(e) = 1 /\ e[1] = b
  BY Short
<1>4. w = v \o e
  OBVIOUS
<1> HIDE DEF v, e
<1>5. /\ w \in Seq(C) /\ Len(w) = Len(v) + 1
      /\ \A i \in 1..(Len(v) + 1) : w[i] = IF i <= Len(v) THEN v[i] ELSE e[i - Len(v)]
  <2>1. /\ v \o e \in Seq(C) /\ Len(v \o e) = Len(v) + Len(e)
        /\ \A i \in 1..(Len(v) + Len(e)) :
              (v \o e)[i] = IF i <= Len(v) THEN v[i] ELSE e[i - Len(v)]
    <3>1. v \in Seq(C) /\ e \in Seq(C)
      BY <1>2, <1>3
    <3>2. QED
      BY <3>1, ConcatProperties, Zenon
  <2>2. QED
    BY <1>3, <1>4, <2>1, Zenon
<1>6. \A i \in 1..Len(a) : w[i] = a[i]
  BY <1>1, <1>2, <1>5
<1>7. ASSUME NEW i \in 1..Len(t) PROVE w[Len(a) + i] = t[i]
  <2> DEFINE j == Len(a) + i
  <2>1. j \in 1..(Len(a) + Len(t)) /\ ~(j <= Len(a)) /\ j - Len(a) = i
    BY <1>1
  <2> HIDE DEF j
  <2>2. v[j] = t[i]
    BY <1>2, <2>1
  <2>3. w[j] = v[j]
    BY <1>1, <1>2, <1>5, <2>1
  <2>4. QED
    BY <2>2, <2>3 DEF j
<1>8. w[Len(a) + Len(t) + 1] = b
  <2> DEFINE j == Len(v) + 1
  <2>1. j \in 1..(Len(v) + 1) /\ ~(j <= Len(v)) /\ j - Len(v) = 1
    BY <1>1, <1>2
  <2> HIDE DEF j
  <2>2. w[j] = b
    BY <1>3, <1>5, <2>1
  <2>3. QED
    BY <1>2, <2>2 DEF j
<1>9. QED
  BY <1>1, <1>2, <1>5, <1>6, <1>7, <1>8 DEF Wraps

\* The characters of a segment as it is written: w is that of x, which has a text of n.
Writes(x, n, w) ==
    /\ n \in Nat \ {0} /\ x.text \in Seq(Char) /\ w \in Seq(Char) /\ x.kind \in Kind
    /\ \A i \in 1..n : x.text[i] # "/"
    /\ w[1] = "/"
    /\ x.kind = "literal" => Len(w) = n + 1 /\ \A i \in 1..n : w[i + 1] = x.text[i]
    /\ x.kind = "parameter" => /\ Len(w) = n + 3 /\ w[2] = "{" /\ w[n + 3] = "}"
                               /\ \A i \in 1..n : w[i + 2] = x.text[i]
    /\ x.kind = "catch_all" => /\ Len(w) = n + 4 /\ w[2] = "{" /\ w[3] = "*" /\ w[n + 4] = "}"
                               /\ \A i \in 1..n : w[i + 3] = x.text[i]

LEMMA SpelledIs ==
    ASSUME NEW x \in Segment, Proper(x), NEW n, n = Len(x.text), NEW w, w = Spelled(x)
    PROVE  Writes(x, n, w)
<1>1. /\ x.kind \in Kind /\ x.text \in Text /\ x.text # <<>>
      /\ \A i \in DOMAIN x.text : x.text[i] # "/"
  <2>1. x.kind \in Kind /\ x.text \in Text
    BY DEF Segment
  <2>2. CASE x.kind = "literal"
    BY <2>1, <2>2 DEF Proper, HasChar
  <2>3. CASE x.kind # "literal"
    BY <2>1, <2>3, Delimiters DEF Proper, valid_parameter_name
  <2>4. QED
    BY <2>1, <2>2, <2>3
<1>2. x.text \in Seq(Char) /\ n \in Nat \ {0} /\ DOMAIN x.text = 1..n
  BY <1>1 DEF Text
<1>2a. "literal" # "parameter" /\ "literal" # "catch_all" /\ "parameter" # "catch_all"
  OBVIOUS
<1>3. CASE x.kind = "literal"
  <2> DEFINE a == <<"/">>
  <2>1. a \in Seq(Char) /\ Len(a) = 1 /\ a[1] = "/"
    BY Delimiters, Short, Zenon
  <2>2. w = a \o x.text
    BY <1>3 DEF Spelled
  <2> HIDE DEF a
  <2>3. /\ w \in Seq(Char) /\ Len(w) = 1 + n
        /\ \A i \in 1..(1 + n) : w[i] = IF i <= 1 THEN a[i] ELSE x.text[i - 1]
    <3> DEFINE t == x.text
    <3>1. /\ a \o t \in Seq(Char) /\ Len(a \o t) = Len(a) + Len(t)
          /\ \A i \in 1..(Len(a) + Len(t)) : (a \o t)[i] = IF i <= Len(a) THEN a[i] ELSE t[i - Len(a)]
      BY <1>2, <2>1, ConcatProperties, Zenon
    <3>2. QED
      BY <2>1, <2>2, <3>1, Zenon
  <2>4. w[1] = "/"
    BY <1>2, <2>1, <2>3
  <2>5. ASSUME NEW i \in 1..n PROVE w[i + 1] = x.text[i]
    <3>1. i + 1 \in 1..(1 + n) /\ ~(i + 1 <= 1) /\ (i + 1) - 1 = i
      BY <1>2
    <3>2. w[i + 1] = x.text[(i + 1) - 1]
      BY <2>3, <3>1
    <3>3. QED
      BY <3>1, <3>2
  <2>6. Len(w) = n + 1
    BY <1>2, <2>3
  <2>7. QED
    BY <1>1, <1>2, <1>3, <1>2a, <2>3, <2>4, <2>5, <2>6, Zenon DEF Writes
<1>4. CASE x.kind = "parameter"
  <2> DEFINE a == <<"/", "{">>
  <2>1. a \in Seq(Char) /\ Len(a) = 2 /\ a[1] = "/" /\ a[2] = "{"
    BY Delimiters, Short, Zenon
  <2>2. w = a \o x.text \o <<"}">>
    BY <1>4 DEF Spelled
  <2> HIDE DEF a
  <2>3. /\ w \in Seq(Char) /\ Len(w) = 2 + n + 1
        /\ \A i \in 1..2 : w[i] = a[i]
        /\ \A i \in 1..n : w[2 + i] = x.text[i]
        /\ w[2 + n + 1] = "}"
    <3>1. /\ w \in Seq(Char) /\ Len(w) = Len(a) + Len(x.text) + 1
          /\ \A i \in 1..Len(a) : w[i] = a[i]
          /\ \A i \in 1..Len(x.text) : w[Len(a) + i] = x.text[i]
          /\ w[Len(a) + Len(x.text) + 1] = "}"
      <4>1. a \in Seq(Char) /\ x.text \in Seq(Char) /\ "}" \in Char
        BY <1>2, <2>1, Delimiters
      <4>2. Wraps(w, Char, a, x.text, "}")
        BY <2>2, <4>1, Between
      <4>3. QED
        BY <4>2 DEF Wraps
    <3>2. QED
      BY <2>1, <3>1, Zenon
  <2>4. w[1] = "/" /\ w[2] = "{"
    <3>1. \A i \in 1..2 : w[i] = a[i]
      BY <2>3, Zenon
    <3>2. w[1] = a[1] /\ w[2] = a[2]
      BY ONLY <3>1
    <3>3. QED
      BY <2>1, <3>2, Zenon
  <2>5. \A i \in 1..n : i + 2 = 2 + i
    BY <1>2
  <2>6. n + 3 = 2 + n + 1
    BY <1>2
  <2>7. QED
    BY <1>1, <1>2, <1>4, <1>2a, <2>3, <2>4, <2>5, <2>6, Zenon DEF Writes
<1>5. CASE x.kind = "catch_all"
  <2> DEFINE a == <<"/", "{", "*">>
  <2>1. a \in Seq(Char) /\ Len(a) = 3 /\ a[1] = "/" /\ a[2] = "{" /\ a[3] = "*"
    BY Delimiters, Short, Zenon
  <2>2. w = a \o x.text \o <<"}">>
    BY <1>5 DEF Spelled
  <2> HIDE DEF a
  <2>3. /\ w \in Seq(Char) /\ Len(w) = 3 + n + 1
        /\ \A i \in 1..3 : w[i] = a[i]
        /\ \A i \in 1..n : w[3 + i] = x.text[i]
        /\ w[3 + n + 1] = "}"
    <3>1. /\ w \in Seq(Char) /\ Len(w) = Len(a) + Len(x.text) + 1
          /\ \A i \in 1..Len(a) : w[i] = a[i]
          /\ \A i \in 1..Len(x.text) : w[Len(a) + i] = x.text[i]
          /\ w[Len(a) + Len(x.text) + 1] = "}"
      <4>1. a \in Seq(Char) /\ x.text \in Seq(Char) /\ "}" \in Char
        BY <1>2, <2>1, Delimiters
      <4>2. Wraps(w, Char, a, x.text, "}")
        BY <2>2, <4>1, Between
      <4>3. QED
        BY <4>2 DEF Wraps
    <3>2. QED
      BY <2>1, <3>1, Zenon
  <2>4. w[1] = "/" /\ w[2] = "{" /\ w[3] = "*"
    <3>1. \A i \in 1..3 : w[i] = a[i]
      BY <2>3, Zenon
    <3>2. w[1] = a[1] /\ w[2] = a[2] /\ w[3] = a[3]
      BY ONLY <3>1
    <3>3. QED
      BY <2>1, <3>2, Zenon
  <2>5. \A i \in 1..n : i + 3 = 3 + i
    BY <1>2
  <2>6. n + 4 = 3 + n + 1
    BY <1>2
  <2>7. QED
    BY <1>1, <1>2, <1>5, <1>2a, <2>3, <2>4, <2>5, <2>6, Zenon DEF Writes
<1>6. QED
  BY <1>1, <1>3, <1>4, <1>5 DEF Kind

\* It is a slash and a character more at least, and no other slash.
LEMMA SpelledHasOneSlash ==
    ASSUME NEW x \in Segment, Proper(x)
    PROVE  /\ Spelled(x) \in Text /\ Len(Spelled(x)) \in Nat /\ Len(Spelled(x)) >= 2
           /\ Spelled(x)[1] = "/"
           /\ \A i \in 2..Len(Spelled(x)) : Spelled(x)[i] # "/"
<1> DEFINE w == Spelled(x)
           n == Len(x.text)
<1>0. n = Len(x.text) /\ w = Spelled(x)
  OBVIOUS
<1> HIDE DEF w, n
<1>1. Writes(x, n, w)
  BY <1>0, SpelledIs
<1> USE DEF Writes
<1>2. Len(w) \in Nat /\ Len(w) >= 2
  <2>1. Len(w) = n + 1 \/ Len(w) = n + 3 \/ Len(w) = n + 4
    BY <1>1, Zenon DEF Kind
  <2>2. n \in Nat \ {0}
    BY <1>1
  <2>3. QED
    BY ONLY <2>1, <2>2
<1>3. ASSUME NEW i \in 2..Len(w) PROVE w[i] # "/"
  <2>1. CASE x.kind = "literal"
    <3>1. i - 1 \in 1..n /\ (i - 1) + 1 = i
      BY <1>1, <2>1
    <3>2. w[(i - 1) + 1] = x.text[i - 1]
      BY <1>1, <2>1, <3>1
    <3>3. QED
      BY <1>1, <3>1, <3>2
  <2>2. CASE x.kind = "parameter"
    <3>1. CASE i = 2 \/ i = n + 3
      BY <1>1, <2>2, <3>1
    <3>2. CASE i # 2 /\ i # n + 3
      <4>0. n \in Nat \ {0} /\ Len(w) = n + 3
        BY <1>1, <2>2
      <4>1. i - 2 \in 1..n /\ (i - 2) + 2 = i
        BY <3>2, <4>0
      <4>2. w[(i - 2) + 2] = x.text[i - 2]
        BY <1>1, <2>2, <4>1
      <4>3. QED
        BY <1>1, <4>1, <4>2
    <3>3. QED
      BY <3>1, <3>2
  <2>3. CASE x.kind = "catch_all"
    <3>1. CASE i = 2 \/ i = 3 \/ i = n + 4
      BY <1>1, <2>3, <3>1
    <3>2. CASE i # 2 /\ i # 3 /\ i # n + 4
      <4>0. n \in Nat \ {0} /\ Len(w) = n + 4
        BY <1>1, <2>3
      <4>1. i - 3 \in 1..n /\ (i - 3) + 3 = i
        BY <3>2, <4>0
      <4>2. w[(i - 3) + 3] = x.text[i - 3]
        BY <1>1, <2>3, <4>1
      <4>3. QED
        BY <1>1, <4>1, <4>2
    <3>3. QED
      BY <3>1, <3>2
  <2>4. QED
    BY <1>1, <2>1, <2>2, <2>3 DEF Kind
<1>4. QED
  BY <1>1, <1>2, <1>3 DEF w, Text

\* The texts of the beginnings of a pattern, each the one before with a segment more.
LEMMA SpellingsAre ==
    ASSUME NEW p \in Seq(Segment), \A i \in DOMAIN p : Proper(p[i])
    PROVE  /\ Spellings(p) \in [0..Len(p) -> Text]
           /\ Spellings(p)[0] = <<>>
           /\ \A k \in 1..Len(p) : Spellings(p)[k] = Spellings(p)[k - 1] \o Spelled(p[k])
<1> DEFINE n == Len(p)
           G(f) == [k \in 0..n |-> IF k = 0 THEN <<>> ELSE f[k - 1] \o Spelled(p[k])]
           step == [k \in 1..n |-> [t \in Text |-> t \o Spelled(p[k])]]
<1>1. n \in Nat /\ DOMAIN p = 1..n /\ <<>> \in Text
  BY DEF Text
<1>2. \A k \in 1..n : Spelled(p[k]) \in Text
  <2>1. \A k \in 1..n : p[k] \in Segment /\ Proper(p[k])
    <3> HIDE DEF Segment
    <3>1. QED
      BY <1>1
  <2>2. QED
    BY <2>1, SpelledHasOneSlash
<1>3. \A k \in 1..n : \A t \in Text : t \o Spelled(p[k]) \in Text
  BY <1>2, ConcatProperties DEF Text
<1>4. step \in [1..n -> [Text -> Text]]
  BY <1>3
<1>5. \E f \in [0..n -> Text] : f[0] = <<>> /\ \A k \in 1..n : f[k] = step[k][f[k - 1]]
  <2> HIDE DEF n, step
  <2>1. QED
    <3> DEFINE e == <<>>
               T == Text
    <3>1. e \in T /\ n \in Nat /\ step \in [1..n -> [T -> T]]
      BY <1>1, <1>4
    <3> HIDE DEF e, T
    <3>2. step \in Advances(T, n)
      BY <3>1 DEF Advances
    <3>3. \E f : Solves(f, T, n, e, step)
      BY <3>1, <3>2, Recursion
    <3>4. QED
      BY <3>3 DEF e, T, Solves
<1>6. PICK f \in [0..n -> Text] : f[0] = <<>> /\ \A k \in 1..n : f[k] = step[k][f[k - 1]]
  BY <1>5
<1>7. \A k \in 1..n : f[k] = f[k - 1] \o Spelled(p[k])
  <2>1. TAKE k \in 1..n
  <2>2. f[k - 1] \in Text
    BY <1>1, <1>6
  <2>3. QED
    BY <1>6, <2>2
<1>8. f = G(f)
  <2>1. \A k \in 0..n : f[k] = IF k = 0 THEN <<>> ELSE f[k - 1] \o Spelled(p[k])
    <3>1. TAKE k \in 0..n
    <3>2. k = 0 \/ k \in 1..n
      BY <1>1
    <3>3. QED
      BY <1>1, <1>6, <1>7, <3>2
  <2>2. QED
    BY <1>6, <2>1
<1>9. Spellings(p) = G(Spellings(p))
  <2>1. Spellings(p) = CHOOSE g : g = G(g)
    BY DEF Spellings
  <2> HIDE DEF G
  <2>2. QED
    BY <1>8, <2>1
<1> DEFINE S == Spellings(p)
<1> HIDE DEF S
<1>10. S = [k \in 0..n |-> IF k = 0 THEN <<>> ELSE S[k - 1] \o Spelled(p[k])]
  BY <1>9 DEF S
<1>11. /\ S[0] = <<>>
       /\ \A k \in 1..n : S[k] = S[k - 1] \o Spelled(p[k])
  <2>1. \A k \in 0..n : S[k] = IF k = 0 THEN <<>> ELSE S[k - 1] \o Spelled(p[k])
    BY ONLY <1>10, Zenon
  <2>2. 0 \in 0..n /\ \A k \in 1..n : k \in 0..n /\ k # 0
    BY <1>1
  <2>3. QED
    BY ONLY <2>1, <2>2, Zenon
<1>12. \A k \in 0..n : S[k] = f[k]
  <2> DEFINE D == {k \in 0..n : S[k] # f[k]}
  <2>1. SUFFICES ASSUME D # {} PROVE FALSE
    OBVIOUS
  <2>2. PICK k \in D : \A r \in D : k <= r
    <3>1. D \in SUBSET Nat
      BY <1>1
    <3> HIDE DEF D
    <3>2. QED
      BY <2>1, <3>1, FirstPosition
  <2>3. k \in 1..n /\ k - 1 \in 0..n /\ k - 1 \notin D
    BY <1>1, <1>6, <1>11, <2>2
  <2>4. S[k - 1] = f[k - 1]
    BY <2>3
  <2>5. QED
    BY <1>7, <1>11, <2>2, <2>3, <2>4
<1>13. S \in [0..n -> Text]
  BY <1>6, <1>10, <1>12
<1>14. QED
  BY <1>11, <1>13 DEF S

\* b is a and then w, the text of a segment.
Continues(a, w, b) ==
    /\ a \in Seq(Char) /\ Len(a) \in Nat /\ b \in Seq(Char)
    /\ Len(w) \in Nat /\ Len(w) >= 2 /\ Len(b) = Len(a) + Len(w)
    /\ w[1] = "/" /\ \A i \in 2..Len(w) : w[i] # "/"
    /\ \A i \in 1..Len(a) : b[i] = a[i]
    /\ \A i \in 1..Len(w) : b[Len(a) + i] = w[i]

\* One segment more is written after the others.
LEMMA SpellingsStep ==
    ASSUME NEW p \in Seq(Segment), \A i \in DOMAIN p : Proper(p[i]), NEW k \in 1..Len(p),
           NEW a, a = Spellings(p)[k - 1], NEW b, b = Spellings(p)[k], NEW w, w = Spelled(p[k])
    PROVE  Continues(a, w, b)
<1>1. /\ Len(p) \in Nat /\ k \in DOMAIN p /\ k \in 0..Len(p) /\ k - 1 \in 0..Len(p)
  OBVIOUS
<1>2. p[k] \in Segment /\ Proper(p[k])
  <2> HIDE DEF Segment
  <2>1. QED
    BY <1>1
<1>3. /\ w \in Seq(Char) /\ Len(w) \in Nat /\ Len(w) >= 2 /\ w[1] = "/"
      /\ \A i \in 2..Len(w) : w[i] # "/"
  BY <1>2, SpelledHasOneSlash DEF Text
<1>4. a \in Seq(Char) /\ b \in Seq(Char) /\ b = a \o w
  BY <1>1, SpellingsAre DEF Text
<1>5. /\ Len(b) = Len(a) + Len(w)
      /\ \A i \in 1..(Len(a) + Len(w)) : b[i] = IF i <= Len(a) THEN a[i] ELSE w[i - Len(a)]
  <2>1. /\ Len(a \o w) = Len(a) + Len(w)
        /\ \A i \in 1..(Len(a) + Len(w)) : (a \o w)[i] = IF i <= Len(a) THEN a[i] ELSE w[i - Len(a)]
    <3>1. a \in Seq(Char) /\ w \in Seq(Char)
      BY <1>3, <1>4
    <3>2. QED
      BY <3>1, ConcatProperties, ZenonT(40)
  <2>2. QED
    BY <1>4, <2>1, Zenon
<1>6. Len(a) \in Nat /\ Len(w) \in Nat
  BY <1>3, <1>4
<1>7. \A i \in 1..Len(a) : b[i] = a[i]
  BY ONLY <1>5, <1>6
<1>8. ASSUME NEW i \in 1..Len(w) PROVE b[Len(a) + i] = w[i]
  <2> DEFINE j == Len(a) + i
  <2>1. j \in 1..(Len(a) + Len(w)) /\ ~(j <= Len(a)) /\ j - Len(a) = i
    BY ONLY <1>6, i \in 1..Len(w)
  <2> HIDE DEF j
  <2>2. b[j] = w[i]
    BY <1>5, <2>1
  <2>3. QED
    BY <2>2 DEF j
<1>9. QED
  BY <1>3, <1>4, <1>5, <1>6, <1>7, <1>8 DEF Continues

\* The text of fewer segments is the beginning of the text of more.
LEMMA SpellingsNest ==
    ASSUME NEW p \in Seq(Segment), \A i \in DOMAIN p : Proper(p[i]),
           NEW m \in 0..Len(p), NEW n \in m..Len(p)
    PROVE  /\ Len(Spellings(p)[m]) <= Len(Spellings(p)[n])
           /\ \A i \in 1..Len(Spellings(p)[m]) : Spellings(p)[n][i] = Spellings(p)[m][i]
<1> DEFINE S == Spellings(p)
           Nests(k) == Len(S[m]) <= Len(S[k]) /\ \A i \in 1..Len(S[m]) : S[k][i] = S[m][i]
           D == {k \in m..n : ~Nests(k)}
<1>1. Len(p) \in Nat /\ m \in Nat /\ n \in Nat /\ m <= n /\ n <= Len(p)
  OBVIOUS
<1>2. \A k \in 0..Len(p) : S[k] \in Seq(Char) /\ Len(S[k]) \in Nat
  <2>1. S \in [0..Len(p) -> Seq(Char)]
    BY SpellingsAre DEF Text
  <2> HIDE DEF S
  <2>2. \A k \in 0..Len(p) : S[k] \in Seq(Char)
    BY <2>1
  <2>3. QED
    BY <2>2
<1> HIDE DEF S
<1>3. D = {}
  <2>1. SUFFICES ASSUME D # {} PROVE FALSE
    OBVIOUS
  <2>2. PICK k \in D : \A r \in D : k <= r
    <3>1. D \in SUBSET Nat
      BY <1>1
    <3> HIDE DEF D
    <3>2. QED
      BY <2>1, <3>1, FirstPosition
  <2>3. Nests(m)
    BY <1>1, <1>2
  <2> HIDE DEF Nests
  <2>4. k \in (m + 1)..n /\ k - 1 \in m..n /\ k - 1 \notin D /\ ~Nests(k)
    BY <1>1, <2>2, <2>3
  <2>5. Nests(k - 1)
    BY <2>4
  <2>6. k \in 1..Len(p) /\ k - 1 \in 0..Len(p)
    BY <1>1, <2>4
  <2>7. Len(S[k - 1]) <= Len(S[k]) /\ \A i \in 1..Len(S[k - 1]) : S[k][i] = S[k - 1][i]
    <3> DEFINE a == S[k - 1]
               b == S[k]
               w == Spelled(p[k])
    <3>1. Continues(a, w, b)
      BY <2>6, SpellingsStep DEF S
    <3> HIDE DEF a, b, w
    <3>2. Len(a) <= Len(b) /\ \A i \in 1..Len(a) : b[i] = a[i]
      BY <3>1 DEF Continues
    <3>3. QED
      BY <3>2 DEF a, b
  <2>8. Len(S[m]) \in Nat /\ Len(S[k - 1]) \in Nat /\ Len(S[k]) \in Nat
    BY <1>1, <1>2, <2>6
  <2>9. Len(S[m]) <= Len(S[k - 1]) /\ \A i \in 1..Len(S[m]) : S[k - 1][i] = S[m][i]
    BY <2>5 DEF Nests
  <2>10. Nests(k)
    <3>1. \A i \in 1..Len(S[m]) : i \in 1..Len(S[k - 1])
      BY <2>8, <2>9
    <3>2. QED
      BY <2>7, <2>8, <2>9, <3>1 DEF Nests
  <2>11. QED
    BY <2>4, <2>10
<1>4. Nests(n)
  <2>1. n \in m..n /\ n \notin D
    BY <1>1, <1>3
  <2> HIDE DEF Nests
  <2>2. QED
    BY <2>1
<1>5. QED
  BY <1>4 DEF S

\* Patterns that begin alike are written alike.
LEMMA SpellingsAgree ==
    ASSUME NEW p \in Seq(Segment), \A i \in DOMAIN p : Proper(p[i]),
           NEW q \in Seq(Segment), \A i \in DOMAIN q : Proper(q[i]),
           NEW n \in 0..Len(p), n <= Len(q), \A i \in 1..n : p[i] = q[i]
    PROVE  Spellings(p)[n] = Spellings(q)[n]
<1> DEFINE S == Spellings(p)
           T == Spellings(q)
           D == {k \in 0..n : S[k] # T[k]}
<1>1. Len(p) \in Nat /\ Len(q) \in Nat /\ n \in Nat /\ n <= Len(p) /\ n <= Len(q)
  OBVIOUS
<1>2. /\ S[0] = <<>> /\ \A k \in 1..Len(p) : S[k] = S[k - 1] \o Spelled(p[k])
      /\ T[0] = <<>> /\ \A k \in 1..Len(q) : T[k] = T[k - 1] \o Spelled(q[k])
  BY SpellingsAre
<1> HIDE DEF S, T
<1>3. SUFFICES ASSUME D # {} PROVE FALSE
  BY <1>1 DEF S, T
<1>4. PICK k \in D : \A r \in D : k <= r
  <2>1. D \in SUBSET Nat
    BY <1>1
  <2> HIDE DEF D
  <2>2. QED
    BY <1>3, <2>1, FirstPosition
<1>5. k \in 1..n /\ k - 1 \in 0..n /\ k - 1 \notin D /\ S[k] # T[k]
  BY <1>1, <1>2, <1>4
<1>6. S[k - 1] = T[k - 1] /\ k \in 1..Len(p) /\ k \in 1..Len(q) /\ p[k] = q[k]
  BY <1>1, <1>5
<1>7. QED
  BY <1>2, <1>5, <1>6

\* w is a slash and t.
AfterSlash(w, t) == Len(w) = Len(t) + 1 /\ \A i \in 1..Len(t) : w[i + 1] = t[i]

\* A segment that the loop accepts is written as the text it was made from.
LEMMA AcceptedIsSpelled ==
    ASSUME NEW t \in Text, Refusal(t) = "none", \A i \in DOMAIN t : t[i] # "/"
    PROVE  Proper(SegmentOf(t)) /\ AfterSlash(Spelled(SegmentOf(t)), t)
<1> DEFINE x == SegmentOf(t)
           w == Spelled(x)
<1>1. x \in Segment /\ t # <<>>
  BY SegmentType DEF Refusal
<1>2. t \in Seq(Char) /\ Len(t) \in Nat
  BY DEF Text
<1>3. CASE ~Braced(t)
  <2>1. x = [kind |-> "literal", text |-> t]
    BY <1>3 DEF SegmentOf
  <2>2. x.kind = "literal" /\ x.text = t
    BY <2>1
  <2>3. ~HasChar(t, "{") /\ ~HasChar(t, "}")
    BY <1>1, <1>3 DEF Refusal
  <2>4. Proper(x)
    BY <1>1, <2>2, <2>3 DEF Proper, HasChar
  <2>5. Writes(x, Len(t), w)
    BY <1>1, <2>2, <2>4, SpelledIs
  <2> HIDE DEF x, w
  <2>6. AfterSlash(w, t)
    BY <2>2, <2>5 DEF Writes, AfterSlash
  <2>7. QED
    BY <2>4, <2>6 DEF x, w
<1>4. CASE Braced(t)
  <2>1. ~(Len(t) < 3) /\ t[1] = "{" /\ t[Len(t)] = "}" /\ valid_parameter_name(name(t))
    BY <1>1, <1>4 DEF Refusal
  <2> DEFINE s == IF Starred(t) THEN 3 ELSE 2
             n == Len(t) - s
  <2>2. s \in Nat /\ s >= 2 /\ s <= 3 /\ n \in Nat /\ Len(t) - 1 \in Nat /\ n = (Len(t) - 1) - s + 1
    <3>1. (s = 2 \/ s = 3) /\ Len(t) \in Nat /\ ~(Len(t) < 3)
      BY <1>2, <2>1
    <3> HIDE DEF s
    <3>2. QED
      BY ONLY <3>1
  <2>3. /\ Len(name(t)) = n
        /\ \A i \in 1..n : name(t)[i] = t[s + i - 1]
    <3>1. \A i \in s..(Len(t) - 1) : t[i] \in Char
      BY <1>2, <2>2
    <3>2. name(t) = SubSeq(t, s, Len(t) - 1)
      BY DEF name
    <3>3. name(t) # <<>>
      BY <2>1 DEF valid_parameter_name
    <3> HIDE DEF s, n
    <3>4. Len(SubSeq(t, s, Len(t) - 1)) = IF s <= Len(t) - 1 THEN (Len(t) - 1) - s + 1 ELSE 0
      BY <2>2, <3>1, SubSeqProperties
    <3>5. \A i \in 1..((Len(t) - 1) - s + 1) : SubSeq(t, s, Len(t) - 1)[i] = t[s + i - 1]
      BY <2>2, <3>1, SubSeqProperties
    <3>6. Len(name(t)) = n
      BY <2>2, <3>2, <3>4
    <3>7. QED
      BY <2>2, <3>2, <3>5, <3>6
  <2>4. x.kind = (IF Starred(t) THEN "catch_all" ELSE "parameter") /\ x.text = name(t)
    BY <1>4 DEF SegmentOf
  <2>5. x.kind # "literal"
    BY <2>4
  <2>6. Proper(x)
    BY <2>1, <2>4, <2>5 DEF Proper
  <2>7. Writes(x, n, w)
    BY <1>1, <2>3, <2>4, <2>6, SpelledIs
  <2> HIDE DEF x, w, s, n
  <2>8. CASE Starred(t)
    <3>1. x.kind = "catch_all" /\ s = 3 /\ n = Len(t) - 3
      BY <2>4, <2>8 DEF s, n
    <3>2. /\ Len(w) = n + 4 /\ w[2] = "{" /\ w[3] = "*" /\ w[n + 4] = "}"
          /\ \A i \in 1..n : w[i + 3] = x.text[i]
      BY <2>7, <3>1 DEF Writes
    <3>3. ASSUME NEW i \in 1..Len(t) PROVE w[i + 1] = t[i]
      <4>1. CASE i = 1
        <5>1. i + 1 = 2
          BY <4>1
        <5>2. w[2] = t[1]
          BY <2>1, <3>2, Zenon
        <5>3. QED
          BY <4>1, <5>1, <5>2, Zenon
      <4>2. CASE i = 2
        <5>1. i + 1 = 3
          BY <4>2
        <5>2. w[3] = t[2]
          BY <2>8, <3>2, Zenon DEF Starred
        <5>3. QED
          BY <4>2, <5>1, <5>2, Zenon
      <4>3. CASE i = Len(t)
        <5>1. i + 1 = n + 4
          BY <1>2, <3>1, <4>3
        <5>2. QED
          BY <2>1, <3>2, <4>3, <5>1
      <4>4. CASE i # 1 /\ i # 2 /\ i # Len(t)
        <5>1. i - 2 \in 1..n /\ (i - 2) + 3 = i + 1 /\ s + (i - 2) - 1 = i
          BY <1>2, <3>1, <4>4
        <5>2. w[(i - 2) + 3] = x.text[i - 2] /\ x.text[i - 2] = t[s + (i - 2) - 1]
          BY <2>3, <2>4, <3>2, <5>1
        <5>3. QED
          BY <5>1, <5>2
      <4>5. QED
        BY <4>1, <4>2, <4>3, <4>4
    <3>4. Len(w) = Len(t) + 1
      <4>1. Len(w) = n + 4
        BY <3>2
      <4>2. QED
        BY <1>2, <3>1, <4>1
    <3>5. QED
      BY <2>6, <3>3, <3>4 DEF AfterSlash, x, w
  <2>9. CASE ~Starred(t)
    <3>1. x.kind = "parameter" /\ s = 2 /\ n = Len(t) - 2
      BY <2>4, <2>9 DEF s, n
    <3>2. /\ Len(w) = n + 3 /\ w[2] = "{" /\ w[n + 3] = "}"
          /\ \A i \in 1..n : w[i + 2] = x.text[i]
      BY <2>7, <3>1 DEF Writes
    <3>3. ASSUME NEW i \in 1..Len(t) PROVE w[i + 1] = t[i]
      <4>1. CASE i = 1
        <5>1. i + 1 = 2
          BY <4>1
        <5>2. w[2] = t[1]
          BY <2>1, <3>2, Zenon
        <5>3. QED
          BY <4>1, <5>1, <5>2, Zenon
      <4>2. CASE i = Len(t)
        <5>1. i + 1 = n + 3
          BY <1>2, <3>1, <4>2
        <5>2. QED
          BY <2>1, <3>2, <4>2, <5>1
      <4>3. CASE i # 1 /\ i # Len(t)
        <5>1. i - 1 \in 1..n /\ (i - 1) + 2 = i + 1 /\ s + (i - 1) - 1 = i
          BY <1>2, <3>1, <4>3
        <5>2. w[(i - 1) + 2] = x.text[i - 1] /\ x.text[i - 1] = t[s + (i - 1) - 1]
          BY <2>3, <2>4, <3>2, <5>1
        <5>3. QED
          BY <5>1, <5>2
      <4>4. QED
        BY <4>1, <4>2, <4>3
    <3>4. Len(w) = Len(t) + 1
      <4>1. Len(w) = n + 3
        BY <3>2
      <4>2. QED
        BY <1>2, <3>1, <4>1
    <3>5. QED
      BY <2>6, <3>3, <3>4 DEF AfterSlash, x, w
  <2>10. QED
    BY <2>8, <2>9
<1>5. QED
  BY <1>3, <1>4

\* The loop takes t for x, whatever the segments before it.
Reads(t, x) ==
    /\ SegmentOf(t) = x /\ t # <<>>
    /\ IF x.kind = "literal"
       THEN ~Braced(t) /\ ~HasChar(t, "{") /\ ~HasChar(t, "}")
       ELSE /\ Braced(t) /\ ~(Len(t) < 3) /\ t[1] = "{" /\ t[Len(t)] = "}"
            /\ name(t) = x.text /\ (Starred(t) <=> x.kind = "catch_all")

\* What a proper segment is written as is read as that segment.
LEMMA SpelledIsRead ==
    ASSUME NEW x \in Segment, Proper(x), NEW w, w = Spelled(x), NEW t \in Text, AfterSlash(w, t)
    PROVE  Reads(t, x)
<1> DEFINE n == Len(x.text)
<1>1. Writes(x, n, w)
  BY SpelledIs
<1>2. /\ x.text \in Seq(Char) /\ t \in Seq(Char) /\ Len(t) \in Nat /\ DOMAIN x.text = 1..n
      /\ DOMAIN t = 1..Len(t)
  <2>1. x.text \in Seq(Char) /\ t \in Seq(Char)
    BY <1>1 DEF Text, Writes
  <2>2. QED
    BY <2>1
<1>3. n \in Nat \ {0} /\ Len(w) = Len(t) + 1 /\ \A i \in 1..Len(t) : w[i + 1] = t[i]
  BY <1>1 DEF Writes, AfterSlash
<1>4. x = [kind |-> x.kind, text |-> x.text]
  BY DEF Segment
<1> HIDE DEF n
<1>5. CASE x.kind = "literal"
  <2>1. Len(w) = n + 1 /\ \A i \in 1..n : w[i + 1] = x.text[i]
    BY <1>1, <1>5 DEF Writes
  <2>2. Len(t) = n
    BY <1>2, <1>3, <2>1
  <2>3. t = x.text
    <3>1. \A i \in 1..n : t[i] = x.text[i]
      BY <1>3, <2>1, <2>2
    <3>2. Len(t) = Len(x.text)
      BY <2>2 DEF n
    <3>3. QED
      BY <1>2, <2>2, <3>1, <3>2, SeqEqual
  <2>4. ~HasChar(t, "{") /\ ~HasChar(t, "}")
    BY <1>5, <2>3 DEF Proper
  <2>5. 1 \in DOMAIN t /\ Len(t) \in DOMAIN t
    BY <1>2, <1>3, <2>2
  <2>6. ~Braced(t) /\ t # <<>>
    <3>1. \A i \in DOMAIN t : t[i] # "{" /\ t[i] # "}"
      BY <2>4, Zenon DEF HasChar
    <3>2. t[1] # "{" /\ t[Len(t)] # "}"
      BY <2>5, <3>1
    <3>3. QED
      <4>1. ~Braced(t)
        BY <3>2, Zenon DEF Braced
      <4>2. t # <<>>
        BY <1>2, <2>5
      <4>3. QED
        BY <4>1, <4>2
  <2>7. SegmentOf(t) = x
    BY <1>4, <1>5, <2>3, <2>6 DEF SegmentOf
  <2>8. QED
    BY <1>5, <2>4, <2>6, <2>7 DEF Reads
<1>6. CASE x.kind # "literal"
  <2>0. x.kind = "parameter" \/ x.kind = "catch_all"
    BY <1>1, <1>6 DEF Writes, Kind
  <2> DEFINE s == IF x.kind = "catch_all" THEN 3 ELSE 2
  <2>1. (s = 3 /\ x.kind = "catch_all") \/ (s = 2 /\ x.kind = "parameter")
    BY <2>0
  <2> HIDE DEF s
  <2>2. /\ Len(w) = n + s + 1 /\ w[2] = "{" /\ w[n + s + 1] = "}"
        /\ s = 3 => w[3] = "*"
        /\ \A i \in 1..n : w[i + s] = x.text[i]
    <3>1. CASE s = 3 /\ x.kind = "catch_all"
      <4>1. /\ Len(w) = n + 4 /\ w[2] = "{" /\ w[3] = "*" /\ w[n + 4] = "}"
            /\ \A i \in 1..n : w[i + 3] = x.text[i]
        BY <1>1, <3>1 DEF Writes
      <4>2. n + s + 1 = n + 4
        BY <1>3, <3>1
      <4>3. w[n + s + 1] = "}" /\ Len(w) = n + s + 1
        BY <4>1, <4>2
      <4>4. \A i \in 1..n : w[i + s] = x.text[i]
        BY <3>1, <4>1
      <4>5. QED
        BY <3>1, <4>1, <4>3, <4>4
    <3>2. CASE s = 2 /\ x.kind = "parameter"
      <4>1. /\ Len(w) = n + 3 /\ w[2] = "{" /\ w[n + 3] = "}"
            /\ \A i \in 1..n : w[i + 2] = x.text[i]
        BY <1>1, <3>2 DEF Writes
      <4>2. n + s + 1 = n + 3
        BY <1>3, <3>2
      <4>3. w[n + s + 1] = "}" /\ Len(w) = n + s + 1
        BY <4>1, <4>2
      <4>4. \A i \in 1..n : w[i + s] = x.text[i]
        BY <3>2, <4>1
      <4>5. s # 3
        BY <3>2
      <4>6. QED
        BY <4>1, <4>3, <4>4, <4>5, Zenon
    <3>3. QED
      BY <2>1, <3>1, <3>2
  <2>3. s \in Nat /\ (s = 2 \/ s = 3) /\ Len(t) = n + s
    <3>1. s = 2 \/ s = 3
      BY <2>1
    <3>2. Len(w) = n + s + 1 /\ Len(w) = Len(t) + 1
      BY <1>3, <2>2
    <3>3. QED
      BY ONLY <1>2, <1>3, <3>1, <3>2
  <2>4. /\ 1 \in 1..Len(t) /\ 2 \in 1..Len(t) /\ Len(t) \in 1..Len(t) /\ ~(Len(t) < 3)
    BY <1>2, <1>3, <2>3
  <2>5. t[1] = "{" /\ t[Len(t)] = "}" /\ (s = 3 => t[2] = "*")
    <3>1. w[1 + 1] = t[1] /\ w[2 + 1] = t[2] /\ w[Len(t) + 1] = t[Len(t)]
      BY <1>3, <2>4
    <3>2. 1 + 1 = 2 /\ 2 + 1 = 3 /\ Len(t) + 1 = n + s + 1
      BY <1>3, <2>3
    <3>3. QED
      BY <2>2, <3>1, <3>2
  <2>6. ASSUME NEW i \in 1..n PROVE i + s - 1 \in 1..Len(t) /\ t[i + s - 1] = x.text[i]
    <3> DEFINE j == i + s - 1
    <3>1. j \in 1..Len(t) /\ j + 1 = i + s
      BY <1>3, <2>3
    <3> HIDE DEF j
    <3>2. w[j + 1] = t[j] /\ w[i + s] = x.text[i]
      BY <1>3, <2>2, <3>1
    <3>3. j \in 1..Len(t) /\ t[j] = x.text[i]
      BY <3>1, <3>2
    <3>4. QED
      BY <3>3 DEF j
  <2>7. valid_parameter_name(x.text)
    BY <1>6 DEF Proper
  <2>8. Starred(t) <=> x.kind = "catch_all"
    <3>1. CASE s = 3 /\ x.kind = "catch_all"
      BY <2>5, <3>1 DEF Starred
    <3>2. CASE s = 2 /\ x.kind = "parameter"
      <4>1. 1 \in 1..n /\ 1 + s - 1 = 2
        BY <1>3, <3>2
      <4>2. t[2] = x.text[1] /\ 1 \in DOMAIN x.text
        BY <1>2, <2>6, <4>1
      <4>3. t[2] # "*"
        BY <2>7, <4>2, Delimiters DEF valid_parameter_name
      <4>4. QED
        BY <3>2, <4>3 DEF Starred
    <3>3. QED
      BY <2>1, <3>1, <3>2
  <2>9. name(t) = x.text
    <3> DEFINE v == SubSeq(t, s, Len(t) - 1)
    <3>1. name(t) = v
      <4>1. Starred(t) => s = 3
        BY <2>1, <2>8
      <4>2. ~Starred(t) => s = 2
        BY <2>1, <2>8
      <4>3. QED
        BY <4>1, <4>2 DEF name
    <3>2. \A i \in s..(Len(t) - 1) : t[i] \in Char
      BY <1>2, <2>3
    <3>3. s <= Len(t) - 1 /\ (Len(t) - 1) - s + 1 = n /\ Len(t) - 1 \in Nat
      BY <1>3, <2>3
    <3>4. /\ v \in Seq(Char)
          /\ Len(v) = IF s <= Len(t) - 1 THEN (Len(t) - 1) - s + 1 ELSE 0
          /\ \A i \in 1..((Len(t) - 1) - s + 1) : v[i] = t[s + i - 1]
      BY <2>3, <3>2, <3>3, SubSeqProperties
    <3> HIDE DEF v
    <3>5. Len(v) = n /\ \A i \in 1..n : v[i] = t[s + i - 1]
      BY <3>3, <3>4
    <3>6. \A i \in 1..n : v[i] = x.text[i]
      <4>1. TAKE i \in 1..n
      <4>2. s + i - 1 = i + s - 1
        BY <2>3
      <4>3. QED
        BY <2>6, <3>5, <4>2
    <3>7. v = x.text
      <4>1. Len(v) = Len(x.text)
        BY <3>5 DEF n
      <4>2. QED
        BY <1>2, <3>4, <3>5, <3>6, <4>1, SeqEqual
    <3>8. QED
      BY <3>1, <3>7
  <2>10. Braced(t)
    BY <2>5 DEF Braced
  <2>11. SegmentOf(t) = x
    <3>1. CASE x.kind = "catch_all"
      BY <1>4, <2>8, <2>9, <2>10, <3>1 DEF SegmentOf
    <3>2. CASE x.kind = "parameter"
      BY <1>4, <2>8, <2>9, <2>10, <3>2 DEF SegmentOf
    <3>3. QED
      BY <2>0, <3>1, <3>2
  <2>12. t # <<>>
    BY <1>2, <2>4
  <2>13. QED
    BY <1>6, <2>4, <2>5, <2>8, <2>9, <2>10, <2>11, <2>12 DEF Reads
<1>7. QED
  BY <1>5, <1>6

\* The placeholders of a pattern with a segment more.
LEMMA PlaceholdersGrow ==
    ASSUME NEW p \in Seq(Segment), NEW x \in Segment, NEW P, P = Append(p, x)
    PROVE  /\ Cardinality(Placeholders(p)) \in Nat
           /\ Placeholders(P) = IF x.kind = "literal" THEN Placeholders(p)
                                ELSE Placeholders(p) \cup {Len(p) + 1}
           /\ Cardinality(Placeholders(P)) =
                 Cardinality(Placeholders(p)) + IF x.kind = "literal" THEN 0 ELSE 1
<1> DEFINE n == Len(p)
<1>1. n \in Nat /\ DOMAIN p = 1..n
  OBVIOUS
<1>2. /\ DOMAIN P = 1..(n + 1)
      /\ \A i \in 1..n : P[i] = p[i]
      /\ P[n + 1] = x
  BY AppendProperties, LenProperties
<1> HIDE DEF n
<1>3. IsFiniteSet(Placeholders(p)) /\ Cardinality(Placeholders(p)) \in Nat /\ n + 1 \notin Placeholders(p)
  <2>1. Placeholders(p) \in SUBSET (1..n)
    BY <1>1 DEF Placeholders
  <2>2. IsFiniteSet(1..n)
    <3>1. 1 \in Int /\ n \in Int
      BY <1>1
    <3>2. QED
      BY <3>1, FS_Interval
  <2>3. IsFiniteSet(Placeholders(p))
    BY <2>1, <2>2, FS_Subset
  <2>4. QED
    BY <1>1, <2>1, <2>3, FS_CardinalityType
<1>4. \A i : i \in Placeholders(P) <=> i \in Placeholders(p) \/ (i = n + 1 /\ x.kind # "literal")
  <2>1. TAKE i
  <2>2. i \in Placeholders(P) <=> i \in 1..(n + 1) /\ P[i].kind # "literal"
    BY <1>2 DEF Placeholders
  <2>3. i \in Placeholders(p) <=> i \in 1..n /\ p[i].kind # "literal"
    BY <1>1 DEF Placeholders
  <2>4. i \in 1..(n + 1) <=> i \in 1..n \/ i = n + 1
    BY <1>1
  <2>5. i \in 1..n => i # n + 1
    BY <1>1
  <2>6. QED
    BY <1>2, <2>2, <2>3, <2>4, <2>5, Zenon
<1>5. Placeholders(P) = IF x.kind = "literal" THEN Placeholders(p) ELSE Placeholders(p) \cup {n + 1}
  BY <1>4
<1>6. Cardinality(Placeholders(p) \cup {n + 1}) = Cardinality(Placeholders(p)) + 1
  BY <1>3, FS_AddElement
<1>7. QED
  BY <1>3, <1>5, <1>6 DEF n

\* w is what s begins with, up to n.
Begins(w, s, n) == w \in Seq(Char) /\ Len(w) = n /\ \A i \in 1..n : w[i] = s[i]

\* The segments are written as the part of the source that was read.
Drawn ==
    /\ error = "scan" =>
          /\ \A i \in DOMAIN segments : Proper(segments[i])
          /\ Cardinality(Placeholders(segments)) <= MaxParameters
          /\ source[offset - 1] = "/"
          /\ Begins(Spellings(segments)[Len(segments)], source, offset - 2)
    /\ error = "none" /\ source # <<>> => Permitted(segments) /\ Rendered(segments) = source

\* The beginning of the text grows by a slash and the piece that follows it.
LEMMA BeginsGrows ==
    ASSUME NEW s \in Text, NEW from \in 2..Len(s), NEW end \in from..(Len(s) + 1),
           s[from - 1] = "/", NEW a, Begins(a, s, from - 2), NEW w, NEW b, Continues(a, w, b),
           AfterSlash(w, SubSeq(s, from, end - 1))
    PROVE  Begins(b, s, end - 1)
<1> DEFINE t == SubSeq(s, from, end - 1)
           m == Len(s)
<1>1. m \in Nat /\ m = Len(s) /\ \A i \in 1..m : s[i] \in Char
  BY DEF Text
<1> HIDE DEF m
<1>2. from \in Nat /\ from >= 2 /\ end \in Nat /\ end >= from /\ end <= m + 1
  BY <1>1
<1>3. Len(t) = end - from /\ \A i \in 1..(end - from) : t[i] = s[from + i - 1]
  <2>1. \A i \in from..(end - 1) : s[i] \in Char
    BY <1>1, <1>2
  <2>2. /\ Len(t) = IF from <= end - 1 THEN (end - 1) - from + 1 ELSE 0
        /\ \A i \in 1..((end - 1) - from + 1) : t[i] = s[from + i - 1]
    BY <1>2, <2>1, SubSeqProperties
  <2>3. (end - 1) - from + 1 = end - from
    BY <1>2
  <2>4. (IF from <= end - 1 THEN (end - 1) - from + 1 ELSE 0) = end - from
    BY <1>2
  <2>5. QED
    BY <2>2, <2>3, <2>4
<1>4. Len(w) = Len(t) + 1 /\ \A i \in 1..Len(t) : w[i + 1] = t[i]
  BY DEF AfterSlash
<1> HIDE DEF t
<1>5. Len(a) = from - 2 /\ \A i \in 1..(from - 2) : a[i] = s[i]
  BY DEF Begins
<1>6. /\ b \in Seq(Char) /\ Len(b) = Len(a) + Len(w) /\ w[1] = "/"
      /\ \A i \in 1..Len(a) : b[i] = a[i]
      /\ \A i \in 1..Len(w) : b[Len(a) + i] = w[i]
  BY DEF Continues
<1>7. Len(w) = end - from + 1 /\ Len(b) = end - 1
  BY <1>2, <1>3, <1>4, <1>5, <1>6
<1>8. ASSUME NEW i \in 1..(end - 1) PROVE b[i] = s[i]
  <2>1. CASE i <= from - 2
    <3>1. i \in 1..(from - 2) /\ i \in 1..Len(a)
      BY <1>2, <1>5, <2>1
    <3>2. QED
      BY <1>5, <1>6, <3>1
  <2>2. CASE i = from - 1
    <3>1. i = Len(a) + 1 /\ 1 \in 1..Len(w)
      BY <1>2, <1>5, <1>7, <2>2
    <3>2. QED
      BY <1>6, <2>2, <3>1
  <2>3. CASE i > from - 1
    <3> DEFINE j == i - from + 1
    <3>1. /\ j \in 1..(end - from) /\ j + 1 \in 1..Len(w) /\ Len(a) + (j + 1) = i
          /\ from + j - 1 = i
      BY <1>2, <1>5, <1>7, <2>3
    <3> HIDE DEF j
    <3>2. b[Len(a) + (j + 1)] = w[j + 1]
      BY <1>6, <3>1
    <3>3. w[j + 1] = t[j]
      BY <1>3, <1>4, <3>1
    <3>4. t[j] = s[from + j - 1]
      BY <1>3, <3>1
    <3>5. QED
      BY <3>1, <3>2, <3>3, <3>4
  <2>4. QED
    BY <1>2, <2>1, <2>2, <2>3
<1>9. QED
  BY <1>6, <1>7, <1>8 DEF Begins

LEMMA EnterDrawn == ASSUME GrammarInv, Enter PROVE Drawn'
<1>1. /\ error = "start" /\ UNCHANGED <<source, offset, segments>>
      /\ offset = 2 /\ segments = <<>> /\ source \in Text
      /\ error' \in {"missing_leading_slash", "none", "trailing_slash", "scan"}
  BY DEF Enter, GrammarInv, GrammarTypeOK
<1>2. /\ <<>> \in Seq(Segment) /\ Len(<<>>) = 0 /\ DOMAIN <<>> = {}
      /\ Placeholders(<<>>) = {} /\ Cardinality(Placeholders(<<>>)) = 0
  <2>1. Placeholders(<<>>) = {}
    BY DEF Placeholders
  <2>2. QED
    BY <2>1, FS_EmptySet
<1>3. MaxSegments \in Nat /\ MaxParameters \in Nat
  BY GrammarAssumption
<1>4. Spellings(<<>>)[0] = <<>>
  BY <1>2, SpellingsAre
<1>5. CASE error' = "scan"
  <2>1. source[1] = "/"
    BY <1>1, <1>5 DEF Enter
  <2>2. Begins(<<>>, source, 0)
    BY <1>2 DEF Begins
  <2>3. offset' - 1 = 1 /\ offset' - 2 = 0
    BY <1>1
  <2>4. QED
    BY <1>1, <1>2, <1>3, <1>4, <1>5, <2>1, <2>2, <2>3 DEF Drawn
<1>6. CASE error' = "none"
  <2>1. source # <<>> => source = <<"/">>
    BY <1>1, <1>6 DEF Enter
  <2>2. Permitted(<<>>) /\ Rendered(<<>>) = <<"/">>
    BY <1>2, <1>3 DEF Permitted, Sound, Rendered
  <2>3. QED
    BY <1>1, <1>6, <2>1, <2>2 DEF Drawn
<1>7. QED
  BY <1>1, <1>5, <1>6 DEF Drawn

\* A turn of the loop that accepts its segment, and what the segments are written as then.
LEMMA ScanSegmentDrawn == ASSUME GrammarInv, Drawn, ScanSegment PROVE Drawn'
<1> DEFINE t == segment_text
           x == SegmentOf(t)
           k == Len(segments)
           P == Append(segments, x)
           a == Spellings(segments)[k]
           b == Spellings(P)[k + 1]
           w == Spelled(x)
<1>1. /\ error = "scan" /\ source' = source
      /\ source \in Text /\ Len(source) \in Nat /\ source # <<>>
      /\ offset \in 2..Len(source) /\ offset \in 1..Len(source)
      /\ segments \in Seq(Segment) /\ k \in Nat
  BY DEF ScanSegment, GrammarInv, GrammarTypeOK, Text
<1>2. /\ separator \in offset..(Len(source) + 1)
      /\ ~Final => source[separator] = "/"
      /\ \A j \in offset..(separator - 1) : source[j] # "/"
  BY <1>1, FindInFinds DEF separator, Final
<1>3. t \in Text /\ \A i \in DOMAIN t : t[i] # "/"
  <2>1. separator - 1 \in Nat /\ separator - 1 <= Len(source) /\ offset \in Nat \ {0}
    BY <1>1, <1>2
  <2>2. t \in Text
    BY <1>1, <2>1, PieceIsText DEF segment_text
  <2>3. ASSUME NEW i \in DOMAIN t PROVE t[i] # "/"
    <3>1. \A j \in offset..(separator - 1) : source[j] \in Char
      BY <1>1, <2>1 DEF Text
    <3>2. i \in 1..((separator - 1) - offset + 1) /\ t[i] = source[offset + i - 1]
      BY <1>1, <2>1, <3>1, SubSeqProperties DEF segment_text
    <3>3. offset + i - 1 \in offset..(separator - 1)
      BY <1>1, <2>1, <3>2
    <3>4. QED
      BY <1>2, <3>2, <3>3
  <2>4. QED
    BY <2>2, <2>3
<1>4. CASE Refusal(t) # "none"
  <2>1. error' # "scan" /\ error' # "none"
    BY <1>4, RefusalType DEF ScanSegment, Errors
  <2>2. QED
    BY <2>1 DEF Drawn
<1>5. CASE Refusal(t) = "none"
  <2>1. /\ segments' = P
        /\ IF Final THEN error' = "none" /\ UNCHANGED offset
                    ELSE offset' = separator + 1 /\ UNCHANGED error
    BY <1>5 DEF ScanSegment
  <2>2. x \in Segment /\ Proper(x) /\ AfterSlash(w, t)
    BY <1>3, <1>5, SegmentType, AcceptedIsSpelled
  <2>3. /\ \A i \in DOMAIN segments : Proper(segments[i])
        /\ Cardinality(Placeholders(segments)) <= MaxParameters
        /\ source[offset - 1] = "/"
        /\ Begins(a, source, offset - 2)
    BY <1>1 DEF Drawn
  <2>4. /\ P \in Seq(Segment) /\ Len(P) = k + 1 /\ DOMAIN P = 1..(k + 1)
        /\ \A i \in 1..k : P[i] = segments[i]
        /\ P[k + 1] = x
    BY <1>1, <2>2, AppendProperties, LenProperties
  <2>5. Cardinality(Placeholders(P)) <= MaxParameters
    <3>0. /\ Cardinality(Placeholders(segments)) \in Nat
          /\ Cardinality(Placeholders(P)) =
                Cardinality(Placeholders(segments)) + IF x.kind = "literal" THEN 0 ELSE 1
      BY <1>1, <2>2, PlaceholdersGrow
    <3>1. CASE ~Braced(t)
      <4>1. x.kind = "literal"
        BY <3>1 DEF SegmentOf
      <4>2. QED
        BY <2>3, <3>0, <4>1
    <3>2. CASE Braced(t)
      <4>1. Cardinality(Placeholders(segments)) # MaxParameters
        BY <1>5, <3>2 DEF Refusal
      <4>2. QED
        BY <2>3, <3>0, <4>1, GrammarAssumption
    <3>3. QED
      BY <3>1, <3>2
  <2> HIDE DEF x, P, a, b, w, k
  <2>6. \A i \in DOMAIN P : Proper(P[i])
    <3>1. TAKE i \in DOMAIN P
    <3>2. (i \in 1..k /\ i \in DOMAIN segments) \/ i = k + 1
      BY <1>1, <2>4 DEF k
    <3>3. QED
      BY <2>2, <2>3, <2>4, <3>2
  <2>7. Continues(a, w, b)
    <3>1. k + 1 \in 1..Len(P) /\ (k + 1) - 1 = k /\ k \in 0..Len(segments) /\ k <= Len(P)
      BY <1>1, <2>4 DEF k
    <3>2. a = Spellings(P)[k]
      BY <1>1, <2>3, <2>4, <2>6, <3>1, SpellingsAgree DEF a
    <3>3. w = Spelled(P[k + 1])
      BY <2>4 DEF w
    <3>4. b = Spellings(P)[k + 1]
      BY DEF b
    <3>5. QED
      BY <2>4, <2>6, <3>1, <3>2, <3>3, <3>4, SpellingsStep
  <2>8. Begins(b, source, separator - 1)
    <3>1. AfterSlash(w, SubSeq(source, offset, separator - 1))
      BY <2>2 DEF segment_text
    <3>2. QED
      BY <1>1, <1>2, <2>3, <2>7, <3>1, BeginsGrows
  <2>9. CASE Final
    <3>1. separator - 1 = Len(source) /\ error' = "none"
      BY <1>1, <2>1, <2>9 DEF Final
    <3>2. b = source
      <4>1. b \in Seq(Char) /\ Len(b) = Len(source) /\ \A i \in 1..Len(source) : b[i] = source[i]
        BY <2>8, <3>1 DEF Begins
      <4>2. QED
        BY <1>1, <4>1, SeqEqual DEF Text
    <3>3. Rendered(P) = source
      <4>1. P # <<>>
        BY <1>1, <2>4
      <4>2. QED
        BY <2>4, <3>2, <4>1 DEF Rendered, b
    <3>4. Sound(P) /\ Len(P) <= MaxSegments
      <4>1. GrammarInv'
        BY ScanSegmentInv
      <4>2. QED
        BY <2>1, <4>1 DEF GrammarInv, GrammarTypeOK
    <3>5. Permitted(P)
      BY <2>5, <2>6, <3>4 DEF Permitted
    <3>6. QED
      BY <1>1, <2>1, <3>1, <3>3, <3>5 DEF Drawn
  <2>10. CASE ~Final
    <3>1. /\ offset' = separator + 1 /\ error' = "scan"
          /\ offset' - 1 = separator /\ offset' - 2 = separator - 1
      BY <1>1, <1>2, <2>1, <2>10
    <3>2. Spellings(P)[Len(P)] = b
      BY <2>4 DEF b
    <3>3. QED
      BY <1>1, <1>2, <2>1, <2>5, <2>6, <2>8, <2>10, <3>1, <3>2 DEF Drawn
  <2>11. QED
    BY <2>9, <2>10
<1>6. QED
  BY <1>4, <1>5

\* s is a, then the segment w, and then its end or one more segment.
Holds(s, a, w, b, last) ==
    /\ Continues(a, w, b)
    /\ \A i \in 1..Len(b) : s[i] = b[i]
    /\ IF last THEN Len(b) = Len(s) ELSE Len(b) < Len(s) /\ s[Len(b) + 1] = "/"

\* Every segment of a pattern has its place in the text of the pattern.
LEMMA RenderedHolds ==
    ASSUME NEW q \in Seq(Segment), \A i \in DOMAIN q : Proper(q[i]),
           NEW k \in 1..Len(q), NEW a, a = Spellings(q)[k - 1], NEW b, b = Spellings(q)[k],
           NEW w, w = Spelled(q[k])
    PROVE  Holds(Rendered(q), a, w, b, k = Len(q))
<1> DEFINE n == Len(q)
           s == Rendered(q)
<1>1. n \in Nat /\ k \in 1..n /\ n \in 0..n /\ k \in 0..n /\ n \in k..n
  OBVIOUS
<1>2. s = Spellings(q)[n]
  <2>1. q # <<>>
    BY <1>1
  <2>2. QED
    BY <2>1 DEF Rendered
<1>3. Continues(a, w, b)
  BY SpellingsStep
<1>4. Len(b) <= Len(s) /\ \A i \in 1..Len(b) : s[i] = b[i]
  BY <1>1, <1>2, SpellingsNest
<1>5. CASE k = n
  <2>1. Len(b) = Len(s)
    BY <1>2, <1>5
  <2>2. QED
    BY <1>3, <1>4, <1>5, <2>1 DEF Holds
<1>6. CASE k # n
  <2> DEFINE c == Spellings(q)[k + 1]
             v == Spelled(q[k + 1])
  <2>1. k + 1 \in 1..n /\ (k + 1) - 1 = k /\ k + 1 \in 0..n /\ n \in (k + 1)..n
    BY <1>1, <1>6
  <2>2. Continues(b, v, c)
    BY <2>1, SpellingsStep
  <2>3. Len(c) <= Len(s) /\ \A i \in 1..Len(c) : s[i] = c[i]
    BY <1>2, <2>1, SpellingsNest
  <2>4. Len(s) \in Nat
    <3>1. Spellings(q)[n] \in Seq(Char)
      BY <1>1, SpellingsAre DEF Text
    <3>2. QED
      BY <1>2, <3>1
  <2> HIDE DEF c, v, s
  <2>5. Len(b) \in Nat /\ Len(v) \in Nat /\ Len(v) >= 2 /\ Len(c) = Len(b) + Len(v)
    BY <2>2 DEF Continues
  <2>6. c[Len(b) + 1] = "/"
    <3>1. 1 \in 1..Len(v)
      BY <2>5
    <3>2. QED
      BY <2>2, <3>1 DEF Continues
  <2>7. Len(b) < Len(s) /\ Len(b) + 1 \in 1..Len(c)
    BY <2>3, <2>4, <2>5
  <2>8. s[Len(b) + 1] = "/"
    BY <2>3, <2>6, <2>7
  <2>9. QED
    BY <1>3, <1>4, <1>6, <2>7, <2>8 DEF Holds, s
<1>7. QED
  BY <1>5, <1>6

\* The loop has read the segments that q begins with.
Follows(q) ==
    \/ error \in {"start", "none"}
    \/ /\ error = "scan" /\ Len(segments) < Len(q)
       /\ \A i \in DOMAIN segments : segments[i] = q[i]
       /\ offset = Len(Spellings(q)[Len(segments)]) + 2

LEMMA EnterFollows ==
    ASSUME GrammarInv, Enter, NEW q \in Seq(Segment), Permitted(q), source = Rendered(q)
    PROVE  Follows(q)'
<1>1. /\ error = "start" /\ UNCHANGED <<source, offset, segments>>
      /\ offset = 2 /\ segments = <<>> /\ source \in Text
  BY DEF Enter, GrammarInv, GrammarTypeOK
<1>2. \A i \in DOMAIN q : Proper(q[i])
  BY DEF Permitted
<1>3. CASE q = <<>>
  <2>1. source = <<"/">> /\ source # <<>> /\ source[1] = "/"
    BY <1>3 DEF Rendered
  <2>2. error' = "none"
    BY <2>1 DEF Enter
  <2>3. QED
    BY <2>2 DEF Follows
<1>4. CASE q # <<>>
  <2> DEFINE n == Len(q)
             a == Spellings(q)[n - 1]
             b == Spellings(q)[n]
             w == Spelled(q[n])
  <2>1. n \in Nat /\ n \in 1..n /\ 1 \in 1..n /\ 1 - 1 = 0
    BY <1>4
  <2>2. Holds(source, a, w, b, TRUE)
    BY <1>2, <2>1, RenderedHolds
  <2>3. /\ Len(a) \in Nat /\ Len(w) \in Nat /\ Len(w) >= 2
        /\ Len(source) = Len(a) + Len(w) /\ Len(b) = Len(source)
        /\ b[Len(a) + Len(w)] # "/" /\ \A i \in 1..Len(b) : source[i] = b[i]
    <3>1. /\ Len(a) \in Nat /\ Len(w) \in Nat /\ Len(w) >= 2
          /\ Len(b) = Len(a) + Len(w) /\ Len(b) = Len(source)
          /\ \A i \in 1..Len(b) : source[i] = b[i]
          /\ \A i \in 2..Len(w) : w[i] # "/"
          /\ \A i \in 1..Len(w) : b[Len(a) + i] = w[i]
      BY <2>2 DEF Holds, Continues
    <3> HIDE DEF a, b, w
    <3>2. Len(w) \in 1..Len(w) /\ Len(w) \in 2..Len(w)
      BY <3>1
    <3>3. QED
      BY <3>1, <3>2
  <2> DEFINE a1 == Spellings(q)[0]
             b1 == Spellings(q)[1]
             w1 == Spelled(q[1])
  <2>4. Holds(source, a1, w1, b1, 1 = n)
    BY <1>2, <2>1, RenderedHolds
  <2>5. a1 = <<>> /\ Len(a1) = 0
    <3>1. a1 = <<>>
      BY <1>2, SpellingsAre
    <3>2. QED
      BY <3>1
  <2> HIDE DEF a, b, w, a1, b1, w1
  <2>6. source[1] = "/"
    <3>1. /\ w1[1] = "/" /\ Len(w1) \in Nat /\ Len(w1) >= 2 /\ Len(b1) = Len(a1) + Len(w1)
          /\ \A i \in 1..Len(b1) : source[i] = b1[i]
          /\ \A i \in 1..Len(w1) : b1[Len(a1) + i] = w1[i]
      BY <2>4 DEF Holds, Continues
    <3>2. 1 \in 1..Len(w1) /\ 1 \in 1..Len(b1) /\ Len(a1) + 1 = 1
      BY <2>5, <3>1
    <3>3. b1[Len(a1) + 1] = w1[1]
      BY <3>1, <3>2
    <3>4. QED
      BY <3>1, <3>2, <3>3
  <2>7. Len(source) \in Nat /\ Len(source) >= 2 /\ Len(source) \in 1..Len(b)
    BY <2>3
  <2>8. source[Len(source)] # "/"
    BY <2>3, <2>7
  <2>9. source # <<>> /\ source # <<"/">>
    <3>1. Len(<<>>) = 0 /\ Len(<<"/">>) = 1
      OBVIOUS
    <3> DEFINE m == Len(source)
    <3>2. m \in Nat /\ m >= 2
      BY <2>7
    <3> HIDE DEF m
    <3>3. m # 0 /\ m # 1
      BY <3>2
    <3>4. QED
      BY <3>1, <3>3, Zenon DEF m
  <2>10. error' = "scan"
    BY <2>6, <2>8, <2>9 DEF Enter
  <2>11. segments' = <<>> /\ Len(segments') = 0 /\ 0 < Len(q) /\ offset' = 2 /\ DOMAIN segments' = {}
    BY <1>1, <2>1
  <2>12. Len(Spellings(q)[0]) + 2 = 2
    BY <2>5 DEF a1
  <2>13. QED
    BY <2>10, <2>11, <2>12 DEF Follows
<1>5. QED
  BY <1>3, <1>4

\* The piece that the loop cuts out next is the text of the segment that stands there.
LEMMA HeldIsCut ==
    ASSUME NEW s \in Text, NEW a, NEW w, NEW b, NEW last \in BOOLEAN, Holds(s, a, w, b, last),
           NEW from, from = Len(a) + 2, from <= Len(s), NEW end, end = FindIn(s, "/", from)
    PROVE  /\ end = Len(b) + 1
           /\ end = Len(s) + 1 <=> last
           /\ SubSeq(s, from, end - 1) \in Text
           /\ AfterSlash(w, SubSeq(s, from, end - 1))
<1> DEFINE e == Len(b)
           m == Len(s)
           t == SubSeq(s, from, e)
<1>0. s \in Seq(Char)
  BY DEF Text
<1>1. /\ Len(a) \in Nat /\ Len(w) \in Nat /\ Len(w) >= 2 /\ e = Len(a) + Len(w)
      /\ \A i \in 2..Len(w) : w[i] # "/"
      /\ \A i \in 1..Len(w) : b[Len(a) + i] = w[i]
      /\ \A i \in 1..e : s[i] = b[i]
      /\ IF last THEN e = m ELSE e < m /\ s[e + 1] = "/"
  BY DEF Holds, Continues
<1>2. m \in Nat /\ \A i \in 1..m : s[i] \in Char
  BY <1>0
<1> HIDE DEF e, m
<1>3. /\ e \in Nat /\ e <= m /\ from \in 1..m /\ e + 1 \in from..(m + 1) /\ from \in Nat \ {0}
      /\ from <= e
  <2>1. e <= m
    BY <1>1, <1>2
  <2>2. from <= m
    BY DEF m
  <2>3. QED
    BY <1>1, <1>2, <2>1, <2>2
<1>4. \A j \in from..e : j - Len(a) \in 2..Len(w) /\ s[j] = w[j - Len(a)]
  <2>1. TAKE j \in from..e
  <2> DEFINE i == j - Len(a)
  <2>2. i \in 2..Len(w) /\ i \in 1..Len(w) /\ Len(a) + i = j /\ j \in 1..e
    BY <1>1, <1>3
  <2> HIDE DEF i
  <2>3. b[Len(a) + i] = w[i] /\ s[j] = b[j]
    BY <1>1, <2>2
  <2>4. i \in 2..Len(w) /\ s[j] = w[i]
    BY <2>2, <2>3
  <2>5. QED
    BY <2>4 DEF i
<1>5. \A j \in from..e : s[j] # "/"
  BY <1>1, <1>4, ZenonT(40)
<1>6. e + 1 = m + 1 \/ s[e + 1] = "/"
  BY <1>1
<1>7. end = e + 1
  <2>1. e + 1 \in from..(Len(s) + 1) /\ from \in 1..Len(s) /\ (e + 1 = Len(s) + 1 \/ s[e + 1] = "/")
    BY <1>3, <1>6 DEF m
  <2> DEFINE v == e + 1
  <2>2. v - 1 = e
    BY <1>3
  <2>3. v \in from..(Len(s) + 1) /\ (v = Len(s) + 1 \/ s[v] = "/")
    BY <2>1
  <2> HIDE DEF v
  <2>4. \A j \in from..(v - 1) : s[j] # "/"
    BY <1>5, <2>2
  <2>5. FindIn(s, "/", from) = v
    BY <2>1, <2>3, <2>4, FindInStops
  <2>6. QED
    BY <2>5 DEF v
<1>8. end = m + 1 <=> last
  <2>1. CASE last
    BY <1>1, <1>7, <2>1
  <2>2. CASE ~last
    <3>1. e < m
      BY <1>1, <2>2
    <3>2. end # m + 1
      BY <1>2, <1>3, <1>7, <3>1
    <3>3. QED
      BY <2>2, <3>2
  <2>3. QED
    BY <2>1, <2>2
<1>9. end - 1 = e
  BY <1>3, <1>7
<1>10. t \in Text
  BY <1>3, PieceIsText DEF m
<1>11. Len(t) = e - from + 1 /\ \A i \in 1..(e - from + 1) : t[i] = s[from + i - 1]
  <2>1. \A i \in from..e : s[i] \in Char
    BY <1>2, <1>3
  <2>2. QED
    BY <1>3, <2>1, SubSeqProperties
<1> HIDE DEF t
<1>12. AfterSlash(w, t)
  <2>1. Len(w) = Len(t) + 1
    BY <1>1, <1>3, <1>11
  <2>2. ASSUME NEW i \in 1..Len(t) PROVE w[i + 1] = t[i]
    <3> DEFINE j == from + i - 1
    <3>1. j \in from..e /\ j - Len(a) = i + 1 /\ i \in 1..(e - from + 1)
      BY <1>1, <1>3, <1>11
    <3>2. t[i] = s[j]
      BY <1>11, <3>1
    <3> HIDE DEF j
    <3>3. s[j] = w[j - Len(a)]
      BY <1>4, <3>1
    <3>4. QED
      BY <3>1, <3>2, <3>3
  <2>3. QED
    BY <2>1, <2>2 DEF AfterSlash
<1>13. QED
  BY <1>7, <1>8, <1>9, <1>10, <1>12 DEF t, e, m

\* The next segment of a permitted pattern is not refused.
LEMMA PermittedIsAccepted ==
    ASSUME NEW q \in Seq(Segment), Permitted(q), NEW k \in 1..Len(q),
           segments \in Seq(Segment), Len(segments) = k - 1, \A i \in DOMAIN segments : segments[i] = q[i],
           NEW t, Reads(t, q[k]), Final <=> k = Len(q)
    PROVE  Refusal(t) = "none"
<1> DEFINE x == q[k]
<1>1. /\ Sound(q) /\ Len(q) <= MaxSegments /\ Cardinality(Placeholders(q)) <= MaxParameters
      /\ Proper(x) /\ k \in DOMAIN q /\ Len(q) \in Nat
  BY DEF Permitted
<1>2. MaxSegments \in Nat /\ MaxParameters \in Nat
  BY GrammarAssumption
<1>3. Len(segments) # MaxSegments
  BY <1>1, <1>2
<1>4. \A i \in DOMAIN segments : i \in DOMAIN q /\ i # k
  BY <1>1
<1>5. x.kind = "catch_all" => Final
  BY <1>1 DEF Sound
<1>6. ASSUME x.kind # "literal"
      PROVE  ~Named(segments, x.text) /\ Cardinality(Placeholders(segments)) # MaxParameters
  <2>1. k \in Placeholders(q)
    BY <1>1, <1>6 DEF Placeholders
  <2>2. \A i \in Placeholders(segments) : i \in Placeholders(q) /\ i # k /\ segments[i] = q[i]
    BY <1>4 DEF Placeholders
  <2>3. ~Named(segments, x.text)
    <3>1. SUFFICES ASSUME Named(segments, x.text) PROVE FALSE
      OBVIOUS
    <3>2. PICK i \in Placeholders(segments) : segments[i].text = x.text
      BY <3>1 DEF Named
    <3>3. QED
      BY <1>1, <2>1, <2>2, <3>2 DEF Sound
  <2>4. IsFiniteSet(Placeholders(q))
    <3>1. Placeholders(q) \in SUBSET (1..Len(q))
      BY DEF Placeholders
    <3>2. IsFiniteSet(1..Len(q))
      <4>1. 1 \in Int /\ Len(q) \in Int
        BY <1>1
      <4>2. QED
        BY <4>1, FS_Interval
    <3>3. QED
      BY <3>1, <3>2, FS_Subset
  <2>5. Placeholders(segments) \cup {k} \in SUBSET Placeholders(q)
    BY <2>1, <2>2
  <2> DEFINE A == Placeholders(segments)
             B == Placeholders(q)
  <2>6. k \notin A /\ A \in SUBSET B /\ A \cup {k} \in SUBSET B /\ IsFiniteSet(B)
    BY <2>2, <2>4, <2>5
  <2> HIDE DEF A, B
  <2>7. IsFiniteSet(A) /\ Cardinality(A) \in Nat /\ Cardinality(B) \in Nat
    BY <2>6, FS_Subset, FS_CardinalityType
  <2>8. Cardinality(A \cup {k}) = Cardinality(A) + 1 /\ Cardinality(A \cup {k}) <= Cardinality(B)
    BY <2>6, <2>7, FS_AddElement, FS_Subset
  <2>9. Cardinality(B) <= MaxParameters
    BY <1>1 DEF B
  <2>10. Cardinality(A) # MaxParameters
    BY <1>2, <2>7, <2>8, <2>9
  <2>11. QED
    BY <2>3, <2>10 DEF A
<1>7. CASE x.kind = "literal"
  <2>1. t # <<>> /\ ~Braced(t) /\ ~HasChar(t, "{") /\ ~HasChar(t, "}")
    BY <1>7 DEF Reads
  <2>2. QED
    BY <1>3, <2>1 DEF Refusal
<1>8. CASE x.kind # "literal"
  <2>1. /\ t # <<>> /\ Braced(t) /\ ~(Len(t) < 3) /\ t[1] = "{" /\ t[Len(t)] = "}"
        /\ name(t) = x.text /\ (Starred(t) <=> x.kind = "catch_all")
    BY <1>8 DEF Reads
  <2>2. valid_parameter_name(x.text)
    BY <1>1, <1>8 DEF Proper
  <2>3. QED
    BY <1>3, <1>5, <1>6, <1>8, <2>1, <2>2 DEF Refusal
<1>9. QED
  BY <1>7, <1>8

LEMMA ScanSegmentFollows ==
    ASSUME GrammarInv, ScanSegment, NEW q \in Seq(Segment), Permitted(q), source = Rendered(q), Follows(q)
    PROVE  Follows(q)'
<1> DEFINE t == segment_text
           k == Len(segments) + 1
           x == q[k]
           a == Spellings(q)[k - 1]
           b == Spellings(q)[k]
           w == Spelled(q[k])
           last == k = Len(q)
<1>1. /\ error = "scan" /\ source' = source
      /\ source \in Text /\ segments \in Seq(Segment)
      /\ offset \in 2..Len(source) /\ Len(segments) \in Nat /\ Len(q) \in Nat
  BY DEF ScanSegment, GrammarInv, GrammarTypeOK
<1>2. /\ Len(segments) < Len(q) /\ \A i \in DOMAIN segments : segments[i] = q[i]
      /\ offset = Len(Spellings(q)[Len(segments)]) + 2
  BY <1>1 DEF Follows
<1>3. /\ k \in 1..Len(q) /\ k - 1 = Len(segments) /\ k \in DOMAIN q /\ k \in Nat
      /\ last \in BOOLEAN
  BY <1>1, <1>2
<1>4. \A i \in DOMAIN q : Proper(q[i])
  BY DEF Permitted
<1>5. x \in Segment /\ Proper(x)
  <2>1. x \in Segment
    <3> HIDE DEF Segment
    <3>1. QED
      BY <1>3
  <2>2. QED
    BY <1>3, <1>4, <2>1
<1>6. Holds(source, a, w, b, last)
  BY <1>3, <1>4, RenderedHolds
<1>7. offset = Len(a) + 2 /\ offset <= Len(source)
  BY <1>1, <1>2, <1>3
<1>8. /\ separator = Len(b) + 1 /\ (separator = Len(source) + 1 <=> last)
      /\ t \in Text /\ AfterSlash(w, t)
  <2> HIDE DEF a, b, w, last
  <2>1. separator = FindIn(source, "/", offset) /\ t = SubSeq(source, offset, separator - 1)
    BY DEF separator, segment_text
  <2> HIDE DEF t
  <2>2. QED
    BY <1>1, <1>3, <1>6, <1>7, <2>1, HeldIsCut
<1>9. Final <=> last
  BY <1>8 DEF Final
<1>10. Reads(t, x)
  BY <1>5, <1>8, SpelledIsRead
<1>11. Refusal(t) = "none"
  <2> HIDE DEF t, k
  <2>1. QED
    BY <1>1, <1>2, <1>3, <1>9, <1>10, PermittedIsAccepted
<1>12. /\ segments' = Append(segments, x)
       /\ IF Final THEN error' = "none" /\ UNCHANGED offset
                   ELSE offset' = separator + 1 /\ UNCHANGED error
  BY <1>10, <1>11 DEF ScanSegment, Reads
<1>13. CASE Final
  BY <1>12, <1>13 DEF Follows
<1>14. CASE ~Final
  <2>1. error' = "scan" /\ offset' = separator + 1 /\ k # Len(q)
    BY <1>1, <1>9, <1>12, <1>14
  <2>2. /\ Len(segments') = k /\ DOMAIN segments' = 1..k
        /\ \A i \in 1..Len(segments) : segments'[i] = segments[i]
        /\ segments'[k] = x
    BY <1>1, <1>5, <1>12, AppendProperties, LenProperties
  <2>3. \A i \in DOMAIN segments' : segments'[i] = q[i]
    <3>1. TAKE i \in DOMAIN segments'
    <3>2. (i \in 1..Len(segments) /\ i \in DOMAIN segments) \/ i = k
      BY <1>1, <2>2
    <3>3. QED
      BY <1>2, <2>2, <3>2
  <2>4. offset' = Len(Spellings(q)[Len(segments')]) + 2
    <3>1. offset' = (Len(b) + 1) + 1 /\ Len(b) \in Nat
      <4>1. Len(a) \in Nat /\ Len(w) \in Nat /\ Len(b) = Len(a) + Len(w)
        BY <1>6 DEF Holds, Continues
      <4> HIDE DEF a, b, w, t
      <4>2. Len(b) \in Nat
        BY <4>1
      <4>3. QED
        BY <1>8, <2>1, <4>2
    <3>2. Spellings(q)[Len(segments')] = b
      BY <2>2
    <3> HIDE DEF b
    <3>3. QED
      BY <3>1, <3>2
  <2>5. Len(segments') < Len(q)
    BY <1>3, <2>1, <2>2
  <2>6. QED
    BY <2>1, <2>3, <2>4, <2>5 DEF Follows
<1>15. QED
  BY <1>13, <1>14

\* What parse_route has read is a text of its segments, and every permitted pattern that is
\* written like the source is still what they can become.
TextInv ==
    /\ Drawn
    /\ \A q \in Seq(Segment) : Permitted(q) /\ source = Rendered(q) => Follows(q)

LEMMA TextStep == ASSUME GrammarInv, TextInv, GrammarNext PROVE TextInv'
<1>1. source' = source
  BY DEF GrammarNext, Enter, ScanSegment
<1>2. Drawn'
  BY EnterDrawn, ScanSegmentDrawn DEF GrammarNext, TextInv
<1>3. ASSUME NEW q \in Seq(Segment), Permitted(q), source = Rendered(q) PROVE Follows(q)'
  <2>1. Follows(q)
    BY <1>3 DEF TextInv
  <2>2. CASE Enter
    BY <1>3, <2>2, EnterFollows
  <2>3. CASE ScanSegment
    BY <1>3, <2>1, <2>3, ScanSegmentFollows
  <2>4. QED
    BY <2>2, <2>3 DEF GrammarNext
<1>4. ASSUME NEW q \in Seq(Segment), Permitted(q)', (source = Rendered(q))' PROVE Follows(q)'
  <2>1. Permitted(q) /\ source = Rendered(q)
    BY <1>1, <1>4 DEF Permitted, Sound, Placeholders, Rendered, Spellings
  <2>2. QED
    BY <1>3, <2>1
<1>5. QED
  BY <1>2, <1>4 DEF TextInv

-----------------------------------------------------------------------------
(* The endpoints that compiled.                                            *)

Stages == {"declare", "parse", "refused", "collect", "document", "route", "answered", "thrown"}
Routed  == {"route", "answered", "thrown"}
Written == {"document"} \cup Routed

Compiled(i) ==
    /\ api[i].method = declared[i].method
    /\ Sound(api[i].pattern)
    /\ PatternOf(declared[i].path, api[i].pattern)
    /\ validate_endpoint_binding(declared[i], api[i].pattern) = "none"

CompileInv ==
    /\ program \in Program /\ stage \in Stages
    /\ GrammarInv
    /\ api \in Apis /\ Len(api) <= Len(declared)
    /\ stage = "parse" => /\ Len(api) < Len(declared)
                          /\ source = declared[Len(api) + 1].path
                          /\ error = "none" => source # <<>>
    /\ stage \in {"collect"} \cup Written => Len(api) = Len(declared)
    /\ \A i \in DOMAIN api : Compiled(i)

\* The endpoints of a program.
LEMMA DeclaredType ==
    ASSUME program \in Program
    PROVE  declared \in Seq(Declaration) /\ program.paths \in SUBSET Paths
BY DEF Program, declared

LEMMA InitCompileInv == ApiInit => CompileInv
<1> SUFFICES ASSUME ApiInit PROVE CompileInv
  OBVIOUS
<1>1. /\ program \in Program /\ stage = "declare" /\ api = <<>>
      /\ source = <<>> /\ offset = 2 /\ segments = <<>> /\ error = "none"
  BY DEF ApiInit, ApiStart
<1>2. GrammarTypeOK
  BY <1>1, GrammarAssumption DEF GrammarTypeOK, Errors, Text
<1>3. Sound(segments)
  BY <1>1 DEF Sound, Placeholders
<1>4. GrammarInv
  BY <1>1, <1>2, <1>3 DEF GrammarInv
<1>5. Len(declared) \in Nat
  BY <1>1, DeclaredType
<1>6. QED
  BY <1>1, <1>4, <1>5 DEF CompileInv, Stages, Written, Routed, Apis

\* The endpoint whose route was parsed joins the API.
LEMMA CompileEndpointInv == ASSUME CompileInv, CompileEndpoint PROVE CompileInv'
<1> DEFINE n == Len(api) + 1
           e == declared[n]
           x == [method |-> e.method, pattern |-> segments]
<1>1. /\ stage = "parse" /\ Parsed
      /\ UNCHANGED program /\ UNCHANGED grammarVars
  BY DEF CompileEndpoint
<1>2. /\ program \in Program /\ GrammarInv
      /\ api \in Apis /\ Len(api) < Len(declared)
      /\ source = e.path /\ (error = "none" => source # <<>>)
      /\ \A i \in DOMAIN api : Compiled(i)
  BY <1>1 DEF CompileInv
<1>3. /\ declared \in Seq(Declaration) /\ declared' = declared
      /\ api \in Seq([method : Method, pattern : Seq(Segment)])
      /\ Len(api) \in Nat /\ Len(declared) \in Nat
      /\ GrammarInv' /\ program' \in Program
  BY <1>1, <1>2, DeclaredType, GrammarStays DEF declared, Apis
<1>4. CASE stage' = "refused" /\ UNCHANGED api
  <2>1. \A i \in DOMAIN api : Compiled(i)'
    BY <1>2, <1>3, <1>4 DEF Compiled
  <2>2. QED
    BY <1>2, <1>3, <1>4, <2>1 DEF CompileInv, Stages, Written, Routed
<1>5. CASE /\ error = "none" /\ validate_endpoint_binding(e, segments) = "none"
           /\ api' = Append(api, x) /\ stage' = "declare"
  <2>1. /\ PatternOf(e.path, segments) /\ Sound(segments) /\ segments \in Seq(Segment)
    BY <1>2, <1>5 DEF GrammarInv, GrammarTypeOK
  <2>2. e \in Declaration
    BY <1>2, <1>3
  <2>3. x \in [method : Method, pattern : Seq(Segment)]
    BY <2>1, <2>2 DEF Declaration
  <2> HIDE DEF x
  <2>4. /\ api' \in Apis /\ Len(api') = Len(api) + 1 /\ DOMAIN api' = 1..n
        /\ \A i \in DOMAIN api : i \in 1..Len(api) /\ api'[i] = api[i]
        /\ api'[n] = x
    BY <1>3, <1>5, <2>3, AppendProperties, LenProperties DEF Apis
  <2>5. ASSUME NEW i \in DOMAIN api' PROVE Compiled(i)'
    <3>1. CASE i = n
      <4>1. api'[i].method = e.method /\ api'[i].pattern = segments
        BY <2>4, <3>1 DEF x
      <4>2. QED
        BY <1>3, <1>5, <2>1, <3>1, <4>1 DEF Compiled
    <3>2. CASE i # n
      <4>1. i \in DOMAIN api /\ api'[i] = api[i]
        BY <1>3, <2>4, <3>2
      <4>2. QED
        BY <1>2, <1>3, <4>1 DEF Compiled
    <3>3. QED
      BY <3>1, <3>2
  <2>6. Len(api') <= Len(declared')
    BY <1>2, <1>3, <2>4
  <2>7. QED
    BY <1>3, <1>5, <2>4, <2>5, <2>6 DEF CompileInv, Stages, Written, Routed
<1>6. QED
  BY <1>4, <1>5 DEF CompileEndpoint, Refuse

\* The API that compiled stays as it is.
LEMMA ApiStays ==
    ASSUME CompileInv, UNCHANGED <<program, api>>
    PROVE  /\ declared' = declared /\ program' \in Program
           /\ api' \in Apis /\ Len(api') <= Len(declared')
           /\ \A i \in DOMAIN api' : Compiled(i)'
<1>1. declared' = declared /\ program' \in Program /\ api' \in Apis /\ Len(api') <= Len(declared')
  BY DEF CompileInv, declared
<1>2. QED
  BY <1>1 DEF CompileInv, Compiled

LEMMA NextCompileInv == ASSUME CompileInv, [ApiNext]_vars PROVE CompileInv'
<1>1. CASE NextEndpoint
  <2> DEFINE s == declared[Len(api) + 1].path
  <2>1. /\ Len(api) < Len(declared) /\ Parse(s) /\ stage' = "parse"
        /\ UNCHANGED <<program, api>>
    BY <1>1 DEF NextEndpoint, routerVars
  <2>2. declared \in Seq(Declaration) /\ Len(api) \in Nat /\ Len(api) + 1 \in DOMAIN declared
    BY <2>1, DeclaredType DEF CompileInv, Apis
  <2>3. s \in Text
    <3>1. declared[Len(api) + 1] \in Declaration
      BY <2>2
    <3>2. QED
      BY <3>1 DEF Declaration
  <2>4. GrammarInv' /\ source' = s /\ error' = "start"
    BY <2>1, <2>3, ParseInv DEF Parse
  <2>5. QED
    BY <2>1, <2>4, ApiStays DEF CompileInv, Stages, Written, Routed
<1>2. CASE ParseRoute
  <2>1. stage = "parse" /\ GrammarNext /\ UNCHANGED <<program, stage, api>>
    BY <1>2 DEF ParseRoute, apiVars, routerVars
  <2>2. GrammarInv' /\ source' = source /\ (error' = "none" => source # <<>>)
    BY <2>1, GrammarStep DEF CompileInv
  <2>3. QED
    BY <2>1, <2>2, ApiStays DEF CompileInv, Written, Routed
<1>3. CASE CompileEndpoint
  BY <1>3, CompileEndpointInv
<1>4. ASSUME UNCHANGED grammarVars, UNCHANGED <<program, api>>,
             stage' \in Stages, stage' # "parse",
             stage' \in {"collect"} \cup Written => Len(api) = Len(declared)
      PROVE  CompileInv'
  BY <1>4, ApiStays, GrammarStays DEF CompileInv
<1> USE DEF Stages, Written, Routed
<1>5. CASE CollectTypes
  BY <1>4, <1>5 DEF CollectTypes, routerVars
<1>6. CASE CollectEndpoint
  BY <1>4, <1>6 DEF CollectEndpoint, routerVars, CompileInv
<1>7. CASE CollectType
  BY <1>4, <1>7 DEF CollectType, routerVars, apiVars, CompileInv
<1>8. CASE CompileApi
  BY <1>4, <1>8 DEF CompileApi, Refuse, routerVars, CompileInv
<1>9. CASE AppendPath
  BY <1>4, <1>9 DEF AppendPath, routerVars, CompileInv
<1>10. CASE Receive
  BY <1>4, <1>10 DEF Receive, CompileInv
<1>11. CASE MatchRoute
  BY <1>4, <1>11 DEF MatchRoute, RouterNext, Skip, Consider, Decide, apiVars, CompileInv
<1>12. ASSUME NEW a, Respond(a) PROVE CompileInv'
  BY <1>4, <1>12 DEF Respond, routerVars, CompileInv
<1>13. CASE NotFound \/ MethodNotAllowed \/ AutomaticOptions \/ RefuseBinding \/ Return
  BY <1>12, <1>13 DEF NotFound, MethodNotAllowed, AutomaticOptions, RefuseBinding, Return
<1>14. CASE Throw
  BY <1>4, <1>14 DEF Throw, routerVars, CompileInv
<1>15. CASE UNCHANGED vars
  <2>1. UNCHANGED grammarVars /\ UNCHANGED <<program, stage, api, source, error>>
    BY <1>15 DEF vars, apiVars, routerVars, grammarVars
  <2>2. QED
    BY <2>1, ApiStays, GrammarStays DEF CompileInv
<1>16. QED
  BY <1>1, <1>2, <1>3, <1>5, <1>6, <1>7, <1>8, <1>9, <1>10, <1>11, <1>13, <1>14, <1>15
     DEF ApiNext

LEMMA CompileInvHolds == ApiSpec => []CompileInv
BY InitCompileInv, NextCompileInv, PTL DEF ApiSpec

\* The loop of parse_route never looks past its source or overruns the pattern, for every
\* source, and what it accepts is sound.
THEOREM GrammarTypeCorrect == ApiSpec => []GrammarTypeOK
<1>1. CompileInv => GrammarTypeOK
  BY DEF CompileInv, GrammarInv
<1>2. QED
  BY <1>1, CompileInvHolds, PTL

\* The variables of parse_route change where it is called and in its own steps.
LEMMA GrammarSteps ==
    ASSUME [ApiNext]_vars
    PROVE  (\E s : Parse(s)) \/ GrammarNext \/ UNCHANGED grammarVars
<1>1. CASE NextEndpoint
  BY <1>1 DEF NextEndpoint
<1>2. CASE ParseRoute
  BY <1>2 DEF ParseRoute
<1>3. CASE CompileEndpoint \/ CollectTypes \/ CollectEndpoint \/ CollectType \/ CompileApi \/ AppendPath
  BY <1>3 DEF CompileEndpoint, CollectTypes, CollectEndpoint, CollectType, CompileApi, AppendPath
<1>4. CASE Receive \/ MatchRoute \/ Throw
  BY <1>4 DEF Receive, MatchRoute, Throw
<1>5. CASE NotFound \/ MethodNotAllowed \/ AutomaticOptions \/ RefuseBinding \/ Return
  BY <1>5 DEF NotFound, MethodNotAllowed, AutomaticOptions, RefuseBinding, Return, Respond
<1>6. CASE UNCHANGED vars
  BY <1>6 DEF vars
<1>7. QED
  BY <1>1, <1>2, <1>3, <1>4, <1>5, <1>6 DEF ApiNext

\* The compiler accepts a source exactly when it is how a permitted pattern is written, and
\* makes that pattern of it: for every source and every pattern, not the listed ones only.
THEOREM RoutesAreExact == ApiSpec => []GrammarExact
<1>1. ApiInit => TextInv
  <2> SUFFICES ASSUME ApiInit PROVE TextInv
    OBVIOUS
  <2>1. source = <<>> /\ error = "none"
    BY DEF ApiInit, ApiStart
  <2>2. QED
    BY <2>1 DEF TextInv, Drawn, Follows
<1>2. CompileInv /\ TextInv /\ [ApiNext]_vars => TextInv'
  <2> SUFFICES ASSUME CompileInv, TextInv, [ApiNext]_vars PROVE TextInv'
    OBVIOUS
  <2>1. ASSUME NEW s, Parse(s) PROVE TextInv'
    BY <2>1 DEF Parse, TextInv, Drawn, Follows
  <2>2. CASE GrammarNext
    BY <2>2, TextStep DEF CompileInv
  <2>3. CASE UNCHANGED grammarVars
    <3>1. UNCHANGED <<source, offset, segments, error>>
      BY <2>3 DEF grammarVars
    <3>2. Drawn'
      <4>1. Permitted(segments)' <=> Permitted(segments)
        BY <3>1 DEF Permitted, Sound, Placeholders
      <4>2. Rendered(segments)' = Rendered(segments)
        BY <3>1 DEF Rendered, Spellings
      <4>3. Spellings(segments)' = Spellings(segments)
        BY <3>1 DEF Spellings
      <4>4. Placeholders(segments)' = Placeholders(segments)
        BY <3>1 DEF Placeholders
      <4>5. Spellings(segments)[Len(segments)]' = Spellings(segments)[Len(segments)]
        BY <3>1, <4>3
      <4>6. QED
        BY <3>1, <4>1, <4>2, <4>4, <4>5 DEF TextInv, Drawn, Begins
    <3>3. ASSUME NEW q \in Seq(Segment), Permitted(q)', (source = Rendered(q))' PROVE Follows(q)'
      <4>1. Permitted(q) /\ source = Rendered(q)
        BY <3>1, <3>3 DEF Permitted, Sound, Placeholders, Rendered, Spellings
      <4>2. Follows(q)
        BY <4>1 DEF TextInv
      <4>3. QED
        BY <3>1, <4>2 DEF Follows, Spellings
    <3>4. QED
      BY <3>2, <3>3 DEF TextInv
  <2>4. QED
    BY <2>1, <2>2, <2>3, GrammarSteps
<1>3. CompileInv /\ TextInv => GrammarExact
  <2> SUFFICES ASSUME CompileInv, TextInv PROVE GrammarExact
    OBVIOUS
  <2>1. error = "none" /\ source # <<>> => Permitted(segments) /\ Rendered(segments) = source
    BY DEF TextInv, Drawn
  <2>2. ASSUME error \in Errors \ {"none"}, source \in WellFormed PROVE FALSE
    <3>1. PICK p \in Patterns : Permitted(p) /\ source = Rendered(p)
      BY <2>2 DEF WellFormed
    <3>2. p \in Seq(Segment)
      BY GrammarAssumption
    <3>3. Follows(p)
      BY <3>1, <3>2 DEF TextInv
    <3>4. QED
      BY <2>2, <3>3 DEF Follows, Errors
  <2>3. QED
    BY <2>1, <2>2 DEF GrammarExact
<1>4. QED
  BY <1>1, <1>2, <1>3, CompileInvHolds, PTL DEF ApiSpec

-----------------------------------------------------------------------------
(* The components.                                                         *)

\* A reference to o is, or will be, written.
Needed(o) ==
    \/ \E i \in 1..visited :
           \/ declared[i].result.type = o
           \/ \E k \in Bodies(declared[i], api[i].pattern) : declared[i].params[k].type = o
    \/ \E i \in DOMAIN collected : o \in References(collected[i])

Awaited(o) == \E k \in DOMAIN pending : pending[k] = o

CollectInv ==
    /\ visited \in 0..Len(declared)
    /\ collected \in Seq(Object) /\ pending \in Seq(Type)
    /\ stage \in {"declare", "parse"} => visited = 0 /\ collected = <<>> /\ pending = <<>>
    /\ \A o \in Object : Needed(o) => Listed(o) \/ Awaited(o)
    /\ stage \in Written => visited = Len(declared) /\ pending = <<>> /\ component_names_unique

LEMMA InitCollectInv == ApiInit => CollectInv
<1> SUFFICES ASSUME ApiInit PROVE CollectInv
  OBVIOUS
<1>1. /\ program \in Program /\ stage = "declare" /\ visited = 0
      /\ collected = <<>> /\ pending = <<>>
  BY DEF ApiInit, ApiStart
<1>2. Len(declared) \in Nat
  BY <1>1, DeclaredType
<1>3. \A o : ~Needed(o)
  BY <1>1 DEF Needed
<1>4. QED
  BY <1>1, <1>2, <1>3 DEF CollectInv, Written, Routed

\* The types of an endpoint that compiled.
LEMMA EndpointTypes ==
    ASSUME CompileInv, NEW i \in DOMAIN declared
    PROVE  /\ declared[i].result.type \in Type
           /\ \A k \in DOMAIN declared[i].params : declared[i].params[k].type \in Type
<1>1. declared[i] \in Declaration
  BY DeclaredType DEF CompileInv
<1>2. declared[i].result \in ResultType /\ declared[i].params \in Seq(Parameter)
  BY <1>1 DEF Declaration
<1>3. \A k \in DOMAIN declared[i].params : declared[i].params[k] \in Parameter
  BY <1>2
<1>4. QED
  BY <1>2, <1>3 DEF ResultType, Parameter

\* The types of one more endpoint are awaited.
LEMMA CollectEndpointInv ==
    ASSUME CompileInv, CollectInv, CollectEndpoint
    PROVE  CollectInv'
<1> DEFINE n == visited + 1
           e == declared[n]
           bodies == Bodies(e, api[n].pattern)
<1>1. /\ stage = "collect" /\ pending = <<>> /\ visited < Len(declared)
      /\ visited' = n /\ UNCHANGED <<program, stage, api, collected>>
      /\ Len(api) = Len(declared) /\ visited \in 0..Len(declared)
      /\ collected \in Seq(Object)
  BY DEF CollectEndpoint, routerVars, CompileInv, CollectInv
<1>2. /\ declared \in Seq(Declaration) /\ declared' = declared
      /\ Len(declared) \in Nat /\ n \in DOMAIN declared /\ n \in 1..Len(declared)
  BY <1>1, DeclaredType DEF CompileInv, declared
<1>3. e.result.type \in Type /\ \A k \in bodies : k \in DOMAIN e.params /\ e.params[k].type \in Type
  BY <1>2, EndpointTypes DEF Bodies
<1>4. /\ pending' \in Seq(Type)
      /\ \E k \in DOMAIN pending' : pending'[k] = e.result.type
      /\ \A b \in bodies : \E k \in DOMAIN pending' : pending'[k] = e.params[b].type
  <2>1. CASE bodies = {}
    <3>1. pending' = <<e.result.type>>
      BY <2>1 DEF CollectEndpoint
    <3>2. QED
      BY <1>3, <2>1, <3>1
  <2>2. CASE bodies # {}
    <3>1. PICK k \in bodies : pending' = <<e.params[k].type, e.result.type>>
      BY <2>2 DEF CollectEndpoint
    <3>2. \A b \in bodies : b = k
      <4>1. Compiled(n)
        BY <1>1, <1>2 DEF CompileInv, Apis
      <4>2. validate_endpoint_binding(e, api[n].pattern) = "none"
        BY <4>1 DEF Compiled
      <4>3. QED
        BY <4>2 DEF validate_endpoint_binding
    <3>3. QED
      BY <1>3, <3>1, <3>2
  <2>3. QED
    BY <2>1, <2>2
<1>5. ASSUME NEW o \in Object, Needed(o)' PROVE Listed(o)' \/ Awaited(o)'
  <2>1. CASE Needed(o)
    <3>1. Listed(o)
      BY <1>1, <2>1 DEF CollectInv, Awaited
    <3>2. QED
      BY <1>1, <3>1 DEF Listed
  <2>2. CASE \/ e.result.type = o
             \/ \E k \in bodies : e.params[k].type = o
    BY <1>4, <2>2 DEF Awaited
  <2>3. Needed(o) \/ e.result.type = o \/ \E k \in bodies : e.params[k].type = o
    <3>1. CASE \E i \in DOMAIN collected' : o \in References(collected'[i])
      BY <1>1, <3>1 DEF Needed
    <3>2. CASE \E i \in 1..n :
                  \/ declared[i].result.type = o
                  \/ \E k \in Bodies(declared[i], api[i].pattern) : declared[i].params[k].type = o
      <4>1. \A i \in 1..n : i \in 1..visited \/ i = n
        BY <1>1
      <4>2. QED
        BY <3>2, <4>1 DEF Needed
    <3>3. QED
      BY <1>1, <1>2, <1>5, <3>1, <3>2 DEF Needed
  <2>4. QED
    BY <2>1, <2>2, <2>3
<1>6. visited' \in 0..Len(declared')
  BY <1>1, <1>2
<1>7. QED
  BY <1>1, <1>4, <1>5, <1>6 DEF CollectInv, Written, Routed

\* Every type of two lists is in the two together.
LEMMA ConcatKeeps ==
    \A s, t \in Seq(Type) :
        /\ s \o t \in Seq(Type)
        /\ \A o : (\E i \in DOMAIN s : s[i] = o) => \E k \in DOMAIN (s \o t) : (s \o t)[k] = o
        /\ \A o : (\E i \in DOMAIN t : t[i] = o) => \E k \in DOMAIN (s \o t) : (s \o t)[k] = o
<1> TAKE s, t \in Seq(Type)
<1> DEFINE u == s \o t
<1>1. /\ Len(s) \in Nat /\ Len(t) \in Nat
      /\ DOMAIN s = 1..Len(s) /\ DOMAIN t = 1..Len(t)
  OBVIOUS
<1>2. /\ u \in Seq(Type)
      /\ DOMAIN u = 1..(Len(s) + Len(t))
      /\ \A i \in 1..Len(s) : u[i] = s[i]
      /\ \A i \in 1..Len(t) : u[i + Len(s)] = t[i]
  BY ConcatProperties
<1> HIDE DEF u
<1>3. \A i \in 1..Len(s) : i \in 1..(Len(s) + Len(t))
  BY <1>1
<1>4. \A i \in 1..Len(t) : i + Len(s) \in 1..(Len(s) + Len(t))
  BY <1>1
<1>5. /\ u \in Seq(Type)
      /\ \A o : (\E i \in DOMAIN s : s[i] = o) => \E k \in DOMAIN u : u[k] = o
      /\ \A o : (\E i \in DOMAIN t : t[i] = o) => \E k \in DOMAIN u : u[k] = o
  BY <1>1, <1>2, <1>3, <1>4
<1>6. QED
  BY <1>5 DEF u

\* One turn of collect_type: what it takes away is listed, and it awaits what it lists refers to.
LEMMA CollectTypeInv ==
    ASSUME CompileInv, CollectInv, CollectType
    PROVE  CollectInv'
<1> DEFINE h == Head(pending)
<1>1. /\ stage = "collect" /\ pending # <<>> /\ Collect
      /\ UNCHANGED <<program, stage, api, visited>>
      /\ collected \in Seq(Object) /\ pending \in Seq(Type)
      /\ declared' = declared /\ visited \in 0..Len(declared)
  BY DEF CollectType, Collect, apiVars, routerVars, CollectInv, declared
<1>2. /\ h \in Type /\ Tail(pending) \in Seq(Type) /\ h = pending[1]
      /\ Len(Tail(pending)) = Len(pending) - 1 /\ Len(pending) \in Nat
      /\ \A k \in 1..Len(Tail(pending)) : Tail(pending)[k] = pending[k + 1]
  BY <1>1, HeadTailProperties
<1>3. ASSUME NEW o, Awaited(o) PROVE h = o \/ \E k \in DOMAIN Tail(pending) : Tail(pending)[k] = o
  <2>1. PICK k \in DOMAIN pending : pending[k] = o
    BY <1>3 DEF Awaited
  <2>2. CASE k = 1
    BY <1>2, <2>1, <2>2
  <2>3. CASE k # 1
    <3>1. k - 1 \in 1..Len(Tail(pending)) /\ (k - 1) + 1 = k
      BY <1>1, <1>2, <2>1, <2>3
    <3>2. Tail(pending)[k - 1] = o
      BY <1>2, <2>1, <3>1
    <3>3. QED
      BY <1>2, <3>1, <3>2
  <2>4. QED
    BY <2>2, <2>3
<1>4. CASE /\ h = Plain \/ Listed(h)
           /\ pending' = Tail(pending) /\ collected' = collected
  <2>1. ASSUME NEW o \in Object, Needed(o)' PROVE Listed(o)' \/ Awaited(o)'
    <3>1. Needed(o)
      BY <1>1, <1>4, <2>1 DEF Needed
    <3>2. CASE Listed(o)
      BY <1>4, <3>2 DEF Listed
    <3>3. CASE Awaited(o)
      <4>1. CASE h = o
        <5>1. Listed(o)
          BY <1>4, <4>1, ComponentsAssumption
        <5>2. QED
          BY <1>4, <5>1 DEF Listed
      <4>2. CASE \E k \in DOMAIN Tail(pending) : Tail(pending)[k] = o
        BY <1>4, <4>2 DEF Awaited
      <4>3. QED
        BY <1>3, <3>3, <4>1, <4>2
    <3>4. QED
      BY <3>1, <3>2, <3>3 DEF CollectInv
  <2>2. QED
    BY <1>1, <1>2, <1>4, <2>1 DEF CollectInv, Written, Routed
<1>5. CASE /\ h # Plain /\ collected' = Append(collected, h)
           /\ pending' = Fields[h] \o Tail(pending)
  <2>1. h \in Object /\ Fields[h] \in Seq(Type)
    BY <1>2, <1>5, ComponentsAssumption DEF Type
  <2>2. /\ collected' \in Seq(Object) /\ Len(collected') = Len(collected) + 1
        /\ \A i \in 1..Len(collected) : collected'[i] = collected[i]
        /\ collected'[Len(collected) + 1] = h
        /\ DOMAIN collected = 1..Len(collected) /\ DOMAIN collected' = 1..(Len(collected) + 1)
        /\ Len(collected) \in Nat
    BY <1>1, <1>5, <2>1, AppendProperties, LenProperties
  <2>3. /\ pending' \in Seq(Type)
        /\ \A o : (\E i \in DOMAIN Fields[h] : Fields[h][i] = o) => Awaited(o)'
        /\ \A o : (\E i \in DOMAIN Tail(pending) : Tail(pending)[i] = o) => Awaited(o)'
    <3> DEFINE F == Fields[h]
               T == Tail(pending)
    <3>1. F \in Seq(Type) /\ T \in Seq(Type) /\ pending' = F \o T
      BY <1>2, <1>5, <2>1
    <3> HIDE DEF F, T
    <3>2. /\ F \o T \in Seq(Type)
          /\ \A o : (\E i \in DOMAIN F : F[i] = o) => \E k \in DOMAIN (F \o T) : (F \o T)[k] = o
          /\ \A o : (\E i \in DOMAIN T : T[i] = o) => \E k \in DOMAIN (F \o T) : (F \o T)[k] = o
      BY <3>1, ConcatKeeps, Zenon
    <3>3. /\ pending' \in Seq(Type)
          /\ \A o : (\E i \in DOMAIN F : F[i] = o) => Awaited(o)'
          /\ \A o : (\E i \in DOMAIN T : T[i] = o) => Awaited(o)'
      BY <3>1, <3>2, Zenon DEF Awaited
    <3>4. QED
      BY <3>3 DEF F, T
  <2>4. ASSUME NEW o \in Object, Needed(o)' PROVE Listed(o)' \/ Awaited(o)'
    <3>1. CASE o \in References(h)
      <4>1. PICK i \in DOMAIN Fields[h] : Fields[h][i] = o
        BY <3>1 DEF References
      <4>2. QED
        BY <2>3, <4>1
    <3>2. CASE Listed(o)
      BY <2>2, <3>2 DEF Listed
    <3>3. CASE Awaited(o)
      <4>1. CASE h = o
        BY <2>2, <4>1 DEF Listed
      <4>2. CASE \E k \in DOMAIN Tail(pending) : Tail(pending)[k] = o
        BY <2>3, <4>2
      <4>3. QED
        BY <1>3, <3>3, <4>1, <4>2
    <3>4. Needed(o) \/ o \in References(h)
      <4>1. \A i \in DOMAIN collected' :
               \/ i \in DOMAIN collected /\ collected'[i] = collected[i]
               \/ collected'[i] = h
        BY <2>2
      <4>2. QED
        BY <1>1, <2>4, <4>1 DEF Needed
    <3>5. QED
      BY <3>1, <3>2, <3>3, <3>4 DEF CollectInv
  <2>5. QED
    BY <1>1, <2>2, <2>3, <2>4 DEF CollectInv, Written, Routed
<1>6. QED
  BY <1>1, <1>4, <1>5 DEF Collect

LEMMA NextCollectInv ==
    ASSUME CompileInv, CollectInv, [ApiNext]_vars
    PROVE  CollectInv'
<1>1. ASSUME UNCHANGED <<program, visited, collected, pending>>,
             UNCHANGED api \/ visited = 0,
             stage \in {"declare", "parse"} \/ stage' \notin {"declare", "parse"},
             stage' \in Written =>
                 \/ stage \in Written
                 \/ visited = Len(declared) /\ pending = <<>> /\ component_names_unique
      PROVE  CollectInv'
  <2>1. declared' = declared
    BY <1>1 DEF declared
  <2>2. \A o : Needed(o)' => Needed(o)
    BY <1>1, <2>1 DEF Needed, CollectInv
  <2>3. \A o : (Listed(o)' <=> Listed(o)) /\ (Awaited(o)' <=> Awaited(o))
    BY <1>1 DEF Listed, Awaited
  <2>4. component_names_unique' <=> component_names_unique
    BY <1>1 DEF component_names_unique
  <2>5. QED
    BY <1>1, <2>1, <2>2, <2>3, <2>4 DEF CollectInv
<1> USE DEF Written, Routed
<1>2. CASE NextEndpoint \/ ParseRoute
  BY <1>1, <1>2 DEF NextEndpoint, ParseRoute, apiVars, routerVars, componentVars
<1>3. CASE CompileEndpoint
  <2>1. visited = 0 /\ stage = "parse" /\ stage' \in {"declare", "refused"}
        /\ UNCHANGED <<program, visited, collected, pending>>
    BY <1>3 DEF CompileEndpoint, Refuse, componentVars, CollectInv
  <2>2. QED
    BY <1>1, <2>1
<1>4. CASE CollectTypes
  BY <1>1, <1>4 DEF CollectTypes, routerVars, componentVars
<1>5. CASE CollectEndpoint
  BY <1>5, CollectEndpointInv
<1>6. CASE CollectType
  BY <1>6, CollectTypeInv
<1>7. CASE CompileApi
  <2>1. /\ UNCHANGED <<program, visited, collected, pending, api>>
        /\ visited = Len(declared) /\ pending = <<>>
        /\ \/ stage' = "refused"
           \/ stage' = "document" /\ component_names_unique
    BY <1>7 DEF CompileApi, Refuse, routerVars, componentVars
  <2>2. QED
    BY <1>1, <2>1
<1>8. CASE AppendPath
  BY <1>1, <1>8 DEF AppendPath, routerVars, componentVars
<1>9. CASE Receive
  BY <1>1, <1>9 DEF Receive, componentVars
<1>10. CASE MatchRoute
  BY <1>1, <1>10 DEF MatchRoute, RouterNext, Skip, Consider, Decide, apiVars, componentVars
<1>11. ASSUME NEW a, Respond(a) PROVE CollectInv'
  BY <1>1, <1>11 DEF Respond, routerVars, componentVars
<1>12. CASE NotFound \/ MethodNotAllowed \/ AutomaticOptions \/ RefuseBinding \/ Return
  BY <1>11, <1>12 DEF NotFound, MethodNotAllowed, AutomaticOptions, RefuseBinding, Return
<1>13. CASE Throw
  BY <1>1, <1>13 DEF Throw, routerVars, componentVars
<1>14. CASE UNCHANGED vars
  BY <1>1, <1>14 DEF vars, apiVars, routerVars, componentVars
<1>15. QED
  BY <1>2, <1>3, <1>4, <1>5, <1>6, <1>7, <1>8, <1>9, <1>10, <1>12, <1>13, <1>14 DEF ApiNext

\* Every reference the document writes names exactly one component, however the aggregates
\* contain each other.
THEOREM ReferencesAreResolved == ApiSpec => []ReferencesResolve
<1>1. ASSUME CompileInv, CollectInv, Documented,
             NEW o \in Object,
             \/ \E i \in DOMAIN declared :
                   \/ declared[i].result.type = o
                   \/ \E k \in Bodies(declared[i], api[i].pattern) : declared[i].params[k].type = o
             \/ \E i \in DOMAIN collected : o \in References(collected[i])
      PROVE  \E i \in DOMAIN collected :
                \A j \in DOMAIN collected : NameOf[collected[j]] = NameOf[o] <=> j = i
  <2>1. /\ visited = Len(declared) /\ pending = <<>> /\ component_names_unique
        /\ DOMAIN declared = 1..Len(declared)
    BY <1>1, DeclaredType DEF CollectInv, CompileInv, Documented, Written, Routed
  <2>2. Needed(o)
    BY <1>1, <2>1 DEF Needed
  <2>3. PICK i \in DOMAIN collected : collected[i] = o
    BY <1>1, <2>1, <2>2 DEF CollectInv, Listed, Awaited
  <2>4. QED
    BY <2>1, <2>3 DEF component_names_unique
<1>2. CompileInv /\ CollectInv => ReferencesResolve
  BY <1>1 DEF ReferencesResolve
<1>3. QED
  BY <1>2, CompileInvHolds, InitCollectInv, NextCollectInv, PTL DEF ApiSpec

-----------------------------------------------------------------------------
(* The request.                                                            *)

Idle ==
    /\ index = 1 /\ hasPath = FALSE /\ best = 0 /\ bestExact = FALSE
    /\ headFallback = FALSE /\ explicitOptions = FALSE
    /\ allow = {} /\ route = <<>> /\ outcome = "none"

CapturesInv == best # 0 => route = Captures(api[best].pattern, path)

RouteInv ==
    /\ method \in Method /\ path \in Paths
    /\ stage \in Written => ValidRoutes(api)
    /\ stage \notin Routed => Idle
    /\ stage \in Routed => RouterInv /\ CapturesInv

\* match_api starts in the state the proofs about it start from.
LEMMA RouterStarts == (RouterInit => RouterInv)'
<1>1. RouterInit => RouterInv
  BY InitRouterInv
<1>2. QED
  BY <1>1, PTL

LEMMA RouterStep == ASSUME RouterInv, CapturesInv, RouterNext PROVE RouterInv' /\ CapturesInv'
<1>1. CASE Skip
  BY <1>1, SkipInv DEF Skip, CapturesInv
<1>2. CASE Consider
  <2>1. UNCHANGED <<api, path>> /\ RouterInv'
    BY <1>2, ConsiderInv DEF Consider
  <2>2. CASE Keep(index)
    BY <2>1, <2>2 DEF Keep, CapturesInv
  <2>3. CASE UNCHANGED <<best, bestExact, headFallback, route>>
    BY <2>1, <2>3 DEF CapturesInv
  <2>4. QED
    BY <1>2, <2>1, <2>2, <2>3 DEF Consider
<1>3. CASE Decide
  BY <1>3, DecideInv DEF Decide, CapturesInv
<1>4. QED
  BY <1>1, <1>2, <1>3 DEF RouterNext

\* What happens outside match_api leaves its result alone.
LEMMA RouterStays ==
    ASSUME UNCHANGED routerVars
    PROVE  /\ RouterInv /\ CapturesInv => RouterInv' /\ CapturesInv'
           /\ Idle => Idle'
           /\ ValidRoutes(api) => ValidRoutes(api)'
<1>1. UNCHANGED <<api, method, path, index, hasPath, best, bestExact, headFallback,
                  explicitOptions, allow, route, outcome>>
  BY DEF routerVars
<1>2. RouterInv => RouterInv'
  BY <1>1, ArgumentsStay DEF RouterInv, RouterTypeOK, DecidedInv, ScanInv, BestInv, Seen
<1>3. QED
  BY <1>1, <1>2 DEF CapturesInv, Idle

LEMMA InitRouteInv == ApiInit => RouteInv
BY DEF ApiInit, ApiStart, RouteInv, Idle, Written, Routed, Method, Paths

LEMMA NextRouteInv ==
    ASSUME CompileInv, RouteInv, [ApiNext]_vars
    PROVE  RouteInv'
<1>1. ASSUME UNCHANGED routerVars,
             stage' \in Written => stage \in Written \/ ValidRoutes(api),
             stage' \in Routed <=> stage \in Routed
      PROVE  RouteInv'
  BY <1>1, RouterStays DEF RouteInv, routerVars
<1> USE DEF Written, Routed
<1>2. CASE NextEndpoint \/ ParseRoute \/ CollectTypes \/ CollectEndpoint \/ CollectType \/ AppendPath
  BY <1>1, <1>2 DEF NextEndpoint, ParseRoute, CollectTypes, CollectEndpoint, CollectType, AppendPath,
                    apiVars
<1>3. CASE CompileEndpoint
  <2>1. /\ stage = "parse" /\ stage' \in {"refused", "declare"}
        /\ UNCHANGED <<method, path, index, hasPath, best, bestExact, headFallback,
                       explicitOptions, allow, route, outcome>>
    BY <1>3 DEF CompileEndpoint, Refuse
  <2>2. QED
    BY <2>1 DEF RouteInv, Idle
<1>4. CASE CompileApi
  BY <1>1, <1>4 DEF CompileApi, Refuse
<1>5. CASE Receive
  <2>1. /\ stage = "document" /\ stage' = "route"
        /\ method' \in Method /\ path' \in program.paths
        /\ UNCHANGED <<api, index, hasPath, best, bestExact, headFallback, explicitOptions,
                       allow, route, outcome>>
    BY <1>5 DEF Receive
  <2>2. Idle /\ ValidRoutes(api) /\ api \in Apis /\ path' \in Paths
    BY <2>1, DeclaredType DEF RouteInv, CompileInv
  <2>3. RouterInit'
    BY <2>1, <2>2 DEF RouterInit, Idle
  <2>4. CapturesInv'
    BY <2>1, <2>2 DEF CapturesInv, Idle
  <2>5. QED
    BY <2>1, <2>2, <2>3, <2>4, RouterStarts DEF RouteInv, RouterInv
<1>6. CASE MatchRoute
  <2>1. stage = "route" /\ stage' = "route" /\ RouterNext
    BY <1>6 DEF MatchRoute, apiVars
  <2>2. RouterInv' /\ CapturesInv'
    BY <2>1, RouterStep DEF RouteInv
  <2>3. QED
    BY <2>1, <2>2 DEF RouteInv, RouterInv, RouterTypeOK
<1>7. ASSUME NEW a, Respond(a) PROVE RouteInv'
  BY <1>1, <1>7 DEF Respond
<1>8. CASE NotFound \/ MethodNotAllowed \/ AutomaticOptions \/ RefuseBinding \/ Return
  BY <1>7, <1>8 DEF NotFound, MethodNotAllowed, AutomaticOptions, RefuseBinding, Return
<1>9. CASE Throw
  BY <1>1, <1>9 DEF Throw
<1>10. CASE UNCHANGED vars
  BY <1>1, <1>10 DEF vars, apiVars
<1>11. QED
  BY <1>2, <1>3, <1>4, <1>5, <1>6, <1>8, <1>9, <1>10 DEF ApiNext

LEMMA RouteInvHolds == ApiSpec => [](CompileInv /\ RouteInv)
BY CompileInvHolds, InitRouteInv, NextRouteInv, PTL DEF ApiSpec

-----------------------------------------------------------------------------
(* Matching.                                                               *)

\* What match_route gives each segment of a pattern: the one segment of the path in its
\* place, or all that is left.
Given(pattern, p) ==
    [i \in DOMAIN pattern |-> SubSeq(p, i, IF pattern[i].kind = "catch_all" THEN Len(p) ELSE i)]

\* A pattern filled with pieces of a path is a path of the expected length.
LEMMA FillIs ==
    ASSUME NEW pattern \in Pattern, pattern # <<>>, NEW v,
           \A i \in DOMAIN pattern : v[i] \in Seq(Text) /\ v[i] # <<>>
    PROVE  /\ Fill(pattern, v) \in Seq(Text)
           /\ Len(pattern) \in Nat \ {0}
           /\ Len(v[Len(pattern)]) \in Nat \ {0}
           /\ Len(Fill(pattern, v)) = Len(pattern) - 1 + Len(v[Len(pattern)])
           /\ \A i \in 1..(Len(pattern) - 1) : Fill(pattern, v)[i] = v[i][1]
           /\ \A j \in 1..Len(v[Len(pattern)]) :
                 Fill(pattern, v)[Len(pattern) - 1 + j] = v[Len(pattern)][j]
<1> DEFINE n == Len(pattern)
           f == [i \in 1..(n - 1) |-> v[i][1]]
           w == v[n]
<1>1. /\ n \in Nat \ {0} /\ DOMAIN pattern = 1..n /\ n \in DOMAIN pattern /\ n - 1 \in Nat
  BY DEF Pattern
<1>2. w \in Seq(Text) /\ Len(w) \in Nat \ {0}
  BY <1>1
<1>3. \A i \in 1..(n - 1) : v[i][1] \in Text
  <2>1. TAKE i \in 1..(n - 1)
  <2>2. v[i] \in Seq(Text) /\ v[i] # <<>>
    BY <1>1
  <2>3. QED
    BY <2>2
<1>4. f \in Seq(Text) /\ Len(f) = n - 1
  <2> DEFINE m == n - 1
  <2>1. f \in [1..m -> Text] /\ m \in Nat
    BY <1>1, <1>3
  <2> HIDE DEF f, m
  <2>2. f \in Seq(Text) /\ Len(f) = m
    BY <2>1, SeqDef
  <2>3. QED
    BY <2>2 DEF m
<1>5. \A i \in 1..(n - 1) : f[i] = v[i][1]
  OBVIOUS
<1>6. Fill(pattern, v) = f \o w
  BY DEF Fill
<1> HIDE DEF n, f, w
<1>7. /\ f \o w \in Seq(Text) /\ Len(f \o w) = Len(f) + Len(w)
      /\ \A i \in 1..(Len(f) + Len(w)) : (f \o w)[i] = IF i <= Len(f) THEN f[i] ELSE w[i - Len(f)]
  BY <1>2, <1>4, ConcatProperties
<1>8. \A i \in 1..(n - 1) : (f \o w)[i] = v[i][1]
  BY <1>1, <1>2, <1>4, <1>5, <1>7
<1>9. \A j \in 1..Len(w) : (f \o w)[n - 1 + j] = w[j]
  <2>1. TAKE j \in 1..Len(w)
  <2> DEFINE k == n - 1 + j
  <2>2. k \in 1..(Len(f) + Len(w)) /\ ~(k <= Len(f)) /\ k - Len(f) = j
    BY <1>1, <1>2, <1>4
  <2> HIDE DEF k
  <2>3. (f \o w)[k] = w[j]
    BY <1>7, <2>2
  <2>4. QED
    BY <2>3 DEF k
<1>10. QED
  BY <1>1, <1>2, <1>4, <1>6, <1>7, <1>8, <1>9 DEF n, w

\* A piece of a path is a path, and there is something in it.
LEMMA PieceIsPath ==
    ASSUME NEW p \in Seq(Text), NEW t \in Pieces(p)
    PROVE  t \in Seq(Text) /\ t # <<>> /\ Len(t) \in Nat \ {0}
<1>1. PICK i \in DOMAIN p, j \in DOMAIN p : t = SubSeq(p, i, j)
  BY DEF Pieces
<1>2. /\ i \in 1..Len(p) /\ j \in 1..Len(p) /\ Len(p) \in Nat
      /\ \A k \in i..j : p[k] \in Text
  <2> HIDE DEF Text
  <2>1. QED
    OBVIOUS
<1>3. t \in Seq(Text)
  BY <1>1, <1>2, SubSeqProperties
<1>4. t # <<>>
  BY DEF Pieces
<1>5. QED
  BY <1>3, <1>4, EmptySeq

\* From one segment of a path to another there is a piece of it.
LEMMA PieceBetween ==
    ASSUME NEW p \in Seq(Text), NEW i \in DOMAIN p, NEW j \in i..Len(p)
    PROVE  /\ SubSeq(p, i, j) \in Pieces(p)
           /\ Len(SubSeq(p, i, j)) = j - i + 1
           /\ \A k \in 1..(j - i + 1) : SubSeq(p, i, j)[k] = p[i + k - 1]
<1>1. /\ Len(p) \in Nat /\ i \in 1..Len(p) /\ j \in DOMAIN p /\ i \in Int /\ j \in Int /\ i <= j
      /\ \A k \in i..j : p[k] \in Text
  <2> HIDE DEF Text
  <2>1. QED
    OBVIOUS
<1>2. /\ Len(SubSeq(p, i, j)) = j - i + 1
      /\ \A k \in 1..(j - i + 1) : SubSeq(p, i, j)[k] = p[i + k - 1]
  <2> DEFINE T == Text
  <2>1. i \in Int /\ j \in Int /\ i <= j /\ \A k \in i..j : p[k] \in T
    BY <1>1
  <2> HIDE DEF T
  <2>2. QED
    BY ONLY <2>1, SubSeqProperties
<1>3. SubSeq(p, i, j) # <<>>
  <2> DEFINE t == SubSeq(p, i, j)
  <2>1. Len(t) = j - i + 1
    BY ONLY <1>2, Zenon
  <2> HIDE DEF t
  <2>2. Len(t) # 0
    BY ONLY <1>1, <2>1
  <2>3. Len(<<>>) = 0
    OBVIOUS
  <2>4. t # <<>>
    BY ONLY <2>2, <2>3, Zenon
  <2>5. QED
    BY ONLY <2>4, Zenon DEF t
<1>4. SubSeq(p, i, j) \in Pieces(p)
  <2> DEFINE t == SubSeq(p, i, j)
             S == {SubSeq(p, a, b) : a \in DOMAIN p, b \in DOMAIN p}
  <2>1. t \in S
    <3> DEFINE D == DOMAIN p
               F(a, b) == SubSeq(p, a, b)
               W == {F(a, b) : a \in D, b \in D}
    <3>1. i \in D /\ j \in D
      BY <1>1
    <3>2. S = W /\ t = F(i, j)
      OBVIOUS
    <3> HIDE DEF t, S, F, D
    <3>3. F(i, j) \in W
      BY ONLY <3>1
    <3> HIDE DEF W
    <3>4. QED
      BY ONLY <3>2, <3>3, Zenon
  <2>2. Pieces(p) = S \ {<<>>}
    BY DEF Pieces
  <2> HIDE DEF S
  <2>3. QED
    BY <1>3, <2>1, <2>2
<1>5. QED
  BY <1>2, <1>4

\* What match_route gives the segments of a pattern that matches is a filling, and rebuilds
\* the path.
LEMMA MatchFills ==
    ASSUME NEW pattern \in Pattern, Sound(pattern), NEW p \in Seq(Text), Matches(pattern, p)
    PROVE  /\ Given(pattern, p) \in Fillings(pattern, p)
           /\ Fill(pattern, Given(pattern, p)) = p
           /\ \A i \in DOMAIN pattern :
                 pattern[i].kind = "literal" => Given(pattern, p)[i] = <<pattern[i].text>>
<1> DEFINE v == Given(pattern, p)
           n == Len(pattern)
           to(i) == IF pattern[i].kind = "catch_all" THEN Len(p) ELSE i
<1>1. CASE pattern = <<>>
  BY <1>1 DEF Matches, Fillings, Fill, Given
<1>2. CASE pattern # <<>>
  <2>1. /\ n \in Nat \ {0} /\ DOMAIN pattern = 1..n /\ Len(p) \in Nat
        /\ DOMAIN p = 1..Len(p)
    BY <1>2 DEF Pattern
  <2>2. /\ p[Len(p)] # <<>>
        /\ IF pattern[n].kind = "catch_all" THEN Len(p) >= n ELSE Len(p) = n
        /\ \A i \in DOMAIN pattern : SegmentFits(pattern[i], p[i])
    BY <1>2 DEF Matches, IsCatchAll
  <2>3. \A i \in DOMAIN pattern : pattern[i].kind = "catch_all" => i = n
    BY DEF Sound
  <2>4. \A i \in DOMAIN pattern : pattern[i].kind \in Kind
    <3>1. \A i \in DOMAIN pattern : pattern[i] \in Segment
      <4> HIDE DEF Segment
      <4>1. QED
        BY DEF Pattern
    <3>2. QED
      BY <3>1 DEF Segment
  <2>4a. n \in Nat \ {0} /\ Len(p) \in Nat
    BY <2>1
  <2>4b. n <= Len(p)
    BY <2>2, <2>4a
  <2> HIDE DEF n
  <2>5. ASSUME NEW i \in DOMAIN pattern
        PROVE  /\ v[i] \in Pieces(p) /\ v[i] \in Seq(Text) /\ v[i] # <<>>
               /\ v[i][1] = p[i] /\ StandsFor(pattern[i], v[i])
               /\ Len(v[i]) = to(i) - i + 1
               /\ \A k \in 1..(to(i) - i + 1) : v[i][k] = p[i + k - 1]
               /\ pattern[i].kind = "literal" => v[i] = <<pattern[i].text>>
    <3>1. i \in DOMAIN p /\ to(i) \in i..Len(p) /\ i \in Nat \ {0}
      <4>0. i \in 1..n
        BY <2>1, Zenon
      <4>1. i \in 1..n /\ i \in 1..Len(p)
        BY ONLY <2>4a, <2>4b, <4>0
      <4>2. QED
        BY <2>1, <4>1
    <3>2. v[i] = SubSeq(p, i, to(i))
      BY DEF Given
    <3>3. /\ v[i] \in Pieces(p) /\ Len(v[i]) = to(i) - i + 1
          /\ \A k \in 1..(to(i) - i + 1) : v[i][k] = p[i + k - 1]
      BY <3>1, <3>2, PieceBetween
    <3>4. v[i] \in Seq(Text) /\ v[i] # <<>>
      BY <3>3, PieceIsPath
    <3> HIDE DEF v
    <3>5. v[i][1] = p[i]
      <4>1. 1 \in 1..(to(i) - i + 1) /\ i + 1 - 1 = i
        BY <3>1
      <4>2. QED
        BY <3>3, <4>1
    <3>6. SegmentFits(pattern[i], p[i])
      BY <2>2
    <3>7. CASE pattern[i].kind = "catch_all"
      <4>1. Len(v[i]) = Len(p) - i + 1 /\ Len(p) - i + 1 \in 1..(to(i) - i + 1)
        BY <2>1, <3>1, <3>3, <3>7
      <4>2. v[i][Len(p) - i + 1] = p[i + (Len(p) - i + 1) - 1]
        BY <3>3, <4>1
      <4>3. i + (Len(p) - i + 1) - 1 = Len(p)
        BY <2>1, <3>1
      <4>4. v[i][Len(v[i])] # <<>>
        BY <2>2, <4>1, <4>2, <4>3
      <4>5. QED
        BY <3>3, <3>4, <3>5, <3>7, <4>4 DEF StandsFor
    <3>8. CASE pattern[i].kind = "parameter"
      <4>1. Len(v[i]) = 1
        BY <3>1, <3>3, <3>8
      <4>2. QED
        BY <3>3, <3>4, <3>5, <3>6, <3>8, <4>1 DEF StandsFor, SegmentFits
    <3>9. CASE pattern[i].kind = "literal"
      <4>1. Len(v[i]) = 1 /\ v[i][1] = pattern[i].text
        BY <3>1, <3>3, <3>5, <3>6, <3>9 DEF SegmentFits
      <4>2. v[i] = <<pattern[i].text>>
        BY <3>4, <4>1
      <4>3. QED
        BY <3>3, <3>4, <3>5, <3>9, <4>2 DEF StandsFor
    <3>10. QED
      BY <2>4, <3>7, <3>8, <3>9 DEF Kind
  <2>6. v \in [DOMAIN pattern -> Pieces(p)]
    BY <2>5 DEF Given
  <2>7. v \in Fillings(pattern, p)
    BY <2>5, <2>6 DEF Fillings
  <2> HIDE DEF v
  <2> DEFINE F == Fill(pattern, v)
  <2>8. /\ F \in Seq(Text) /\ Len(F) = n - 1 + Len(v[n])
        /\ \A i \in 1..(n - 1) : F[i] = v[i][1]
        /\ \A j \in 1..Len(v[n]) : F[n - 1 + j] = v[n][j]
    BY <1>2, <2>5, FillIs, SMTT(30) DEF n
  <2> HIDE DEF F
  <2>9. n \in DOMAIN pattern /\ Len(v[n]) = Len(p) - n + 1 /\ to(n) = Len(p)
    <3>1. n \in DOMAIN pattern
      BY <2>1
    <3>2. to(n) = Len(p)
      BY <2>2
    <3>3. Len(v[n]) = to(n) - n + 1
      BY <2>5, <3>1
    <3>4. QED
      BY <3>1, <3>2, <3>3
  <2>10. Len(F) = Len(p)
    <3>1. Len(F) = n - 1 + (Len(p) - n + 1)
      BY <2>8, <2>9
    <3>2. QED
      BY ONLY <2>4a, <3>1
  <2>11. \A i \in 1..Len(p) : F[i] = p[i]
    <3>1. TAKE i \in 1..Len(p)
    <3>2. CASE i < n
      <4>1. i \in 1..(n - 1) /\ i \in 1..n
        BY ONLY <2>4a, <3>1, <3>2
      <4>2. F[i] = v[i][1]
        BY ONLY <2>8, <4>1, Zenon
      <4>3. v[i][1] = p[i]
        <5>1. i \in DOMAIN pattern
          BY <2>1, <4>1, Zenon
        <5>2. QED
          BY <2>5, <5>1, Zenon
      <4>4. QED
        BY ONLY <4>2, <4>3
    <3>3. CASE i >= n
      <4> DEFINE j == i - n + 1
      <4>1. j \in 1..(Len(p) - n + 1) /\ n - 1 + j = i /\ n + j - 1 = i
        BY <2>1, <3>3
      <4> HIDE DEF j
      <4>2. F[i] = v[n][j]
        <5>1. j \in 1..Len(v[n])
          BY <2>9, <4>1
        <5>2. F[n - 1 + j] = v[n][j]
          BY <2>8, <5>1
        <5>3. QED
          BY <4>1, <5>2
      <4>3. v[n][j] = p[i]
        <5>1. \A k \in 1..(to(n) - n + 1) : v[n][k] = p[n + k - 1]
          BY <2>5, <2>9
        <5>2. v[n][j] = p[n + j - 1]
          BY <2>9, <4>1, <5>1
        <5>3. QED
          BY <4>1, <5>2
      <4>4. QED
        BY <4>2, <4>3
    <3>4. QED
      BY <2>1, <3>2, <3>3
  <2>12. F = p
    BY <2>8, <2>10, <2>11, SeqEqual
  <2>13. QED
    BY <2>5, <2>7, <2>12 DEF F, v
<1>3. QED
  BY <1>1, <1>2

\* A path that is a pattern with pieces of the path in the place of its segments matches it.
LEMMA FillMatches ==
    ASSUME NEW pattern \in Pattern, Sound(pattern), NEW p \in Seq(Text),
           NEW v \in Fillings(pattern, p), Fill(pattern, v) = p
    PROVE  Matches(pattern, p)
<1> DEFINE n == Len(pattern)
<1>1. CASE pattern = <<>>
  <2>1. p = <<<<>>>>
    BY <1>1 DEF Fill
  <2>2. Len(p) = 1 /\ p[1] = <<>> /\ p # <<>>
    BY <2>1
  <2>3. QED
    BY <1>1, <2>1, <2>2 DEF Matches
<1>2. CASE pattern # <<>>
  <2>1. n \in Nat \ {0} /\ DOMAIN pattern = 1..n /\ n \in DOMAIN pattern /\ Len(p) \in Nat
    BY <1>2 DEF Pattern
  <2>2. \A i \in DOMAIN pattern :
           /\ v[i] \in Seq(Text) /\ v[i] # <<>> /\ Len(v[i]) \in Nat \ {0}
           /\ StandsFor(pattern[i], v[i])
    BY PieceIsPath DEF Fillings
  <2>3. /\ Len(p) = n - 1 + Len(v[n])
        /\ \A i \in 1..(n - 1) : p[i] = v[i][1]
        /\ \A j \in 1..Len(v[n]) : p[n - 1 + j] = v[n][j]
    BY <1>2, <2>2, FillIs
  <2>4. \A i \in DOMAIN pattern : pattern[i].kind = "catch_all" => i = n
    BY DEF Sound
  <2>5. \A i \in DOMAIN pattern : pattern[i].kind \in Kind /\ pattern[i].text # <<>>
    <3>1. \A i \in DOMAIN pattern : pattern[i] \in Segment
      <4> HIDE DEF Segment
      <4>1. QED
        BY DEF Pattern
    <3>2. QED
      BY <3>1 DEF Segment, Sound
  <2> HIDE DEF n
  <2>6. \A i \in DOMAIN pattern : p[i] = v[i][1]
    <3>1. TAKE i \in DOMAIN pattern
    <3>2. CASE i # n
      BY <2>1, <2>3, <3>2
    <3>3. CASE i = n
      <4>1. 1 \in 1..Len(v[n]) /\ n - 1 + 1 = n
        BY <2>1, <2>2
      <4>2. QED
        BY <2>3, <3>3, <4>1
    <3>4. QED
      BY <3>2, <3>3
  <2>7. p[Len(p)] = v[n][Len(v[n])]
    <3>1. Len(v[n]) \in 1..Len(v[n])
      BY <2>1, <2>2
    <3>2. QED
      BY <2>3, <3>1
  <2>8. \A i \in DOMAIN pattern : SegmentFits(pattern[i], p[i])
    <3>1. TAKE i \in DOMAIN pattern
    <3>2. CASE pattern[i].kind = "literal"
      <4>1. v[i] = <<pattern[i].text>>
        BY <2>2, <3>2 DEF StandsFor
      <4>2. QED
        BY <2>6, <3>2, <4>1 DEF SegmentFits
    <3>3. CASE pattern[i].kind = "parameter"
      BY <2>2, <2>6, <3>3 DEF StandsFor, SegmentFits
    <3>4. CASE pattern[i].kind = "catch_all"
      BY <3>4 DEF SegmentFits
    <3>5. QED
      BY <2>5, <3>2, <3>3, <3>4 DEF Kind
  <2>9. CASE pattern[n].kind = "catch_all"
    <3>1. v[n][Len(v[n])] # <<>>
      BY <2>1, <2>2, <2>9 DEF StandsFor
    <3>2. Len(p) >= n /\ p # <<>>
      BY <2>1, <2>2, <2>3
    <3>3. QED
      BY <1>2, <2>7, <2>8, <2>9, <3>1, <3>2 DEF Matches, IsCatchAll, n
  <2>10. CASE pattern[n].kind # "catch_all"
    <3>1. Len(v[n]) = 1 /\ v[n][1] # <<>>
      <4>1. CASE pattern[n].kind = "literal"
        <5>1. v[n] = <<pattern[n].text>>
          BY <2>1, <2>2, <4>1 DEF StandsFor
        <5>2. QED
          BY <2>1, <2>5, <5>1
      <4>2. CASE pattern[n].kind = "parameter"
        BY <2>1, <2>2, <4>2 DEF StandsFor
      <4>3. QED
        BY <2>1, <2>5, <2>10, <4>1, <4>2 DEF Kind
    <3>2. Len(p) = n /\ p # <<>>
      BY <2>1, <2>3, <3>1
    <3>3. QED
      BY <1>2, <2>7, <2>8, <2>10, <3>1, <3>2 DEF Matches, IsCatchAll, n
  <2>11. QED
    BY <2>9, <2>10
<1>3. QED
  BY <1>1, <1>2

\* match_route agrees with the reference on every pattern the compiler accepts and every path,
\* and the captures of the route that was found rebuild the path.
THEOREM EveryMatchIsAFilling == ApiSpec => []MatchIsFilling
<1>1. ASSUME CompileInv, RouteInv, stage = "route", outcome # "none" PROVE MatchIsFilling
  <2>1. path \in Seq(Text) /\ api \in Apis /\ RouterInv /\ CapturesInv
    BY <1>1 DEF RouteInv, Paths, CompileInv, Routed
  <2>2. \A i \in DOMAIN api : api[i].pattern \in Pattern /\ Sound(api[i].pattern)
    BY <1>1, <2>1, EndpointType DEF ArgumentsOK, RouterInv, RouterTypeOK, CompileInv, Compiled
  <2>3. \A i \in DOMAIN api :
           PathMatches(i) <=> \E v \in Fillings(api[i].pattern, path) : Fill(api[i].pattern, v) = path
    BY <2>1, <2>2, MatchFills, FillMatches DEF PathMatches
  <2>4. ASSUME outcome = "found"
        PROVE  LET pattern == api[best].pattern
                   values  == [i \in DOMAIN pattern |->
                                  IF i \in DOMAIN route THEN route[i] ELSE <<pattern[i].text>>]
               IN  Fill(pattern, values) = path
    <3> DEFINE pattern == api[best].pattern
               values  == [i \in DOMAIN pattern |->
                              IF i \in DOMAIN route THEN route[i] ELSE <<pattern[i].text>>]
    <3>1. best \in DOMAIN api /\ route = Captures(pattern, path) /\ Matches(pattern, path)
      BY <1>1, <2>1, <2>4 DEF RouterInv, DecidedInv, BestInv, CapturesInv, Candidates, PathMatches
    <3>2. pattern \in Pattern /\ Sound(pattern)
      BY <2>2, <3>1
    <3> HIDE DEF pattern
    <3>3. \A i \in DOMAIN pattern : values[i] = Given(pattern, path)[i]
      <4>1. TAKE i \in DOMAIN pattern
      <4>2. CASE pattern[i].kind = "literal"
        <5>1. i \notin DOMAIN route
          BY <3>1, <4>2 DEF Captures
        <5>2. QED
          BY <2>1, <3>1, <3>2, <4>2, <5>1, MatchFills
      <4>3. CASE pattern[i].kind # "literal"
        BY <3>1, <4>3 DEF Captures, Given
      <4>4. QED
        BY <4>2, <4>3
    <3>4. values = Given(pattern, path)
      BY <3>3 DEF Given
    <3> HIDE DEF values
    <3>5. Fill(pattern, values) = path
      BY <2>1, <3>1, <3>2, <3>4, MatchFills
    <3>6. QED
      BY <3>5 DEF pattern, values
  <2>5. QED
    BY <2>3, <2>4 DEF MatchIsFilling
<1>2. CompileInv /\ RouteInv => MatchIsFilling
  BY <1>1 DEF MatchIsFilling
<1>3. QED
  BY <1>2, RouteInvHolds, PTL

-----------------------------------------------------------------------------
(* Captures and parameters.                                                *)

\* A parameter counts as a binding of a placeholder exactly when it is bound from the path
\* under its name: the compiler decides this twice, in different words.
LEMMA BindsAgrees ==
    ASSUME NEW e, NEW pattern, NEW p, NEW i \in Placeholders(pattern)
    PROVE  Binds(p, pattern[i].text) <=>
              parameter_source(e, pattern, p) = "path" /\ wire_name(p) = pattern[i].text
<1>1. CASE p.annotations = <<>>
  <2>1. wire_name(p) = p.identifier
    BY <1>1 DEF wire_name
  <2>2. p.identifier = pattern[i].text => Named(pattern, wire_name(p))
    BY <2>1 DEF Named
  <2>3. QED
    BY <1>1, <2>1, <2>2 DEF Binds, parameter_source
<1>2. CASE p.annotations # <<>>
  BY <1>2 DEF Binds, parameter_source
<1>3. QED
  BY <1>1, <1>2

\* The parameters from the path and the captures of the route that was found are in one-to-one
\* correspondence, for every declaration that compiles.
THEOREM EveryParameterFindsItsCapture == ApiSpec => []CapturesFindParameters
<1>1. ASSUME CompileInv, RouteInv, outcome = "found" PROVE CapturesFindParameters
  <2> DEFINE e == declared[best]
             pattern == api[best].pattern
             FromPath == {k \in DOMAIN e.params : parameter_source(e, pattern, e.params[k]) = "path"}
  <2>1. /\ best \in DOMAIN api /\ route = Captures(pattern, path)
    BY <1>1 DEF RouteInv, Idle, RouterInv, DecidedInv, BestInv, CapturesInv, Candidates
  <2>2. /\ Sound(pattern)
        /\ every_placeholder_is_bound_once(e, pattern)
        /\ every_explicit_path_exists(e, pattern)
    BY <1>1, <2>1 DEF CompileInv, Compiled, validate_endpoint_binding
  <2>3. DOMAIN route = Placeholders(pattern)
    BY <2>1 DEF Captures, Placeholders
  <2> HIDE DEF e, pattern
  <2>4. \A k \in FromPath : \E i \in DOMAIN route : \A j \in DOMAIN route :
           wire_name(e.params[k]) = pattern[j].text <=> j = i
    <3>1. TAKE k \in FromPath
    <3>2. Named(pattern, wire_name(e.params[k]))
      BY <2>2 DEF every_explicit_path_exists
    <3>3. PICK i \in Placeholders(pattern) : pattern[i].text = wire_name(e.params[k])
      BY <3>2 DEF Named
    <3>4. \A j \in Placeholders(pattern) : pattern[j].text = pattern[i].text <=> j = i
      BY <2>2, <3>3 DEF Sound
    <3>5. QED
      BY <2>3, <3>3, <3>4
  <2>5. \A i \in DOMAIN route : \E k \in FromPath : \A l \in FromPath :
           wire_name(e.params[l]) = pattern[i].text <=> l = k
    <3>1. TAKE i \in DOMAIN route
    <3>2. PICK k \in DOMAIN e.params :
             \A j \in DOMAIN e.params : Binds(e.params[j], pattern[i].text) <=> j = k
      BY <2>2, <2>3 DEF every_placeholder_is_bound_once
    <3>3. \A j \in DOMAIN e.params :
             j \in FromPath /\ wire_name(e.params[j]) = pattern[i].text <=> j = k
      <4>1. TAKE j \in DOMAIN e.params
      <4>2. i \in Placeholders(pattern)
        BY <2>3
      <4>3. Binds(e.params[j], pattern[i].text) <=>
               parameter_source(e, pattern, e.params[j]) = "path" /\ wire_name(e.params[j]) = pattern[i].text
        BY <4>2, BindsAgrees
      <4>4. j \in FromPath <=> parameter_source(e, pattern, e.params[j]) = "path"
        BY <4>1
      <4> HIDE DEF FromPath
      <4>5. QED
        BY ONLY <3>2, <4>1, <4>3, <4>4, Zenon
    <3>4. QED
      BY <3>3
  <2>6. QED
    BY <1>1, <2>4, <2>5 DEF CapturesFindParameters, e, pattern
<1>2. CompileInv /\ RouteInv => CapturesFindParameters
  BY <1>1 DEF CapturesFindParameters
<1>3. QED
  BY <1>2, RouteInvHolds, PTL

\* Dispatch answers with the best endpoint of every API that compiles, keeps its types, and
\* offers in Allow what it would serve.
LEMMA RoutedRight ==
    CompileInv /\ RouteInv => RouterTypeOK /\ BestChoice /\ AllowIsHonest
<1> SUFFICES ASSUME CompileInv, RouteInv
             PROVE  RouterTypeOK /\ BestChoice /\ AllowIsHonest
  OBVIOUS
<1>1. CASE stage \in Routed
  BY <1>1, DecidedBest, DecidedAllow DEF RouteInv, RouterInv
<1>2. CASE stage \notin Routed
  <2>1. Idle /\ api \in Apis /\ Len(api) \in Nat /\ method \in Method /\ path \in Paths
    BY <1>2 DEF RouteInv, CompileInv, Apis
  <2>2. index \in 1..(Len(api) + 1) /\ best \in 0..(index - 1)
    BY <2>1 DEF Idle
  <2>3. RouterTypeOK
    BY <2>1, <2>2 DEF Idle, RouterTypeOK
  <2>4. outcome = "none"
    BY <2>1 DEF Idle
  <2>5. BestChoice /\ AllowIsHonest
    BY <2>4 DEF BestChoice, AllowIsHonest
  <2>6. QED
    BY <2>3, <2>5
<1>3. QED
  BY <1>1, <1>2

\* match_api's variables keep their types for every API that compiles.
THEOREM RequestTypeCorrect == ApiSpec => []RouterTypeOK
BY RoutedRight, RouteInvHolds, PTL

\* validate_routes refuses enough: the endpoint that serves a request is the best one of every
\* API that compiles.
THEOREM ServedByTheBest == ApiSpec => []BestChoice
BY RoutedRight, RouteInvHolds, PTL

\* The Allow header of every API that compiles is true.
THEOREM OfferedIsServed == ApiSpec => []AllowIsHonest
BY RoutedRight, RouteInvHolds, PTL

-----------------------------------------------------------------------------
(* Answers.                                                                *)

\* The status of an error is documented once, unless it is the status of success.
LEMMA ErrorIsDocumented ==
    ASSUME NEW result \in ResultType, NEW i \in DOMAIN result.errors,
           result.errors[i] # success_status(result)
    PROVE  \E k \in DOMAIN Responses(result) :
              /\ Responses(result)[k] = Problem(result.errors[i])
              /\ \A j \in DOMAIN Responses(result) :
                    Responses(result)[j].status = result.errors[i] <=> j = k
<1> DEFINE errors == result.errors
           S == {k \in DOMAIN errors : errors[k] = errors[i]}
           domain == append_domain_responses(result)
           n == Len(errors) + 1
<1>1. errors \in Seq(Status) /\ Len(errors) \in Nat /\ DOMAIN errors = 1..Len(errors)
  BY DEF ResultType
<1>2. PICK k \in S : \A r \in S : k <= r
  <2>1. S \in SUBSET Nat /\ S # {}
    BY <1>1
  <2> HIDE DEF S
  <2>2. QED
    BY <2>1, FirstPosition
<1>3. /\ k \in DOMAIN errors /\ errors[k] = errors[i] /\ k # 0 /\ k # n
      /\ \A j \in 1..(k - 1) : errors[j] # errors[k]
  <2>1. ASSUME NEW j \in 1..(k - 1), errors[j] = errors[k] PROVE FALSE
    <3>1. j \in S /\ j < k
      BY <1>1, <1>2, <2>1
    <3>2. QED
      BY <1>1, <1>2, <3>1
  <2>2. QED
    BY <1>1, <1>2, <2>1
<1>4. k \in DOMAIN domain /\ \A j \in DOMAIN domain : domain[j] = Problem(errors[j])
  BY <1>3 DEF append_domain_responses
<1>5. ASSUME NEW j \in DOMAIN domain, errors[j] = errors[i] PROVE j = k
  <2>1. j \in DOMAIN errors /\ \A l \in 1..(j - 1) : errors[l] # errors[j]
    BY DEF append_domain_responses
  <2>2. j \in S /\ k <= j
    BY <1>2, <1>5, <2>1
  <2>3. ~(k \in 1..(j - 1))
    BY <1>3, <1>5, <2>1
  <2>4. QED
    BY <1>1, <1>3, <2>1, <2>2, <2>3
<1>6. DOMAIN domain \subseteq DOMAIN errors
  BY DEF append_domain_responses
<1> HIDE DEF domain
<1> DEFINE R == Responses(result)
<1>7. /\ k \in DOMAIN R /\ R[k] = Problem(errors[i])
      /\ \A j \in DOMAIN R :
            \/ j = 0 /\ R[j].status = success_status(result)
            \/ j \in DOMAIN domain /\ R[j].status = errors[j]
            \/ j = n /\ R[j].status = 422 /\ errors[i] # 422
  BY <1>1, <1>3, <1>4, <1>6, SMTT(30) DEF Responses, Problem, domain
<1>8. \A j \in DOMAIN R : R[j].status = errors[i] <=> j = k
  <2>1. R[k].status = errors[i]
    BY <1>7 DEF Problem
  <2>2. ASSUME NEW j \in DOMAIN R, R[j].status = errors[i] PROVE j = k
    BY <1>5, <1>7, <2>2
  <2>3. QED
    BY <2>1, <2>2
<1>9. QED
  BY <1>7, <1>8

\* What the document writes at least once: the successful response, and 422.
LEMMA SuccessIsDocumented ==
    ASSUME NEW result \in ResultType
    PROVE  LET R == Responses(result) IN
           /\ 0 \in DOMAIN R
           /\ R[0] = [status |-> success_status(result), content |-> SuccessContent(result)]
           /\ \A j \in DOMAIN R : R[j].status = success_status(result) <=> j = 0
<1> DEFINE errors == result.errors
           domain == append_domain_responses(result)
           n == Len(errors) + 1
           R == Responses(result)
<1>1. errors \in Seq(Status) /\ Len(errors) \in Nat /\ DOMAIN errors = 1..Len(errors)
  BY DEF ResultType
<1>2. /\ DOMAIN domain \subseteq DOMAIN errors
      /\ \A j \in DOMAIN domain : domain[j].status = errors[j] /\ errors[j] # success_status(result)
  BY DEF append_domain_responses, Problem
<1>3. success_status(result) \in {200, 201, 204}
  BY DEF success_status
<1> HIDE DEF domain
<1>4. /\ 0 \in DOMAIN R
      /\ R[0] = [status |-> success_status(result), content |-> SuccessContent(result)]
      /\ \A j \in DOMAIN R \ {0} : \/ j \in DOMAIN domain /\ R[j].status = errors[j]
                                   \/ R[j].status = 422
  BY <1>1, <1>2 DEF Responses, Problem, domain
<1>5. QED
  BY <1>2, <1>3, <1>4

LEMMA RefusalIsDocumented ==
    ASSUME NEW result \in ResultType
    PROVE  \E k \in DOMAIN Responses(result) :
              /\ Responses(result)[k] = Problem(422)
              /\ \A j \in DOMAIN Responses(result) : Responses(result)[j].status = 422 <=> j = k
<1> DEFINE errors == result.errors
           domain == append_domain_responses(result)
           n == Len(errors) + 1
           R == Responses(result)
<1>1. errors \in Seq(Status) /\ Len(errors) \in Nat /\ DOMAIN errors = 1..Len(errors)
  BY DEF ResultType
<1>2. success_status(result) \in {200, 201, 204}
  BY DEF success_status
<1>3. CASE \E i \in DOMAIN errors : errors[i] = 422
  BY <1>2, <1>3, ErrorIsDocumented
<1>4. CASE \A i \in DOMAIN errors : errors[i] # 422
  <2>1. /\ DOMAIN domain \subseteq DOMAIN errors
        /\ \A j \in DOMAIN domain : domain[j].status = errors[j]
    BY DEF append_domain_responses, Problem
  <2> HIDE DEF domain
  <2>2. /\ n \in DOMAIN R /\ R[n] = Problem(422)
        /\ \A j \in DOMAIN R \ {n} : \/ j \in DOMAIN domain /\ R[j].status = errors[j]
                                     \/ R[j].status = success_status(result)
    BY <1>1, <1>4, <2>1 DEF Responses, domain
  <2>3. \A j \in DOMAIN R : R[j].status = 422 <=> j = n
    BY <1>2, <1>4, <2>1, <2>2 DEF Problem
  <2>4. QED
    BY <2>2, <2>3
<1>5. QED
  BY <1>3, <1>4

\* The endpoint that was found, its result and its parameters.
LEMMA FoundEndpoint ==
    ASSUME CompileInv, RouteInv, stage = "route", outcome = "found"
    PROVE  best \in DOMAIN declared /\ declared[best].result \in ResultType
<1>1. best \in DOMAIN api /\ Len(api) = Len(declared) /\ declared \in Seq(Declaration)
  <2>1. RouterInv /\ Len(api) = Len(declared) /\ declared \in Seq(Declaration)
    BY DeclaredType DEF CompileInv, RouteInv, Routed, Written
  <2>2. QED
    BY <2>1 DEF RouterInv, DecidedInv, BestInv, Candidates
<1>2. api \in Seq([method : Method, pattern : Seq(Segment)]) \/ Len(api) \in Nat
  BY DEF CompileInv, Apis
<1>3. DOMAIN api = 1..Len(api)
  BY DEF CompileInv, Apis
<1>4. best \in DOMAIN declared /\ declared[best] \in Declaration
  BY <1>1, <1>3
<1>5. QED
  BY <1>4 DEF Declaration

LEMMA RefuseIsDocumented ==
    ASSUME CompileInv, RouteInv, RefuseBinding
    PROVE  AnswerIsDocumented'
<1> DEFINE e == declared[best]
           result == e.result
           pattern == api[best].pattern
<1>1. stage = "route" /\ outcome = "found"
  BY DEF RefuseBinding, Respond
<1>2. best \in DOMAIN declared /\ result \in ResultType
  BY <1>1, FoundEndpoint
<1>3. PICK k \in DOMAIN e.params :
         \E status \in BindingStatus(parameter_source(e, pattern, e.params[k])) :
             Respond(ForMethod(ProblemAnswer(status, {})))
  BY DEF RefuseBinding
<1>4. PICK status \in BindingStatus(parameter_source(e, pattern, e.params[k])) :
         Respond(ForMethod(ProblemAnswer(status, {})))
  BY <1>3
<1>5. /\ UNCHANGED <<declared, api, best>>
      /\ answer'.status = status /\ answer'.content = "application/problem+json"
  BY <1>4 DEF Respond, ForMethod, ProblemAnswer, declared, routerVars
<1>6. status = 422 \/ (status \in {400, 415} /\ k \in Bodies(e, pattern))
  BY <1>3, <1>4 DEF BindingStatus, Bodies
<1> HIDE DEF e, result, pattern
<1>7. CASE status \in {400, 415} /\ k \in Bodies(e, pattern)
  BY <1>5, <1>7 DEF AnswerIsDocumented, e, pattern
<1>8. CASE status = 422
  <2> DEFINE R == Responses(result)
  <2>1. PICK i \in DOMAIN R : R[i] = Problem(422)
                              /\ \A j \in DOMAIN R : R[j].status = 422 <=> j = i
    BY <1>2, RefusalIsDocumented
  <2> HIDE DEF R
  <2>2. {j \in DOMAIN R : R[j].status = answer'.status} = {i}
        /\ R[i].content = answer'.content
    BY <1>5, <1>8, <2>1 DEF Problem
  <2>3. QED
    BY <1>5, <2>2 DEF AnswerIsDocumented, R, result, e
<1>9. QED
  BY <1>6, <1>7, <1>8

LEMMA ReturnIsDocumented ==
    ASSUME CompileInv, RouteInv, Return
    PROVE  AnswerIsDocumented'
<1> DEFINE e == declared[best]
           result == e.result
           R == Responses(result)
<1>1. stage = "route" /\ outcome = "found"
  BY DEF Return, Respond
<1>2. best \in DOMAIN declared /\ result \in ResultType
  BY <1>1, FoundEndpoint
<1>3. PICK a \in adapt_response(result) \cup {ProblemAnswer(result.errors[i], {}) :
                                                i \in DOMAIN result.errors} :
         Respond(ForMethod(a))
  BY DEF Return
<1>4. /\ UNCHANGED <<declared, api, best>>
      /\ answer' = ForMethod(a)
  BY <1>3 DEF Respond, declared, routerVars
<1>5. ASSUME NEW i \in DOMAIN R, \A j \in DOMAIN R : R[j].status = answer'.status <=> j = i,
             R[i].content = answer'.content
      PROVE  AnswerIsDocumented'
  <2> HIDE DEF R
  <2>1. {j \in DOMAIN R : R[j].status = answer'.status} = {i}
    BY <1>5
  <2>2. QED
    BY <1>4, <1>5, <2>1 DEF AnswerIsDocumented, R
<1>6. ASSUME NEW k \in DOMAIN result.errors, a = ProblemAnswer(result.errors[k], {})
      PROVE  AnswerIsDocumented'
  <2>1. answer'.status = result.errors[k] /\ answer'.content = "application/problem+json"
    BY <1>4, <1>6 DEF ForMethod, ProblemAnswer
  <2>2. CASE result.errors[k] = success_status(result)
    BY <1>4, <2>1, <2>2 DEF AnswerIsDocumented
  <2>3. CASE result.errors[k] # success_status(result)
    <3>1. PICK i \in DOMAIN R : /\ R[i] = Problem(result.errors[k])
                                /\ \A j \in DOMAIN R : R[j].status = result.errors[k] <=> j = i
      BY <1>2, <2>3, ErrorIsDocumented
    <3>2. R[i].content = answer'.content
      BY <2>1, <3>1 DEF Problem
    <3> HIDE DEF R
    <3>3. QED
      BY <1>5, <2>1, <3>1, <3>2
  <2>4. QED
    BY <2>2, <2>3
<1>7. ASSUME a \in adapt_response(result)
      PROVE  AnswerIsDocumented'
  <2>1. result.form \in Form
    BY <1>2 DEF ResultType
  <2>2. CASE result.form \in {"message", "response"}
    <3>1. a.content # "application/problem+json"
      BY <1>7, <2>2 DEF adapt_response, Success
    <3>2. answer'.content # "application/problem+json"
      <4>1. CASE method = "head"
        <5>1. a = [status |-> a.status, content |-> a.content, body |-> a.body,
                   headers |-> a.headers]
          BY <1>7, <2>2 DEF adapt_response, Success
        <5>2. QED
          BY <1>4, <3>1, <4>1, <5>1 DEF ForMethod
      <4>2. QED
        BY <1>4, <3>1, <4>1 DEF ForMethod
    <3>3. QED
      BY <1>4, <2>2, <3>2 DEF AnswerIsDocumented
  <2>3. CASE result.form \in {"void", "text", "bytes", "created", "value"}
    <3>1. answer'.status = success_status(result) /\ answer'.content = SuccessContent(result)
      <4>1. /\ a = [status |-> success_status(result), content |-> SuccessContent(result),
                    body |-> a.body, headers |-> a.headers]
        BY <1>7, <2>3 DEF adapt_response, Success, Empty, success_status, SuccessContent
      <4>2. QED
        BY <1>4, <4>1 DEF ForMethod
    <3>2. /\ 0 \in DOMAIN R
          /\ R[0] = [status |-> success_status(result), content |-> SuccessContent(result)]
          /\ \A j \in DOMAIN R : R[j].status = success_status(result) <=> j = 0
      BY <1>2, SuccessIsDocumented
    <3> HIDE DEF R
    <3>3. R[0].content = answer'.content /\ \A j \in DOMAIN R : R[j].status = answer'.status <=> j = 0
      BY <3>1, <3>2
    <3>4. QED
      BY <1>5, <3>2, <3>3
  <2>4. QED
    BY <2>1, <2>2, <2>3 DEF Form
<1>8. QED
  BY <1>3, <1>6, <1>7

LEMMA NextAnswer ==
    ASSUME CompileInv, RouteInv, AnswerIsDocumented, [ApiNext]_vars
    PROVE  AnswerIsDocumented'
<1>1. CASE RefuseBinding \/ Return
  BY <1>1, RefuseIsDocumented, ReturnIsDocumented
<1>2. CASE NotFound \/ MethodNotAllowed \/ AutomaticOptions
  <2>1. outcome' # "found"
    BY <1>2, SMTT(30) DEF NotFound, MethodNotAllowed, AutomaticOptions, Respond, routerVars
  <2>2. QED
    BY <2>1 DEF AnswerIsDocumented
<1>3. CASE UNCHANGED vars
  <2>1. UNCHANGED <<program, api, stage, outcome, best, answer>>
    <3>1. UNCHANGED apiVars /\ UNCHANGED routerVars
      BY <1>3 DEF vars
    <3>2. QED
      BY <3>1 DEF apiVars, routerVars
  <2>2. QED
    BY <2>1 DEF AnswerIsDocumented, declared
<1>4. CASE stage' # "answered"
  BY <1>4 DEF AnswerIsDocumented
<1>5. CASE \/ NextEndpoint \/ ParseRoute \/ CompileEndpoint \/ CollectTypes \/ CollectEndpoint
           \/ CollectType \/ CompileApi \/ AppendPath \/ Receive \/ MatchRoute \/ Throw
  <2>1. stage' # "answered"
    BY <1>5 DEF NextEndpoint, ParseRoute, CompileEndpoint, CollectTypes, CollectEndpoint,
                CollectType, CompileApi, AppendPath, Receive, MatchRoute, Throw, Refuse, apiVars
  <2>2. QED
    BY <1>4, <2>1
<1>6. QED
  BY <1>1, <1>2, <1>3, <1>5 DEF ApiNext

\* The document tells of every answer an endpoint gives, with the exceptions the property lists.
THEOREM EveryAnswerIsDocumented == ApiSpec => []AnswerIsDocumented
<1>1. ApiInit => AnswerIsDocumented
  BY DEF ApiInit, ApiStart, AnswerIsDocumented
<1>2. QED
  BY <1>1, RouteInvHolds, NextAnswer, PTL DEF ApiSpec

-----------------------------------------------------------------------------
(* The paths of the document.                                              *)

Entry(i) == [key |-> append_openapi_path(declared[i].path), operations |-> append_path_operations(i)]

Disjoint(m, n) == \A o \in paths[m].operations, p \in paths[n].operations : o.id # p.id

DocumentInv ==
    /\ passed \in 0..Len(declared)
    /\ stage \notin Written => passed = 0 /\ paths = <<>>
    /\ stage \in Written => operation_ids_unique
    /\ Len(paths) \in Nat /\ paths = [k \in 1..Len(paths) |-> paths[k]]
    /\ \A n \in DOMAIN paths : \E i \in 1..passed : first_path_occurrence(i) /\ paths[n] = Entry(i)
    /\ \A i \in 1..passed : first_path_occurrence(i) => \E n \in DOMAIN paths : paths[n] = Entry(i)
    /\ \A m, n \in DOMAIN paths : m # n => Disjoint(m, n)

\* Paths with different texts share no operation.
LEMMA EntriesDiffer ==
    ASSUME operation_ids_unique, NEW i, NEW j, declared[i].path # declared[j].path,
           NEW o \in append_path_operations(i), NEW p \in append_path_operations(j)
    PROVE  o.id # p.id
<1>1. PICK k \in DOMAIN declared :
         declared[k].path = declared[i].path /\ o = append_operation(declared[k], api[k].pattern)
  BY DEF append_path_operations
<1>2. PICK l \in DOMAIN declared :
         declared[l].path = declared[j].path /\ p = append_operation(declared[l], api[l].pattern)
  BY DEF append_path_operations
<1>3. o.id = declared[k].id /\ p.id = declared[l].id
  BY <1>1, <1>2 DEF append_operation
<1>4. QED
  BY <1>1, <1>2, <1>3 DEF operation_ids_unique

LEMMA AppendPathInv ==
    ASSUME CompileInv, DocumentInv, AppendPath
    PROVE  DocumentInv'
<1> DEFINE i == passed + 1
           entry == Entry(i)
<1>1. /\ stage = "document" /\ stage' = stage /\ passed < Len(declared) /\ passed' = i
      /\ UNCHANGED <<declared, api>>
  BY DEF AppendPath, declared, routerVars
<1>2. Len(declared) \in Nat /\ DOMAIN declared = 1..Len(declared)
  BY DeclaredType DEF CompileInv
<1>3. passed \in Nat /\ i \in 1..Len(declared) /\ 1..i = (1..passed) \cup {i}
  BY <1>1, <1>2 DEF DocumentInv
<1>4. operation_ids_unique
  BY <1>1 DEF DocumentInv, Written
<1>5. /\ operation_ids_unique'
      /\ \A k : first_path_occurrence(k)' <=> first_path_occurrence(k)
      /\ \A k : Entry(k)' = Entry(k)
  BY <1>1, <1>4 DEF operation_ids_unique, first_path_occurrence, Entry, append_path_operations
<1>6. CASE ~first_path_occurrence(i)
  <2>1. paths' = paths
    BY <1>6 DEF AppendPath
  <2>2. \A m, n : Disjoint(m, n)' <=> Disjoint(m, n)
    BY <2>1 DEF Disjoint
  <2> HIDE DEF entry
  <2>3. \A n \in DOMAIN paths : \E k \in 1..i : first_path_occurrence(k) /\ paths[n] = Entry(k)
    BY <1>3 DEF DocumentInv
  <2>4. \A k \in 1..i : first_path_occurrence(k) => \E n \in DOMAIN paths : paths[n] = Entry(k)
    BY <1>3, <1>6 DEF DocumentInv
  <2>5. \A m, n \in DOMAIN paths : m # n => Disjoint(m, n)
    BY DEF DocumentInv
  <2>6. Len(paths) \in Nat /\ paths = [k \in 1..Len(paths) |-> paths[k]]
    BY DEF DocumentInv
  <2> HIDE DEF i
  <2>7. QED
    BY <1>1, <1>2, <1>3, <1>5, <2>1, <2>2, <2>3, <2>4, <2>5, <2>6 DEF DocumentInv, Written
<1>7. CASE first_path_occurrence(i)
  <2> DEFINE n == Len(paths)
  <2>1. paths' = Append(paths, entry)
    BY <1>7 DEF AppendPath, Entry
  <2>2. /\ n \in Nat /\ DOMAIN paths = 1..n
        /\ Len(paths') = n + 1 /\ paths' = [k \in 1..(n + 1) |-> paths'[k]]
        /\ DOMAIN paths' = 1..(n + 1)
        /\ \A k \in 1..n : paths'[k] = paths[k]
        /\ paths'[n + 1] = entry
    <3>1. n \in Nat /\ paths = [k \in 1..n |-> paths[k]]
      BY DEF DocumentInv
    <3> HIDE DEF entry
    <3>2. /\ Len(paths') = n + 1 /\ paths' = [k \in 1..(n + 1) |-> paths'[k]]
          /\ \A k \in 1..n : paths'[k] = paths[k]
          /\ paths'[n + 1] = entry
      BY <2>1, <3>1, AppendAny
    <3>3. QED
      BY <3>1, <3>2
  <2> HIDE DEF n
  <2>3. \A m \in 1..(n + 1) : \E k \in 1..i : first_path_occurrence(k) /\ paths'[m] = Entry(k)
    <3>1. TAKE m \in 1..(n + 1)
    <3>2. CASE m = n + 1
      <4>1. paths'[m] = entry
        BY <2>2, <3>2, Zenon
      <4>2. entry = Entry(i) /\ i \in 1..i
        BY <1>3
      <4>3. QED
        BY <1>7, <4>1, <4>2, Zenon
    <3>3. CASE m # n + 1
      <4>1. m \in 1..n
        BY ONLY <2>2, <3>1, <3>3
      <4>2. paths'[m] = paths[m] /\ m \in DOMAIN paths
        BY <2>2, <4>1, Zenon
      <4>3. PICK k \in 1..passed : first_path_occurrence(k) /\ paths[m] = Entry(k)
        BY <4>2, Zenon DEF DocumentInv
      <4>4. k \in 1..i
        BY <1>3
      <4>5. QED
        BY <4>2, <4>3, <4>4, Zenon
    <3>4. QED
      BY <3>2, <3>3
  <2>4. \A k \in 1..i : first_path_occurrence(k) => \E m \in 1..(n + 1) : paths'[m] = Entry(k)
    <3>1. ASSUME NEW k \in 1..passed, first_path_occurrence(k)
          PROVE  \E m \in 1..(n + 1) : paths'[m] = Entry(k)
      <4>1. PICK m \in 1..n : paths[m] = Entry(k)
        BY <2>2, <3>1 DEF DocumentInv
      <4>2. m \in 1..(n + 1)
        BY <2>2
      <4>3. QED
        BY <2>2, <4>1, <4>2
    <3>2. n + 1 \in 1..(n + 1) /\ paths'[n + 1] = Entry(i)
      BY <2>2
    <3> HIDE DEF i, entry
    <3>3. QED
      BY <1>3, <3>1, <3>2
  <2>5. ASSUME NEW m \in 1..n,
               NEW o \in paths[m].operations, NEW p \in entry.operations
        PROVE  o.id # p.id
    <3>1. PICK k \in 1..passed : paths[m] = Entry(k)
      BY <2>2 DEF DocumentInv
    <3>2. declared[k].path # declared[i].path
      BY <1>3, <1>7 DEF first_path_occurrence
    <3>3. o \in append_path_operations(k) /\ p \in append_path_operations(i)
      BY <2>5, <3>1 DEF Entry
    <3> HIDE DEF i, entry
    <3>4. QED
      BY <1>4, <3>2, <3>3, EntriesDiffer
  <2>6. ASSUME NEW m \in 1..(n + 1), NEW l \in 1..(n + 1), m # l
        PROVE  Disjoint(m, l)'
    <3> SUFFICES ASSUME NEW o \in paths'[m].operations, NEW p \in paths'[l].operations
                 PROVE  o.id # p.id
      BY DEF Disjoint
    <3> HIDE DEF i, entry
    <3>1. CASE m \in 1..n /\ l \in 1..n
      <4>1. o \in paths[m].operations /\ p \in paths[l].operations /\ Disjoint(m, l)
        BY <2>2, <2>6, <3>1 DEF DocumentInv
      <4>2. QED
        BY <4>1 DEF Disjoint
    <3>2. CASE m \in 1..n /\ l = n + 1
      BY <2>2, <2>5, <3>2
    <3>3. CASE m = n + 1 /\ l \in 1..n
      <4>1. p \in paths[l].operations /\ o \in entry.operations
        BY <2>2, <3>3
      <4>2. QED
        BY <2>5, <3>3, <4>1
    <3>4. QED
      BY <2>2, <2>6, <3>1, <3>2, <3>3
  <2> HIDE DEF i, entry
  <2>7. QED
    BY <1>1, <1>2, <1>3, <1>5, <2>2, <2>3, <2>4, <2>6, SMTT(30) DEF DocumentInv, Written
<1>8. QED
  BY <1>6, <1>7

LEMMA NextDocumentInv ==
    ASSUME CompileInv, DocumentInv, [ApiNext]_vars
    PROVE  DocumentInv'
<1>1. CASE AppendPath
  BY <1>1, AppendPathInv
<1>2. ASSUME UNCHANGED <<program, passed, paths>>, stage \notin Written,
             stage' \in Written => operation_ids_unique
      PROVE  DocumentInv'
  <2>1. UNCHANGED declared /\ passed = 0 /\ paths = <<>>
    BY <1>2 DEF DocumentInv, declared
  <2>2. QED
    BY <1>2, <2>1 DEF DocumentInv, operation_ids_unique
<1>3. ASSUME UNCHANGED <<program, api, passed, paths>>, stage' \in Written => stage \in Written,
             stage \in Written => stage' \in Written
      PROVE  DocumentInv'
  <2>1. UNCHANGED declared
    BY <1>3 DEF declared
  <2>2. \A i : Entry(i)' = Entry(i) /\ first_path_occurrence(i)' = first_path_occurrence(i)
    BY <1>3, <2>1 DEF Entry, append_path_operations, first_path_occurrence
  <2>3. \A m, n : Disjoint(m, n)' = Disjoint(m, n)
    BY <1>3 DEF Disjoint
  <2>4. QED
    BY <1>3, <2>1, <2>2, <2>3 DEF DocumentInv, operation_ids_unique
<1>4. CASE NextEndpoint \/ ParseRoute \/ CompileEndpoint \/ CollectTypes
           \/ CollectEndpoint \/ CollectType \/ CompileApi
  <2>1. /\ UNCHANGED <<program, passed, paths>> /\ stage \notin Written
        /\ stage' \in Written => operation_ids_unique
    BY <1>4 DEF NextEndpoint, ParseRoute, CompileEndpoint, CollectTypes, CollectEndpoint,
                CollectType, CompileApi, Refuse, apiVars, Written, Routed
  <2>2. QED
    BY <1>2, <2>1
<1>5. CASE \/ Receive \/ MatchRoute \/ NotFound \/ MethodNotAllowed \/ AutomaticOptions
           \/ RefuseBinding \/ Return \/ Throw
  <2>1. ASSUME NEW a, Respond(a)
        PROVE  /\ UNCHANGED <<program, api, passed, paths>>
               /\ stage \in Written /\ stage' \in Written
    BY <2>1 DEF Respond, routerVars, Written, Routed
  <2>2. CASE Receive \/ MatchRoute \/ Throw
    BY <1>3, <2>2 DEF Receive, MatchRoute, RouterNext, Skip, Consider, Decide, Throw, apiVars,
                      routerVars, Written, Routed
  <2>3. CASE NotFound \/ MethodNotAllowed \/ AutomaticOptions \/ RefuseBinding \/ Return
    BY <1>3, <2>1, <2>3 DEF NotFound, MethodNotAllowed, AutomaticOptions, RefuseBinding, Return
  <2>4. QED
    BY <1>5, <2>2, <2>3
<1>6. CASE UNCHANGED vars
  BY <1>3, <1>6 DEF vars, apiVars, routerVars
<1>7. QED
  BY <1>1, <1>4, <1>5, <1>6 DEF ApiNext

\* Every endpoint of an API that compiles has one operation in the document, under its path and
\* its method, and no other operation has its identifier.
THEOREM EveryEndpointIsDocumentedOnce == ApiSpec => []DocumentedOnce
<1>1. ApiInit => DocumentInv
  BY DeclaredType DEF ApiInit, ApiStart, DocumentInv, Written, Routed, declared
<1>2. ASSUME CompileInv, RouteInv, DocumentInv, Documented, NEW i \in DOMAIN declared
      PROVE  LET o == append_operation(declared[i], api[i].pattern) IN
             \E n \in DOMAIN paths :
                 /\ paths[n].key = append_openapi_path(declared[i].path)
                 /\ o \in paths[n].operations
                 /\ \A m \in DOMAIN paths : \A p \in paths[m].operations :
                        p.id = o.id => m = n /\ p = o
                 /\ \A p \in paths[n].operations : p.method = o.method => p = o
  <2> DEFINE S == {j \in DOMAIN declared : declared[j].path = declared[i].path}
             o == append_operation(declared[i], api[i].pattern)
  <2>1. /\ declared \in Seq(Declaration) /\ Len(declared) \in Nat
        /\ DOMAIN declared = 1..Len(declared) /\ DOMAIN api = DOMAIN declared
        /\ operation_ids_unique /\ ValidRoutes(api) /\ passed = Len(declared)
    BY <1>2, DeclaredType DEF CompileInv, RouteInv, DocumentInv, Documented, Written, Apis
  <2>2. PICK f \in S : \A j \in S : f <= j
    <3>1. S \in SUBSET Nat /\ S # {}
      BY <2>1
    <3> HIDE DEF S
    <3>2. QED
      BY <3>1, FirstPosition
  <2>3. f \in 1..passed /\ first_path_occurrence(f) /\ declared[f].path = declared[i].path
    <3>1. ASSUME NEW j \in 1..(f - 1), declared[j].path = declared[f].path PROVE FALSE
      BY <2>1, <2>2, <3>1
    <3>2. QED
      BY <2>1, <2>2, <3>1 DEF first_path_occurrence
  <2>4. PICK n \in DOMAIN paths : paths[n] = Entry(f)
    BY <1>2, <2>3 DEF DocumentInv
  <2>5. paths[n].operations = {append_operation(declared[j], api[j].pattern) : j \in S}
    BY <2>3, <2>4 DEF Entry, append_path_operations
  <2>6. paths[n].key = append_openapi_path(declared[i].path) /\ o \in paths[n].operations
    BY <2>3, <2>4, <2>5 DEF Entry
  <2>7. \A j : /\ append_operation(declared[j], api[j].pattern).id = declared[j].id
               /\ append_operation(declared[j], api[j].pattern).method = declared[j].method
    BY DEF append_operation
  <2>7a. \A k, l \in DOMAIN paths : k # l => Disjoint(k, l)
    BY <1>2 DEF DocumentInv
  <2> HIDE DEF o
  <2>8. ASSUME NEW m \in DOMAIN paths, NEW p \in paths[m].operations, p.id = o.id
        PROVE  m = n /\ p = o
    <3> HIDE DEF S
    <3>1. m = n
      <4>1. m # n => Disjoint(m, n)
        BY <2>8, <2>7a
      <4>2. Disjoint(m, n) => p.id # o.id
        BY <2>6, <2>8 DEF Disjoint
      <4>3. QED
        BY <2>8, <4>1, <4>2
    <3>2. PICK j \in S : p = append_operation(declared[j], api[j].pattern)
      BY <2>5, <3>1
    <3>3. j = i
      BY <2>1, <2>7, <2>8, <3>2 DEF operation_ids_unique, o, S
    <3>4. QED
      BY <3>1, <3>2, <3>3 DEF o
  <2>9. ASSUME NEW p \in paths[n].operations, p.method = o.method
        PROVE  p = o
    <3>1. PICK j \in S : p = append_operation(declared[j], api[j].pattern)
      BY <2>5
    <3>2. declared[j].method = declared[i].method /\ declared[j].path = declared[i].path
      BY <2>7, <2>9, <3>1 DEF o
    <3>3. api[j].method = api[i].method /\ api[j].pattern = api[i].pattern
      <4>1. Compiled(i) /\ Compiled(j) /\ j \in DOMAIN api
        BY <1>2, <2>1 DEF CompileInv
      <4>2. /\ PatternOf(declared[i].path, api[i].pattern)
            /\ PatternOf(declared[i].path, api[j].pattern)
            /\ api[j].method = api[i].method
        BY <3>2, <4>1 DEF Compiled
      <4>3. declared[i] \in Declaration /\ api \in Apis
        BY <1>2, <2>1 DEF CompileInv
      <4>4. declared[i].path \in Text /\ api[i].pattern \in Seq(Segment)
            /\ api[j].pattern \in Seq(Segment)
        <5>1. declared[i].path \in Text
          BY <4>3 DEF Declaration
        <5>2. ASSUME NEW k \in DOMAIN api PROVE api[k].pattern \in Seq(Segment)
          <6> DEFINE E == [method : Method, pattern : Seq(Segment)]
          <6>1. api \in Seq(E)
            BY <4>3 DEF Apis
          <6> HIDE DEF E
          <6>2. api[k] \in E
            BY <5>2, <6>1
          <6>3. QED
            BY <6>2 DEF E
        <5>3. QED
          BY <2>1, <4>1, <5>1, <5>2
      <4> DEFINE s == declared[i].path
                 p1 == api[i].pattern
                 p2 == api[j].pattern
      <4> HIDE DEF s, p1, p2
      <4>5. s \in Text /\ p1 \in Seq(Segment) /\ p2 \in Seq(Segment) /\ PatternOf(s, p1) /\ PatternOf(s, p2)
        BY <4>2, <4>4 DEF s, p1, p2
      <4>6. p1 = p2
        BY <4>5, PatternUnique
      <4>7. QED
        BY <4>2, <4>6 DEF p1, p2
    <3>4. j = i
      <4>1. SameShape(api[j].pattern, api[i].pattern) /\ SameShape(api[i].pattern, api[j].pattern)
        BY <3>3 DEF SameShape
      <4>2. ~(j < i) /\ ~(i < j) /\ i \in Nat /\ j \in Nat
        BY <2>1, <3>3, <4>1 DEF ValidRoutes
      <4>3. QED
        BY <4>2
    <3>5. QED
      BY <3>1, <3>4 DEF o
  <2>10. QED
    BY <2>6, <2>8, <2>9 DEF o
<1>3. CompileInv /\ RouteInv /\ DocumentInv => DocumentedOnce
  BY <1>2 DEF DocumentedOnce
<1>4. QED
  BY <1>1, <1>3, RouteInvHolds, NextDocumentInv, PTL DEF ApiSpec

-----------------------------------------------------------------------------
(* The keys of the document, and the names in them.                        *)

\* One turn of append_openapi_path at i, from what it makes of the rest.
KeyTurn(s, i, next, afterNext) ==
    IF i > Len(s) THEN <<>>
    ELSE IF s[i] = "{" /\ i < Len(s) /\ s[i + 1] = "*" THEN <<"{">> \o afterNext
    ELSE <<s[i]>> \o next

Keying(s, K) == \A i \in Nat : K[i] = KeyTurn(s, i, K[i + 1], K[i + 2])

LEMMA KeyTurnType ==
    ASSUME NEW s \in Text, NEW i \in Nat \ {0}, NEW t \in Text, NEW u \in Text
    PROVE  KeyTurn(s, i, t, u) \in Text
<1>1. Len(s) \in Nat /\ s \in Seq(Char) /\ <<>> \in Seq(Char)
  BY DEF Text
<1>2. CASE i > Len(s)
  BY <1>1, <1>2 DEF KeyTurn, Text
<1>3. CASE ~(i > Len(s))
  <2>1. i \in 1..Len(s)
    BY <1>1, <1>3
  <2>2. s[i] \in Char /\ "{" \in Char
    <3>1. s[i] \in Char
      BY <1>1, <2>1
    <3>2. QED
      BY <3>1, Delimiters
  <2>3. <<s[i]>> \in Seq(Char) /\ <<"{">> \in Seq(Char)
    BY <2>2, Short
  <2>4. <<s[i]>> \o t \in Seq(Char) /\ <<"{">> \o u \in Seq(Char)
    BY <2>3, ConcatProperties DEF Text
  <2>5. QED
    BY <1>3, <2>4 DEF KeyTurn, Text
<1>4. QED
  BY <1>2, <1>3

\* The recursion of append_openapi_path is one over the places of its text, from the last to
\* the first.
LEMMA KeyTurns ==
    ASSUME NEW s \in Text
    PROVE  \E K : /\ Keying(s, K) /\ append_openapi_path(s) = K[1]
                  /\ \A i \in 1..(Len(s) + 1) : K[i] \in Text
<1> DEFINE n == Len(s)
           T == Text \X Text
           first == <<<<>>, <<>>>>
           onto  == [k \in 1..n |-> [t \in T |-> <<KeyTurn(s, n + 1 - k, t[1], t[2]), t[1]>>]]
           G(f)  == [i \in Nat |-> KeyTurn(s, i, f[i + 1], f[i + 2])]
<1>1. n \in Nat /\ <<>> \in Text
  BY DEF Text
<1>2. onto \in Advances(T, n)
  <2>1. ASSUME NEW k \in 1..n, NEW t \in T
        PROVE  <<KeyTurn(s, n + 1 - k, t[1], t[2]), t[1]>> \in T
    <3>1. n + 1 - k \in Nat \ {0}
      BY <1>1
    <3>2. t[1] \in Text /\ t[2] \in Text
      OBVIOUS
    <3>3. KeyTurn(s, n + 1 - k, t[1], t[2]) \in Text
      BY <3>1, <3>2, KeyTurnType
    <3>4. QED
      BY <3>2, <3>3
  <2> HIDE DEF T
  <2>2. QED
    BY <2>1 DEF Advances
<1>3. PICK F : Solves(F, T, n, first, onto)
  <2>1. first \in T
    BY <1>1
  <2> HIDE DEF n, T, first, onto
  <2>2. QED
    BY <1>1, <1>2, <2>1, Recursion
<1>4. F \in [0..n -> T] /\ F[0] = first /\ \A k \in 1..n : F[k] = onto[k][F[k - 1]]
  BY <1>3 DEF Solves
<1>5. \A k \in 0..n : F[k] \in T
  <2> HIDE DEF T, n
  <2>1. QED
    BY <1>4
<1>6. \A k \in 1..n : /\ F[k][1] = KeyTurn(s, n + 1 - k, F[k - 1][1], F[k - 1][2])
                      /\ F[k][2] = F[k - 1][1]
  <2>1. TAKE k \in 1..n
  <2>2. F[k - 1] \in T
    <3>1. k - 1 \in 0..n
      BY <1>1
    <3> HIDE DEF T
    <3>2. QED
      BY <1>5, <3>1
  <2>3. F[k] = <<KeyTurn(s, n + 1 - k, F[k - 1][1], F[k - 1][2]), F[k - 1][1]>>
    BY <1>4, <2>2
  <2>4. QED
    BY <2>3
<1> DEFINE g(i) == IF i > n THEN <<>> ELSE F[n + 1 - i][1]
           h == [i \in Nat |-> IF i = 0 THEN KeyTurn(s, 0, g(1), g(2)) ELSE g(i)]
<1>7. F[0][1] = <<>> /\ F[0][2] = <<>>
  BY <1>4
<1>8. \A i \in Nat \ {0} : g(i) \in Text
  <2>1. TAKE i \in Nat \ {0}
  <2>2. CASE i > n
    BY <1>1, <2>2
  <2>3. CASE ~(i > n)
    <3>1. n + 1 - i \in 0..n
      BY <1>1, <2>3
    <3>2. F[n + 1 - i] \in T
      <4> HIDE DEF T
      <4>1. QED
        BY <1>5, <3>1
    <3>3. F[n + 1 - i][1] \in Text
      BY <3>2
    <3>4. QED
      BY <2>3, <3>3
  <2>4. QED
    BY <2>2, <2>3
<1> HIDE DEF n, T, first, onto
<1>9. \A k \in 0..n : F[k][1] = g(n + 1 - k)
  BY <1>1, <1>7
<1>10. \A k \in 0..n : F[k][2] = g(n + 2 - k)
  <2>1. TAKE k \in 0..n
  <2>2. CASE k = 0
    BY <1>1, <1>7, <2>2
  <2>3. CASE k # 0
    <3>1. k \in 1..n /\ k - 1 \in 0..n /\ n + 1 - (k - 1) = n + 2 - k
      BY <1>1, <2>3
    <3> HIDE DEF g
    <3>2. QED
      BY <1>6, <1>9, <3>1
  <2>4. QED
    BY <2>2, <2>3
<1>11. \A i \in Nat \ {0} : g(i) = KeyTurn(s, i, g(i + 1), g(i + 2))
  <2>1. TAKE i \in Nat \ {0}
  <2>2. CASE i > n
    BY <1>1, <2>2 DEF KeyTurn, n
  <2>3. CASE ~(i > n)
    <3> DEFINE k == n + 1 - i
    <3>1. k \in 1..n /\ k - 1 \in 0..n /\ n + 1 - k = i /\ n + 1 - (k - 1) = i + 1 /\ n + 2 - (k - 1) = i + 2
      BY <1>1, <2>3
    <3>2. g(i) = F[k][1]
      BY <2>3
    <3> HIDE DEF g, k
    <3>3. F[k][1] = KeyTurn(s, n + 1 - k, F[k - 1][1], F[k - 1][2])
      BY <1>6, <3>1
    <3>4. F[k - 1][1] = g(n + 1 - (k - 1)) /\ F[k - 1][2] = g(n + 2 - (k - 1))
      BY <1>9, <1>10, <3>1
    <3>5. QED
      BY <3>1, <3>2, <3>3, <3>4
  <2>4. QED
    BY <2>2, <2>3
<1> HIDE DEF g
<1>12. h = G(h)
  <2>1. \A i \in Nat : h[i + 1] = g(i + 1) /\ h[i + 2] = g(i + 2)
    OBVIOUS
  <2>2. h[0] = KeyTurn(s, 0, h[0 + 1], h[0 + 2])
    BY <2>1
  <2>3. \A i \in Nat \ {0} : h[i] = KeyTurn(s, i, h[i + 1], h[i + 2])
    BY <1>11, <2>1
  <2>4. \A i \in Nat : h[i] = KeyTurn(s, i, h[i + 1], h[i + 2])
    BY <2>2, <2>3
  <2>5. h = [i \in Nat |-> h[i]]
    OBVIOUS
  <2> HIDE DEF h
  <2>6. QED
    BY <2>4, <2>5
<1> DEFINE K == CHOOSE f : f = G(f)
<1>13. append_openapi_path(s) = K[1]
  BY DEF append_openapi_path, KeyTurn
<1>14. K = G(K)
  <2> HIDE DEF G, h
  <2>1. QED
    BY <1>12
<1> HIDE DEF K
<1>15. Keying(s, K)
  BY <1>14 DEF Keying
<1>16. ASSUME NEW i \in 1..(n + 1), K[i] \notin Text PROVE FALSE
  <2> DEFINE D == {j \in 1..(n + 2) : K[j] \notin Text}
  <2>1. PICK q \in D : \A r \in D : r <= q
    <3>1. i \in D
      BY <1>1, <1>16
    <3>2. D \in SUBSET (0..(n + 2)) /\ D # {} /\ n + 2 \in Nat
      BY <1>1, <3>1
    <3> HIDE DEF D
    <3>3. QED
      BY <3>2, LastPosition
  <2>2. q \in 1..(n + 2) /\ q \in Nat \ {0} /\ K[q] \notin Text
    BY <1>1
  <2>3. K[q] = KeyTurn(s, q, K[q + 1], K[q + 2])
    BY <1>15, <2>2 DEF Keying
  <2>4. CASE q > n
    BY <1>1, <2>2, <2>3, <2>4 DEF KeyTurn, n
  <2>5. CASE ~(q > n)
    <3>1. q + 1 \in 1..(n + 2) /\ q + 2 \in 1..(n + 2) /\ ~(q + 1 <= q) /\ ~(q + 2 <= q)
      BY <1>1, <2>2, <2>5
    <3>2. K[q + 1] \in Text /\ K[q + 2] \in Text
      BY <2>1, <3>1
    <3>3. QED
      BY <2>2, <2>3, <3>2, KeyTurnType
  <2>6. QED
    BY <2>4, <2>5
<1>17. QED
  BY <1>13, <1>15, <1>16 DEF n

\* A star follows the brace at i.
Star(s, i) == s[i] = "{" /\ i < Len(s) /\ s[i + 1] = "*"

KeyOf(s, K) ==
    /\ Keying(s, K) /\ append_openapi_path(s) = K[1]
    /\ \A i \in 1..(Len(s) + 1) : K[i] \in Text

\* The key of s is t up to x, and then what is made of s from i.
Reached(s, K, t, x, i) == append_openapi_path(s) = SubSeq(t, 1, x) \o K[i]

\* From i the key gets t[x], and goes on from j.
Copies(s, t, x, i, j) ==
    IF Star(s, i) THEN t[x] = "{" /\ j = i + 2 ELSE t[x] = s[i] /\ j = i + 1

\* Texts can be joined in either order.
LEMMA TextsAssociate == \A u, v, w \in Seq(Char) : (u \o v) \o w = u \o (v \o w)
BY ConcatAssociative, SMTT(30)

LEMMA KeyGrows ==
    ASSUME NEW s \in Text, NEW K, KeyOf(s, K), NEW t \in Text, NEW x \in Nat, x < Len(t),
           NEW i \in 1..Len(s), Reached(s, K, t, x, i),
           NEW j, Copies(s, t, x + 1, i, j)
    PROVE  Reached(s, K, t, x + 1, j)
<1> DEFINE a == SubSeq(t, 1, x)
           c == t[x + 1]
<1>0. Len(s) \in Nat /\ Len(t) \in Nat /\ t \in Seq(Char)
  BY DEF Text
<1>1. x + 1 \in 1..Len(t) /\ i \in Nat \ {0} /\ i <= Len(s)
  BY <1>0
<1>2. c \in Char /\ <<c>> \in Seq(Char)
  <2>1. c \in Char
    BY <1>0, <1>1
  <2>2. QED
    BY <2>1, Short
<1>3. j \in 1..(Len(s) + 1) /\ K[j] \in Seq(Char)
  <2>1. j \in 1..(Len(s) + 1)
    <3>1. j = i + 1 \/ (Star(s, i) /\ j = i + 2)
      BY Zenon DEF Copies
    <3>2. Star(s, i) => i < Len(s)
      BY Zenon DEF Star
    <3> HIDE DEF Star
    <3>3. QED
      BY ONLY <1>0, <1>1, <3>1, <3>2
  <2>2. QED
    BY <2>1 DEF KeyOf, Text
<1>4. K[i] = <<c>> \o K[j]
  <2>1. K[i] = KeyTurn(s, i, K[i + 1], K[i + 2])
    BY <1>1 DEF KeyOf, Keying
  <2>2. ~(i > Len(s))
    BY <1>0, <1>1
  <2>3. QED
    BY <2>1, <2>2 DEF KeyTurn, Star, Copies
<1>5. a \in Seq(Char)
  <2>1. \A k \in 1..x : t[k] \in Char
    BY <1>0, <1>1
  <2>2. 1 \in Int /\ x \in Int
    OBVIOUS
  <2>3. QED
    BY <2>1, <2>2, SubSeqProperties
<1>6. SubSeq(t, 1, x + 1) = a \o <<c>>
  <2>1. 1 \in 1..Len(t) /\ x + 1 \in 1..Len(t) /\ (x + 1) - 1 = x
    BY <1>0, <1>1
  <2>2. SubSeq(t, 1, x + 1) = SubSeq(t, 1, (x + 1) - 1) \o <<t[x + 1]>>
    BY <1>0, <2>1, SubSeqRecursiveSecond
  <2>3. QED
    BY <2>1, <2>2
<1>7. append_openapi_path(s) = a \o (<<c>> \o K[j])
  BY <1>4 DEF Reached
<1> HIDE DEF a, c
<1> DEFINE b == <<c>>
           r == K[j]
<1>8. (a \o b) \o r = a \o (b \o r)
  <2>1. b \in Seq(Char) /\ r \in Seq(Char)
    BY <1>2, <1>3
  <2> HIDE DEF b, r
  <2>2. QED
    BY ONLY <1>5, <2>1, TextsAssociate, Zenon
<1>9. QED
  BY <1>6, <1>7, <1>8 DEF Reached

\* A stretch without a star is in the key as it is.
LEMMA KeyRuns ==
    ASSUME NEW s \in Text, NEW K, KeyOf(s, K), NEW t \in Text,
           NEW x \in Nat, NEW i \in Nat \ {0}, NEW d \in Nat, x + d <= Len(t), i + d <= Len(s) + 1,
           \A k \in 0..(d - 1) : ~Star(s, i + k) /\ t[x + k + 1] = s[i + k],
           Reached(s, K, t, x, i)
    PROVE  Reached(s, K, t, x + d, i + d)
<1> DEFINE D == {k \in 0..d : ~Reached(s, K, t, x + k, i + k)}
<1>1. Len(s) \in Nat /\ Len(t) \in Nat
  BY DEF Text
<1>2. D = {}
  <2>1. SUFFICES ASSUME D # {} PROVE FALSE
    OBVIOUS
  <2>2. PICK k \in D : \A r \in D : k <= r
    <3>1. D \in SUBSET Nat
      OBVIOUS
    <3> HIDE DEF D
    <3>2. QED
      BY <2>1, <3>1, FirstPosition
  <2>3. k \in 0..d /\ ~Reached(s, K, t, x + k, i + k)
    OBVIOUS
  <2>4. k # 0
    <3>1. x + 0 = x /\ i + 0 = i
      OBVIOUS
    <3>2. QED
      BY <2>3, <3>1
  <2> DEFINE m == k - 1
  <2>5. /\ m \in 0..(d - 1) /\ m \in 0..d /\ ~(k <= m) /\ m + 1 = k
        /\ x + m \in Nat /\ x + m < Len(t) /\ i + m \in 1..Len(s)
        /\ (x + m) + 1 = x + k /\ (i + m) + 1 = i + k
    BY <1>1, <2>3, <2>4
  <2> HIDE DEF m
  <2>6. Reached(s, K, t, x + m, i + m)
    BY <2>2, <2>5
  <2>7. ~Star(s, i + m) /\ t[(x + m) + 1] = s[i + m]
    BY <2>5
  <2>8. Reached(s, K, t, (x + m) + 1, (i + m) + 1)
    BY <2>5, <2>6, <2>7, KeyGrows DEF Copies
  <2>9. QED
    BY <2>3, <2>5, <2>8
<1>3. d \in 0..d
  OBVIOUS
<1>4. QED
  BY <1>2, <1>3

\* A segment as it stands in a key, where a catch-all has lost its star.
Starless(x) == [kind |-> IF x.kind = "literal" THEN "literal" ELSE "parameter", text |-> x.text]

LEMMA StarlessIs ==
    ASSUME NEW x \in Segment, Proper(x)
    PROVE  /\ Starless(x) \in Segment /\ Proper(Starless(x))
           /\ Starless(x).kind # "catch_all" /\ Starless(x).text = x.text
           /\ x.kind # "catch_all" => Starless(x) = x
           /\ Starless(x).kind = "literal" <=> x.kind = "literal"
<1> DEFINE y == Starless(x)
<1>1. x.kind \in Kind /\ x.text \in Text /\ x = [kind |-> x.kind, text |-> x.text]
  BY DEF Segment
<1>2. y.kind = (IF x.kind = "literal" THEN "literal" ELSE "parameter") /\ y.text = x.text
  BY DEF Starless
<1>3. y \in Segment
  <2>1. "literal" \in Kind /\ "parameter" \in Kind
    BY DEF Kind
  <2>2. QED
    BY <1>1, <2>1 DEF Starless, Segment
<1>4. Proper(y)
  BY <1>2 DEF Proper
<1>5. x.kind # "catch_all" => y = x
  <2>1. x.kind # "catch_all" => x.kind = (IF x.kind = "literal" THEN "literal" ELSE "parameter")
    BY <1>1 DEF Kind
  <2>2. QED
    BY <1>1, <2>1 DEF Starless
<1> HIDE DEF y
<1>6. QED
  BY <1>2, <1>3, <1>4, <1>5 DEF y

\* A segment as it is written, w, has a brace only as its second character, and one as its
\* last, and a star after a brace only as a catch-all.
OwnBraces(x, w) ==
    /\ Len(w) \in Nat
    /\ \A i \in 1..Len(w) : /\ w[i] = "{" <=> x.kind # "literal" /\ i = 2
                            /\ w[i] = "}" <=> x.kind # "literal" /\ i = Len(w)
    /\ x.kind = "parameter" => w[3] # "*"

LEMMA BracesOf ==
    ASSUME NEW x \in Segment, Proper(x), NEW n, n = Len(x.text), NEW w, w = Spelled(x)
    PROVE  Writes(x, n, w) /\ OwnBraces(x, w)
<1>1. Writes(x, n, w)
  BY SpelledIs
<1>2. n \in Nat \ {0} /\ x.kind \in Kind /\ w[1] = "/"
  BY <1>1 DEF Writes
<1>0. DOMAIN x.text = 1..n
  <2>1. x.text \in Seq(Char)
    BY <1>1 DEF Writes
  <2>2. QED
    BY ONLY <2>1, n = Len(x.text)
<1>3. x.kind = "literal" => \A i \in 1..n : x.text[i] # "{" /\ x.text[i] # "}"
  BY <1>0 DEF Proper, HasChar
<1>4. x.kind # "literal" => \A i \in 1..n : x.text[i] # "{" /\ x.text[i] # "}" /\ x.text[i] # "*"
  <2>2. x.kind # "literal" => \A i \in 1..n : x.text[i] \in NameChar
    BY <1>0 DEF Proper, valid_parameter_name
  <2>3. QED
    BY <2>2, Delimiters
<1>5. CASE x.kind = "literal"
  <2>1. Len(w) = n + 1 /\ \A i \in 1..n : w[i + 1] = x.text[i]
    BY <1>1, <1>5 DEF Writes
  <2>2. ASSUME NEW i \in 1..Len(w) PROVE w[i] # "{" /\ w[i] # "}"
    <3>1. CASE i = 1
      BY <1>2, <3>1
    <3>2. CASE i # 1
      <4>1. i - 1 \in 1..n /\ (i - 1) + 1 = i
        BY <1>2, <2>1, <3>2
      <4>2. w[(i - 1) + 1] = x.text[i - 1]
        BY <2>1, <4>1
      <4>3. QED
        BY <1>3, <1>5, <4>1, <4>2
    <3>3. QED
      BY <3>1, <3>2
  <2>3. Len(w) \in Nat
    BY ONLY <1>2, <2>1
  <2>4. QED
    BY <1>1, <1>5, <2>2, <2>3 DEF OwnBraces
<1>6. CASE x.kind = "parameter"
  <2>1. Len(w) = n + 3 /\ w[2] = "{" /\ w[n + 3] = "}" /\ \A i \in 1..n : w[i + 2] = x.text[i]
    BY <1>1, <1>6 DEF Writes
  <2>2. ASSUME NEW i \in 1..Len(w), i # 2, i # n + 3 PROVE w[i] # "{" /\ w[i] # "}"
    <3>1. CASE i = 1
      BY <1>2, <3>1
    <3>2. CASE i # 1
      <4>1. i - 2 \in 1..n /\ (i - 2) + 2 = i
        <5>1. n \in Nat /\ Len(w) = n + 3
          BY <1>2, <2>1
        <5>2. QED
          BY ONLY <5>1, <2>2, <3>2
      <4>2. w[(i - 2) + 2] = x.text[i - 2]
        BY <2>1, <4>1
      <4>3. QED
        BY <1>4, <1>6, <4>1, <4>2
    <3>3. QED
      BY <3>1, <3>2
  <2>3. w[3] # "*"
    <3>1. 1 \in 1..n /\ 1 + 2 = 3
      BY <1>2
    <3>2. w[1 + 2] = x.text[1]
      BY <2>1, <3>1
    <3>3. QED
      BY <1>4, <1>6, <3>1, <3>2
  <2>4. 2 # n + 3 /\ Len(w) \in Nat
    <3>1. n \in Nat /\ Len(w) = n + 3
      BY <1>2, <2>1
    <3>2. QED
      BY ONLY <3>1
  <2>5. \A i \in 1..Len(w) : /\ w[i] = "{" <=> i = 2
                             /\ w[i] = "}" <=> i = n + 3
    BY <2>1, <2>2, <2>4
  <2>6. QED
    BY <1>1, <1>6, <2>1, <2>3, <2>4, <2>5 DEF OwnBraces
<1>7. CASE x.kind = "catch_all"
  <2>1. /\ Len(w) = n + 4 /\ w[2] = "{" /\ w[3] = "*" /\ w[n + 4] = "}"
        /\ \A i \in 1..n : w[i + 3] = x.text[i]
    BY <1>1, <1>7 DEF Writes
  <2>2. ASSUME NEW i \in 1..Len(w), i # 2, i # n + 4 PROVE w[i] # "{" /\ w[i] # "}"
    <3>1. CASE i = 1 \/ i = 3
      BY <1>2, <2>1, <3>1
    <3>2. CASE i # 1 /\ i # 3
      <4>1. i - 3 \in 1..n /\ (i - 3) + 3 = i
        <5>1. n \in Nat /\ Len(w) = n + 4
          BY <1>2, <2>1
        <5>2. QED
          BY ONLY <5>1, <2>2, <3>2
      <4>2. w[(i - 3) + 3] = x.text[i - 3]
        BY <2>1, <4>1
      <4>3. QED
        BY <1>4, <1>7, <4>1, <4>2
    <3>3. QED
      BY <3>1, <3>2
  <2>4. 2 # n + 4 /\ Len(w) \in Nat
    <3>1. n \in Nat /\ Len(w) = n + 4
      BY <1>2, <2>1
    <3>2. QED
      BY ONLY <3>1
  <2>5. \A i \in 1..Len(w) : /\ w[i] = "{" <=> i = 2
                             /\ w[i] = "}" <=> i = n + 4
    BY <2>1, <2>2, <2>4
  <2>6. \A i \in 1..Len(w) : /\ w[i] = "{" <=> x.kind # "literal" /\ i = 2
                             /\ w[i] = "}" <=> x.kind # "literal" /\ i = Len(w)
    BY <1>7, <2>1, <2>5
  <2>7. QED
    BY <1>1, <1>7, <2>4, <2>6 DEF OwnBraces
<1>8. QED
  BY <1>2, <1>5, <1>6, <1>7 DEF Kind

\* w stands in s after the first a characters.
Stands(s, a, w) == a + Len(w) <= Len(s) /\ \A i \in 1..Len(w) : s[a + i] = w[i]

\* What is made of one segment: the segment without its star.
LEMMA KeySegment ==
    ASSUME NEW s \in Text, NEW K, KeyOf(s, K), NEW t \in Text, NEW x \in Segment, Proper(x),
           NEW w, w = Spelled(x), NEW v, v = Spelled(Starless(x)), NEW a \in Nat, NEW b \in Nat,
           Stands(s, a, w), Stands(t, b, v), Reached(s, K, t, b, a + 1)
    PROVE  Reached(s, K, t, b + Len(v), a + Len(w) + 1)
<1> DEFINE n == Len(x.text)
           y == Starless(x)
<1>0. n = Len(x.text) /\ w = Spelled(x)
  OBVIOUS
<1> HIDE DEF n
<1>1a. Writes(x, n, w) /\ OwnBraces(x, w)
  BY <1>0, BracesOf
<1>1. /\ Writes(x, n, w) /\ Len(w) \in Nat
      /\ \A i \in 1..Len(w) : w[i] = "{" => x.kind # "literal" /\ i = 2
      /\ x.kind = "parameter" => w[3] # "*"
  BY <1>1a DEF OwnBraces
<1>2. y \in Segment /\ Proper(y) /\ y.text = x.text /\ (x.kind # "catch_all" => y = x)
      /\ (y.kind = "literal" <=> x.kind = "literal") /\ y.kind # "catch_all"
  BY StarlessIs
<1>3. Writes(y, n, v) /\ Len(v) \in Nat
  BY <1>0, <1>2, BracesOf DEF OwnBraces
<1>4. Len(s) \in Nat /\ Len(t) \in Nat /\ a + Len(w) <= Len(s) /\ b + Len(v) <= Len(t)
  BY DEF Stands, Text
<1>5. n \in Nat \ {0}
  BY <1>1 DEF Writes
<1> HIDE DEF y
<1>6. CASE x.kind # "catch_all"
  <2>1. v = w
    BY <1>2, <1>6 DEF y
  <2>2. ASSUME NEW k \in 0..(Len(w) - 1)
        PROVE  ~Star(s, (a + 1) + k) /\ t[b + k + 1] = s[(a + 1) + k]
    <3>1. k + 1 \in 1..Len(w) /\ a + (k + 1) = (a + 1) + k /\ b + (k + 1) = b + k + 1
      <4>1. Len(w) \in Nat
        BY <1>1
      <4>2. QED
        BY ONLY <4>1, a \in Nat, b \in Nat, k \in 0..(Len(w) - 1)
    <3>2. s[a + (k + 1)] = w[k + 1] /\ t[b + (k + 1)] = w[k + 1]
      BY <2>1, <3>1 DEF Stands
    <3>3. CASE w[k + 1] = "{"
      <4>1. x.kind = "parameter" /\ k = 1
        <5>1. x.kind # "literal" /\ k + 1 = 2
          BY <1>1, <3>1, <3>3
        <5>2. x.kind \in Kind
          BY <1>1 DEF Writes
        <5>3. k = 1
          BY <5>1
        <5>4. QED
          BY <1>6, <5>1, <5>2, <5>3 DEF Kind
      <4>2. Len(w) = n + 3
        BY <1>1, <4>1 DEF Writes
      <4>3. 3 \in 1..Len(w)
        BY <1>5, <4>2
      <4>4. s[a + 3] # "*" /\ a + 3 = (a + 1) + k + 1
        <5>1. s[a + 3] = w[3]
          BY <4>3 DEF Stands
        <5>2. w[3] # "*"
          BY <1>1, <4>1
        <5>3. QED
          BY <4>1, <5>1, <5>2
      <4>5. QED
        BY <3>1, <3>2, <4>4 DEF Star
    <3>4. CASE w[k + 1] # "{"
      BY <3>1, <3>2, <3>4 DEF Star
    <3>5. QED
      BY <3>3, <3>4
  <2>3. b + Len(w) <= Len(t) /\ (a + 1) + Len(w) <= Len(s) + 1 /\ (a + 1) + Len(w) = a + Len(w) + 1
        /\ a + 1 \in Nat \ {0}
    <3>1. Len(w) \in Nat /\ b + Len(w) <= Len(t)
      BY <1>1, <1>4, <2>1
    <3>2. QED
      BY ONLY <1>4, <3>1, a \in Nat, b \in Nat
  <2>4. Reached(s, K, t, b + Len(w), (a + 1) + Len(w))
    BY <1>1, <2>2, <2>3, KeyRuns
  <2>5. QED
    BY <2>1, <2>3, <2>4
<1>7. CASE x.kind = "catch_all"
  <2>1. /\ Len(w) = n + 4 /\ w[1] = "/" /\ w[2] = "{" /\ w[3] = "*" /\ w[n + 4] = "}"
        /\ \A i \in 1..n : w[i + 3] = x.text[i]
    BY <1>1, <1>7 DEF Writes
  <2>2. /\ Len(v) = n + 3 /\ v[1] = "/" /\ v[2] = "{" /\ v[n + 3] = "}"
        /\ \A i \in 1..n : v[i + 2] = x.text[i]
    <3>1. y.kind = "parameter"
      <4>1. y.kind \in Kind /\ y.kind # "literal" /\ y.kind # "catch_all"
        BY <1>2, <1>3, <1>7 DEF Writes
      <4>2. QED
        BY <4>1 DEF Kind
    <3>2. QED
      BY <1>2, <1>3, <3>1 DEF Writes
  <2>3. Len(w) = n + 4 /\ Len(v) = n + 3 /\ a + (n + 4) <= Len(s) /\ b + (n + 3) <= Len(t)
    BY <1>4, <2>1, <2>2
  <2>4. /\ 1 \in 1..Len(w) /\ 2 \in 1..Len(w) /\ 3 \in 1..Len(w)
        /\ 1 \in 1..Len(v) /\ 2 \in 1..Len(v)
    BY ONLY <1>5, <2>3
  <2>5. /\ s[a + 1] = "/" /\ s[a + 2] = "{" /\ s[a + 3] = "*"
        /\ t[b + 1] = "/" /\ t[b + 2] = "{"
    BY <2>1, <2>2, <2>4 DEF Stands
  <2>6. Reached(s, K, t, b + 1, a + 2)
    <3>1. ~Star(s, a + 1)
      BY <2>5 DEF Star
    <3>2. a + 1 \in 1..Len(s) /\ b < Len(t) /\ (a + 1) + 1 = a + 2
      BY ONLY <1>4, <1>5, <2>3, a \in Nat, b \in Nat
    <3>3. Copies(s, t, b + 1, a + 1, a + 2)
      BY <2>5, <3>1, <3>2 DEF Copies
    <3>4. QED
      BY <3>2, <3>3, KeyGrows
  <2>7. Reached(s, K, t, b + 2, a + 4)
    <3>1. a + 2 \in 1..Len(s) /\ a + 2 < Len(s) /\ b + 1 < Len(t) /\ (a + 2) + 2 = a + 4
          /\ (b + 1) + 1 = b + 2 /\ (a + 2) + 1 = a + 3 /\ b + 1 \in Nat
      BY ONLY <1>4, <1>5, <2>3, a \in Nat, b \in Nat
    <3>2. Star(s, a + 2)
      BY <2>5, <3>1 DEF Star
    <3>3. Copies(s, t, (b + 1) + 1, a + 2, a + 4)
      BY <2>5, <3>1, <3>2 DEF Copies
    <3>4. QED
      BY <2>6, <3>1, <3>3, KeyGrows
  <2>8. ASSUME NEW k \in 0..((n + 1) - 1)
        PROVE  ~Star(s, (a + 4) + k) /\ t[(b + 2) + k + 1] = s[(a + 4) + k]
    <3>1. /\ k \in Nat /\ k <= n /\ k + 4 \in 1..Len(w) /\ k + 3 \in 1..Len(v) /\ k + 4 # 2
          /\ a + (k + 4) = (a + 4) + k /\ b + (k + 3) = (b + 2) + k + 1
      BY ONLY <1>5, <2>3, a \in Nat, b \in Nat, k \in 0..((n + 1) - 1)
    <3>2. s[a + (k + 4)] = w[k + 4] /\ t[b + (k + 3)] = v[k + 3]
      BY <3>1 DEF Stands
    <3>3. w[k + 4] # "{"
      BY <1>1, <3>1
    <3>4. w[k + 4] = v[k + 3]
      <4>1. CASE k = n
        <5>1. k + 4 = n + 4 /\ k + 3 = n + 3
          BY <4>1
        <5>2. QED
          BY <2>1, <2>2, <5>1
      <4>2. CASE k # n
        <5>1. k + 1 \in 1..n /\ (k + 1) + 3 = k + 4 /\ (k + 1) + 2 = k + 3
          BY ONLY <1>5, <3>1, <4>2
        <5>2. w[(k + 1) + 3] = x.text[k + 1] /\ v[(k + 1) + 2] = x.text[k + 1]
          BY <2>1, <2>2, <5>1
        <5>3. QED
          BY <5>1, <5>2
      <4>3. QED
        BY <4>1, <4>2
    <3>5. QED
      BY <3>1, <3>2, <3>3, <3>4 DEF Star
  <2>9. /\ n + 1 \in Nat /\ b + 2 \in Nat /\ a + 4 \in Nat \ {0}
        /\ (b + 2) + (n + 1) <= Len(t) /\ (a + 4) + (n + 1) <= Len(s) + 1
        /\ (b + 2) + (n + 1) = b + Len(v) /\ (a + 4) + (n + 1) = a + Len(w) + 1
    BY ONLY <1>4, <1>5, <2>3, a \in Nat, b \in Nat
  <2>10. Reached(s, K, t, (b + 2) + (n + 1), (a + 4) + (n + 1))
    BY <2>7, <2>8, <2>9, KeyRuns
  <2>11. QED
    BY <2>9, <2>10
<1>8. QED
  BY <1>6, <1>7

Template(p) == [i \in DOMAIN p |-> Starless(p[i])]

\* The segments of a template.
LEMMA TemplateIs ==
    ASSUME NEW p \in Seq(Segment), \A i \in DOMAIN p : Proper(p[i]), NEW q, q = Template(p)
    PROVE  /\ q \in Seq(Segment) /\ Len(q) = Len(p)
           /\ \A i \in 1..Len(p) : q[i] = Starless(p[i]) /\ Proper(q[i]) /\ q[i].kind # "catch_all"
<1>1. DOMAIN p = 1..Len(p) /\ Len(p) \in Nat
  OBVIOUS
<1>2. \A i \in 1..Len(p) : /\ Starless(p[i]) \in Segment /\ Proper(Starless(p[i]))
                           /\ Starless(p[i]).kind # "catch_all"
  <2>1. TAKE i \in 1..Len(p)
  <2>2. p[i] \in Segment /\ Proper(p[i])
    <3> HIDE DEF Segment
    <3>1. QED
      BY <1>1
  <2>3. QED
    BY <2>2, StarlessIs
<1>3. q = [i \in 1..Len(p) |-> Starless(p[i])]
  BY <1>1 DEF Template
<1>4. q \in Seq(Segment) /\ Len(q) = Len(p)
  <2> HIDE DEF Segment
  <2>1. QED
    BY <1>1, <1>2, <1>3
<1>5. QED
  BY <1>2, <1>3, <1>4

\* Where the k-th segment of q is written: after the first of them.
LEMMA SegmentStands ==
    ASSUME NEW q \in Seq(Segment), \A i \in DOMAIN q : Proper(q[i]), NEW k \in 1..Len(q)
    PROVE  /\ Stands(Rendered(q), Len(Spellings(q)[k - 1]), Spelled(q[k]))
           /\ Len(Spellings(q)[k]) = Len(Spellings(q)[k - 1]) + Len(Spelled(q[k]))
           /\ Len(Spellings(q)[k - 1]) \in Nat
           /\ k = Len(q) => Len(Spellings(q)[k]) = Len(Rendered(q))
<1> DEFINE s == Rendered(q)
           a == Spellings(q)[k - 1]
           b == Spellings(q)[k]
           w == Spelled(q[k])
<1>1. Holds(s, a, w, b, k = Len(q))
  BY RenderedHolds
<1> HIDE DEF s, a, b, w
<1>2. Continues(a, w, b) /\ (\A i \in 1..Len(b) : s[i] = b[i])
  BY <1>1 DEF Holds
<1>3. /\ Len(a) \in Nat /\ Len(w) \in Nat /\ Len(b) = Len(a) + Len(w)
      /\ \A i \in 1..Len(w) : b[Len(a) + i] = w[i]
  BY <1>2 DEF Continues
<1>4. /\ Len(b) <= Len(s) /\ (k = Len(q) => Len(b) = Len(s))
  <2>1. CASE k = Len(q)
    <3>1. Len(b) = Len(s)
      BY <1>1, <2>1 DEF Holds
    <3>2. QED
      BY <1>3, <3>1
  <2>2. CASE k # Len(q)
    <3>1. Len(b) < Len(s)
      BY <1>1, <2>2 DEF Holds
    <3>2. Len(s) \in Nat
      <4>1. s \in Text
        <5>1. q # <<>> /\ Len(q) \in 0..Len(q)
          OBVIOUS
        <5>2. QED
          BY <5>1, SpellingsAre DEF s, Rendered
      <4>2. QED
        BY <4>1 DEF Text
    <3>3. QED
      BY <1>3, <2>2, <3>1, <3>2
  <2>3. QED
    BY <2>1, <2>2
<1>5. \A i \in 1..Len(w) : s[Len(a) + i] = w[i]
  <2>1. TAKE i \in 1..Len(w)
  <2>2. Len(a) + i \in 1..Len(b)
    BY <1>3
  <2>3. QED
    BY <1>2, <1>3, <2>2
<1>6. Len(a) + Len(w) <= Len(s)
  BY <1>3, <1>4
<1>7. QED
  BY <1>3, <1>4, <1>5, <1>6 DEF Stands, s, a, b, w

LEMMA RenderedIsText ==
    ASSUME NEW q \in Seq(Segment), \A i \in DOMAIN q : Proper(q[i])
    PROVE  Rendered(q) \in Text /\ Len(Rendered(q)) \in Nat
<1>1. CASE q = <<>>
  <2>1. <<"/">> \in Seq(Char)
    BY Delimiters, Short
  <2>2. QED
    BY <1>1, <2>1 DEF Rendered, Text
<1>2. CASE q # <<>>
  <2>1. Len(q) \in 0..Len(q)
    OBVIOUS
  <2>2. Spellings(q)[Len(q)] \in Text
    BY <2>1, SpellingsAre
  <2>3. QED
    BY <1>2, <2>2 DEF Rendered, Text
<1>3. QED
  BY <1>1, <1>2

\* The key of a route is how its pattern is written without the star.
LEMMA KeyIsTemplate ==
    ASSUME NEW p \in Seq(Segment), \A i \in DOMAIN p : Proper(p[i])
    PROVE  append_openapi_path(Rendered(p)) = Rendered(Template(p))
<1> DEFINE s == Rendered(p)
           q == Template(p)
           t == Rendered(q)
           A(k) == Len(Spellings(p)[k])
           B(k) == Len(Spellings(q)[k])
           n == Len(p)
<1>1. /\ q \in Seq(Segment) /\ Len(q) = n /\ n \in Nat
      /\ \A i \in 1..n : q[i] = Starless(p[i]) /\ Proper(q[i]) /\ q[i].kind # "catch_all"
  BY TemplateIs
<1>2. \A i \in DOMAIN q : Proper(q[i])
  BY <1>1
<1>3. s \in Text /\ t \in Text /\ Len(s) \in Nat /\ Len(t) \in Nat
  BY <1>1, <1>2, RenderedIsText
<1>4. PICK K : KeyOf(s, K)
  BY <1>3, KeyTurns DEF KeyOf
<1>5. Reached(s, K, t, 0, 1)
  <2>1. SubSeq(t, 1, 0) = <<>>
    BY SubSeqEmpty
  <2>2. K[1] \in Seq(Char)
    <3>1. 1 \in 1..(Len(s) + 1)
      BY <1>3
    <3>2. QED
      BY <1>4, <3>1 DEF KeyOf, Text
  <2>3. <<>> \o K[1] = K[1]
    BY <2>2, ConcatEmptySeq
  <2>4. QED
    BY <1>4, <2>1, <2>3 DEF KeyOf, Reached
<1>6. ASSUME Reached(s, K, t, Len(t), Len(s) + 1) PROVE append_openapi_path(s) = t
  <2>1. SubSeq(t, 1, Len(t)) = t
    BY <1>3, SubSeqFull DEF Text
  <2>2. K[Len(s) + 1] = <<>>
    <3>1. Len(s) + 1 \in Nat /\ Len(s) + 1 > Len(s)
      BY <1>3
    <3>2. QED
      BY <1>4, <3>1 DEF KeyOf, Keying, KeyTurn
  <2>3. t \o <<>> = t
    BY <1>3, ConcatEmptySeq DEF Text
  <2>4. QED
    BY <1>6, <2>1, <2>2, <2>3 DEF Reached
<1>7. CASE p = <<>>
  <2>1. q = <<>>
    BY <1>1, <1>7
  <2>2. s = <<"/">> /\ t = <<"/">>
    BY <1>7, <2>1 DEF Rendered
  <2>3. Len(s) = 1 /\ Len(t) = 1 /\ s[1] = "/" /\ t[1] = "/" /\ 1 \in 1..Len(s)
    BY <2>2
  <2>4. Copies(s, t, 0 + 1, 1, 2)
    BY <2>3 DEF Copies, Star
  <2>5. Reached(s, K, t, 0 + 1, 2)
    <3> HIDE DEF s, t
    <3>1. 0 \in Nat /\ 0 < Len(t) /\ 1 \in 1..Len(s)
      BY <2>3
    <3>2. QED
      BY <1>3, <1>4, <1>5, <2>4, <3>1, KeyGrows
  <2>6. 0 + 1 = Len(t) /\ 2 = Len(s) + 1
    BY <2>3
  <2>7. QED
    BY <1>6, <2>5, <2>6
<1>8. CASE p # <<>>
  <2> DEFINE Part(k) == Reached(s, K, t, B(k), A(k) + 1)
             D == {k \in 0..n : ~Part(k)}
  <2>1. n \in 1..n /\ n \in 0..n
    BY <1>1, <1>8
  <2>2. Part(0)
    <3>1. Spellings(p)[0] = <<>> /\ Spellings(q)[0] = <<>>
      BY <1>1, <1>2, SpellingsAre
    <3>2. A(0) = 0 /\ B(0) = 0 /\ 0 + 1 = 1
      BY <3>1
    <3> HIDE DEF A, B, s, t
    <3>3. QED
      BY <1>5, <3>2
  <2>3. ASSUME NEW k \in 1..n, Part(k - 1) PROVE Part(k)
    <3> DEFINE x == p[k]
               w == Spelled(x)
               v == Spelled(Starless(x))
    <3>1. x \in Segment /\ Proper(x) /\ q[k] = Starless(x) /\ k \in DOMAIN p /\ k \in 1..Len(q)
      <4> HIDE DEF Segment, q
      <4>1. QED
        BY <1>1
    <3>2. Stands(s, A(k - 1), w) /\ A(k) = A(k - 1) + Len(w) /\ A(k - 1) \in Nat
      BY <3>1, SegmentStands
    <3>3. Stands(t, B(k - 1), v) /\ B(k) = B(k - 1) + Len(v) /\ B(k - 1) \in Nat
      <4>1. /\ Stands(t, B(k - 1), Spelled(q[k])) /\ B(k) = B(k - 1) + Len(Spelled(q[k]))
            /\ B(k - 1) \in Nat
        <5> HIDE DEF q
        <5>1. QED
          BY <1>1, <1>2, <3>1, SegmentStands
      <4>2. QED
        BY <3>1, <4>1
    <3>4. w = Spelled(x) /\ v = Spelled(Starless(x))
      OBVIOUS
    <3> HIDE DEF A, B, s, t, q, x, w, v
    <3>5. Reached(s, K, t, B(k - 1) + Len(v), A(k - 1) + Len(w) + 1)
      BY <1>3, <1>4, <2>3, <3>1, <3>2, <3>3, <3>4, KeySegment
    <3>6. QED
      BY <3>2, <3>3, <3>5
  <2>4. D = {}
    <3>1. SUFFICES ASSUME D # {} PROVE FALSE
      OBVIOUS
    <3> HIDE DEF Part
    <3>2. PICK k \in D : \A r \in D : k <= r
      <4>1. D \in SUBSET Nat
        BY <1>1
      <4> HIDE DEF D
      <4>2. QED
        BY <3>1, <4>1, FirstPosition
    <3>3. k \in 1..n /\ k - 1 \in 0..n /\ k - 1 \notin D /\ ~Part(k)
      BY <1>1, <2>2, <3>2
    <3>4. QED
      BY <2>3, <3>3
  <2>5. Part(n)
    BY <2>1, <2>4
  <2>6. A(n) = Len(s) /\ B(n) = Len(t)
    <3>1. A(n) = Len(s)
      BY <1>8, <2>1 DEF Rendered
    <3>2. q # <<>>
      BY <1>1, <1>8
    <3>3. t = Spellings(q)[Len(q)] /\ Len(q) = n
      BY <1>1, <3>2 DEF Rendered
    <3>4. QED
      BY <3>1, <3>3
  <2>7. QED
    BY <1>6, <2>5, <2>6
<1>9. QED
  BY <1>7, <1>8

\* Every place of a text is in one of its segments.
LEMMA SomeSegment ==
    ASSUME NEW q \in Seq(Segment), \A i \in DOMAIN q : Proper(q[i]), q # <<>>,
           NEW i \in 1..Len(Rendered(q))
    PROVE  \E k \in 1..Len(q) : \E m \in 1..Len(Spelled(q[k])) : i = Len(Spellings(q)[k - 1]) + m
<1> DEFINE n == Len(q)
           A(k) == Len(Spellings(q)[k])
           S == {k \in 0..n : i <= A(k)}
<1>1. n \in Nat /\ n \in 1..n /\ n \in 0..n
  OBVIOUS
<1>2. Len(Rendered(q)) \in Nat /\ A(n) = Len(Rendered(q)) /\ i \in Nat /\ i >= 1
  <2>1. Len(Rendered(q)) \in Nat
    BY RenderedIsText
  <2>2. A(n) = Len(Rendered(q))
    BY <1>1, SegmentStands
  <2>3. QED
    BY <2>1, <2>2
<1>3. A(0) = 0
  <2>1. Spellings(q)[0] = <<>>
    BY SpellingsAre
  <2>2. QED
    BY <2>1
<1>4. PICK k \in S : \A r \in S : k <= r
  <2>1. n \in S
    <3> HIDE DEF A
    <3>1. QED
      BY <1>1, <1>2
  <2>2. S \in SUBSET Nat /\ S # {}
    BY <1>1, <2>1
  <2> HIDE DEF S
  <2>3. QED
    BY <2>2, FirstPosition
<1>5. k \in 0..n /\ i <= A(k)
  OBVIOUS
<1>6. k \in 1..n /\ k - 1 \in 0..n /\ ~(i <= A(k - 1))
  <2> HIDE DEF A
  <2>1. k # 0
    BY <1>2, <1>3, <1>5
  <2>2. k \in 1..n /\ k - 1 \in 0..n /\ ~(k <= k - 1)
    BY <1>1, <1>5, <2>1
  <2>3. QED
    BY <1>4, <2>2
<1>7. A(k) = A(k - 1) + Len(Spelled(q[k])) /\ A(k - 1) \in Nat
  BY <1>6, SegmentStands
<1> HIDE DEF A
<1>8. Len(Spelled(q[k])) \in Nat
  <2>1. q[k] \in Segment /\ Proper(q[k])
    <3> HIDE DEF Segment
    <3>1. QED
      BY <1>6
  <2>2. QED
    BY <2>1, SpelledHasOneSlash
<1>9. i - A(k - 1) \in 1..Len(Spelled(q[k])) /\ i = A(k - 1) + (i - A(k - 1))
  BY <1>2, <1>5, <1>6, <1>7, <1>8
<1>10. QED
  BY <1>6, <1>9 DEF A

\* An opening brace and the next closing one.
Encloses(s, i, j) ==
    /\ i < j /\ s[i] = "{" /\ s[j] = "}"
    /\ \A k \in (i + 1)..(j - 1) : s[k] # "}"

\* In s the name v of n characters stands in braces after the first a + 1 characters.
Placeholder(s, a, n, v) ==
    /\ a \in Nat /\ n \in Nat \ {0} /\ a + n + 3 <= Len(s)
    /\ Encloses(s, a + 2, a + n + 3)
    /\ SubSeq(s, a + 3, a + n + 2) = v

\* The braces of a text are those of its placeholders, around their names.
LEMMA BracesAreHolders ==
    ASSUME NEW q \in Seq(Segment),
           \A i \in DOMAIN q : Proper(q[i]) /\ q[i].kind # "catch_all",
           NEW k \in Placeholders(q)
    PROVE  Placeholder(Rendered(q), Len(Spellings(q)[k - 1]), Len(q[k].text), q[k].text)
<1> DEFINE x == q[k]
           w == Spelled(x)
           s == Rendered(q)
           a == Len(Spellings(q)[k - 1])
           n == Len(q[k].text)
<1>1. k \in 1..Len(q) /\ x.kind # "literal" /\ x.kind # "catch_all" /\ Proper(x)
  BY DEF Placeholders
<1>2. x \in Segment
  <2> HIDE DEF Segment
  <2>1. QED
    BY <1>1
<1>3. Stands(s, a, w) /\ a \in Nat
  BY <1>1, SegmentStands
<1>4. n = Len(x.text) /\ w = Spelled(x)
  OBVIOUS
<1> HIDE DEF x, w, s, a, n
<1>5. Writes(x, n, w) /\ OwnBraces(x, w)
  BY <1>1, <1>2, <1>4, BracesOf
<1>6. x.kind = "parameter" /\ n \in Nat \ {0} /\ x.text \in Seq(Char)
  <2>1. x.kind \in Kind
    BY <1>5 DEF Writes
  <2>2. QED
    BY <1>1, <1>5, <2>1 DEF Writes, Kind
<1>7. Len(w) = n + 3 /\ w[2] = "{" /\ w[n + 3] = "}" /\ \A i \in 1..n : w[i + 2] = x.text[i]
  BY <1>5, <1>6 DEF Writes
<1>8. Len(w) = n + 3 /\ a + (n + 3) <= Len(s)
  BY <1>3, <1>7 DEF Stands
<1>9. \A i \in 1..(n + 3) : s[a + i] = w[i]
  BY <1>3, <1>8 DEF Stands
<1>10. Encloses(s, a + 2, a + n + 3)
  <2>1. /\ 2 \in 1..(n + 3) /\ n + 3 \in 1..(n + 3) /\ a + (n + 3) = a + n + 3
        /\ a + 2 < a + n + 3
    BY ONLY <1>3, <1>6
  <2>2. s[a + 2] = "{" /\ s[a + n + 3] = "}"
    BY <1>7, <1>9, <2>1
  <2>3. ASSUME NEW i \in ((a + 2) + 1)..((a + n + 3) - 1) PROVE s[i] # "}"
    <3>1. i - a \in 1..(n + 3) /\ i - a # n + 3 /\ a + (i - a) = i
      BY ONLY <1>3, <1>6, i \in ((a + 2) + 1)..((a + n + 3) - 1)
    <3>2. s[a + (i - a)] = w[i - a]
      BY <1>9, <3>1
    <3>3. w[i - a] # "}"
      BY <1>5, <1>8, <3>1 DEF OwnBraces
    <3>4. QED
      BY <3>1, <3>2, <3>3
  <2>4. QED
    BY <2>1, <2>2, <2>3 DEF Encloses
<1>11. SubSeq(s, a + 3, a + n + 2) = x.text
  <2> DEFINE u == SubSeq(s, a + 3, a + n + 2)
  <2>1. a + 3 \in Int /\ a + n + 2 \in Int /\ a + 3 <= a + n + 2 /\ (a + n + 2) - (a + 3) + 1 = n
    BY ONLY <1>3, <1>6
  <2>2. DOMAIN x.text = 1..n /\ Len(x.text) = n /\ \A i \in 1..n : x.text[i] \in Char
    BY ONLY <1>4, <1>6
  <2>3. \A i \in 1..n : s[(a + 3) + i - 1] = x.text[i]
    <3>1. TAKE i \in 1..n
    <3>2. i + 2 \in 1..(n + 3) /\ a + (i + 2) = (a + 3) + i - 1
      BY ONLY <1>3, <1>6, i \in 1..n
    <3>3. s[a + (i + 2)] = w[i + 2] /\ w[i + 2] = x.text[i]
      BY <1>7, <1>9, <3>2
    <3>4. QED
      BY <3>2, <3>3
  <2>4. \A i \in (a + 3)..(a + n + 2) : s[i] \in Char
    <3>1. TAKE i \in (a + 3)..(a + n + 2)
    <3>2. i - a - 2 \in 1..n /\ (a + 3) + (i - a - 2) - 1 = i
      BY ONLY <1>3, <1>6, i \in (a + 3)..(a + n + 2)
    <3>3. s[(a + 3) + (i - a - 2) - 1] = x.text[i - a - 2]
      BY <2>3, <3>2
    <3>4. x.text[i - a - 2] \in Char
      BY <2>2, <3>2
    <3>5. QED
      BY <3>2, <3>3, <3>4
  <2>5. u \in Seq(Char) /\ Len(u) = n /\ \A i \in 1..n : u[i] = s[(a + 3) + i - 1]
    <3> DEFINE f == a + 3
               l == a + n + 2
    <3>1. f \in Int /\ l \in Int /\ f <= l /\ l - f + 1 = n /\ \A i \in f..l : s[i] \in Char
      BY <2>1, <2>4
    <3> HIDE DEF f, l
    <3>2. /\ SubSeq(s, f, l) \in Seq(Char) /\ Len(SubSeq(s, f, l)) = n
          /\ \A i \in 1..n : SubSeq(s, f, l)[i] = s[f + i - 1]
      BY <3>1, SubSeqProperties
    <3>3. QED
      BY <3>2 DEF f, l
  <2> HIDE DEF u
  <2>6. \A i \in 1..n : u[i] = x.text[i]
    BY <2>3, <2>5
  <2>7. u = x.text
    <3>1. u \in Seq(Char) /\ x.text \in Seq(Char) /\ Len(u) = Len(x.text)
          /\ \A i \in 1..Len(u) : u[i] = x.text[i]
      BY <1>6, <2>2, <2>5, <2>6
    <3>2. QED
      BY ONLY <3>1, SMTT(30)
  <2>8. QED
    BY <2>7 DEF u
<1>12. a + n + 3 <= Len(s)
  BY ONLY <1>3, <1>6, <1>8
<1>13. QED
  BY <1>3, <1>6, <1>10, <1>11, <1>12 DEF Placeholder, x, s, a, n

\* The brace at i is closed by one brace only.
LEMMA ClosesOnce ==
    ASSUME NEW s, NEW i \in Nat, NEW j \in Nat, NEW e \in Nat,
           Encloses(s, i, j), Encloses(s, i, e)
    PROVE  j = e
<1>1. ASSUME NEW x \in Nat, NEW y \in Nat, Encloses(s, i, x), Encloses(s, i, y) PROVE ~(x < y)
  <2>1. s[x] = "}" /\ \A r \in (i + 1)..(y - 1) : s[r] # "}"
    BY <1>1 DEF Encloses
  <2>2. i < x
    BY <1>1 DEF Encloses
  <2>3. x < y => x \in (i + 1)..(y - 1)
    BY <2>2
  <2>4. QED
    BY <2>1, <2>3
<1>2. ~(j < e) /\ ~(e < j)
  BY <1>1
<1>3. QED
  BY <1>2

LEMMA PlacedIs ==
    ASSUME NEW q \in Seq(Segment),
           \A i \in DOMAIN q : Proper(q[i]) /\ q[i].kind # "catch_all"
    PROVE  Placed(Rendered(q)) = {q[k].text : k \in Placeholders(q)}
<1> DEFINE s == Rendered(q)
           A(h) == Len(Spellings(q)[h - 1])
           N(h) == Len(q[h].text)
<1>1. \A v : v \in Placed(s) <=>
                \E i, j \in DOMAIN s : Encloses(s, i, j) /\ v = SubSeq(s, i + 1, j - 1)
  <2> HIDE DEF s
  <2> DEFINE D == DOMAIN s
             P == {p \in D \X D : Encloses(s, p[1], p[2])}
  <2>1. Placed(s) = {SubSeq(s, p[1] + 1, p[2] - 1) : p \in P}
    BY DEF Placed, Encloses
  <2>2. ASSUME NEW v \in Placed(s)
        PROVE  \E i, j \in D : Encloses(s, i, j) /\ v = SubSeq(s, i + 1, j - 1)
    <3>1. PICK p \in P : v = SubSeq(s, p[1] + 1, p[2] - 1)
      BY <2>1, <2>2
    <3>2. p[1] \in D /\ p[2] \in D /\ Encloses(s, p[1], p[2])
      <4> HIDE DEF D
      <4>1. QED
        BY <3>1
    <3>3. QED
      BY <3>1, <3>2
  <2>3. ASSUME NEW i \in D, NEW j \in D, Encloses(s, i, j)
        PROVE  SubSeq(s, i + 1, j - 1) \in Placed(s)
    <3> DEFINE p == <<i, j>>
    <3>1. p[1] = i /\ p[2] = j /\ p \in D \X D
      BY <2>3
    <3> HIDE DEF p
    <3>2. p \in P
      BY <2>3, <3>1
    <3> HIDE DEF P
    <3>3. QED
      BY <2>1, <3>1, <3>2
  <2>4. QED
    BY <2>2, <2>3
<1>2. s \in Text /\ Len(s) \in Nat /\ DOMAIN s = 1..Len(s)
  <2>1. s \in Text /\ Len(s) \in Nat
    BY RenderedIsText
  <2>2. QED
    BY <2>1 DEF Text
<1>3. \A k \in Placeholders(q) :
         /\ A(k) \in Nat /\ N(k) \in Nat \ {0} /\ A(k) + N(k) + 3 <= Len(s)
         /\ Encloses(s, A(k) + 2, A(k) + N(k) + 3)
         /\ SubSeq(s, A(k) + 3, A(k) + N(k) + 2) = q[k].text
  <2>1. \A k \in Placeholders(q) : Placeholder(s, A(k), N(k), q[k].text)
    BY BracesAreHolders
  <2> HIDE DEF s, A, N
  <2>2. QED
    BY <2>1 DEF Placeholder
<1>4. ASSUME NEW i \in DOMAIN s, s[i] = "{" PROVE \E k \in Placeholders(q) : i = A(k) + 2
  <2>1. q # <<>>
    <3>1. CASE q = <<>>
      <4>1. s = <<"/">>
        BY <3>1 DEF Rendered
      <4>2. i = 1 /\ s[1] = "/"
        BY <4>1
      <4>3. QED
        BY <1>4, <4>2
    <3>2. QED
      BY <3>1
  <2>2a. PICK k \in 1..Len(q) : \E m \in 1..Len(Spelled(q[k])) : i = A(k) + m
    <3>1. i \in 1..Len(s)
      BY <1>2
    <3>2. QED
      BY <2>1, <3>1, SomeSegment
  <2>2. PICK m \in 1..Len(Spelled(q[k])) : i = A(k) + m
    BY <2>2a
  <2> DEFINE w == Spelled(q[k])
  <2>3. q[k] \in Segment /\ Proper(q[k])
    <3> HIDE DEF Segment
    <3>1. QED
      OBVIOUS
  <2>4. OwnBraces(q[k], w)
    BY <2>3, BracesOf
  <2>5. Stands(s, A(k), w)
    BY SegmentStands
  <2> HIDE DEF w, s, A
  <2>6. m \in 1..Len(w) /\ s[A(k) + m] = w[m]
    BY <2>5 DEF Stands, w
  <2>7. q[k].kind # "literal" /\ m = 2
    BY <1>4, <2>2, <2>4, <2>6 DEF OwnBraces
  <2>8. k \in Placeholders(q)
    BY <2>7 DEF Placeholders
  <2>9. QED
    BY <2>2, <2>7, <2>8
<1> HIDE DEF s, A, N
<1>5. ASSUME NEW v \in Placed(s) PROVE \E k \in Placeholders(q) : v = q[k].text
  <2>1. PICK i \in DOMAIN s, j \in DOMAIN s : Encloses(s, i, j) /\ v = SubSeq(s, i + 1, j - 1)
    BY <1>1
  <2>2. PICK k \in Placeholders(q) : i = A(k) + 2
    BY <1>4, <2>1 DEF Encloses
  <2> DEFINE e == A(k) + N(k) + 3
  <2>3. /\ A(k) \in Nat /\ N(k) \in Nat \ {0} /\ e <= Len(s)
        /\ Encloses(s, A(k) + 2, e)
        /\ SubSeq(s, A(k) + 3, A(k) + N(k) + 2) = q[k].text
    BY <1>3
  <2>4. j = e
    <3>0. DOMAIN s \in SUBSET Nat
      BY <1>2
    <3>1. i \in Nat /\ j \in Nat /\ e \in Nat /\ i < e
      <4>1. i \in Nat /\ j \in Nat
        BY <2>1, <3>0
      <4>2. A(k) \in Nat /\ N(k) \in Nat
        BY <2>3
      <4>3. e \in Nat /\ i < e
        BY ONLY <2>2, <4>2
      <4>4. QED
        BY <4>1, <4>3
    <3> HIDE DEF e
    <3>2. Encloses(s, i, j) /\ Encloses(s, i, e)
      BY <2>1, <2>2, <2>3
    <3>3. QED
      BY ONLY <3>1, <3>2, ClosesOnce
  <2>5. i + 1 = A(k) + 3 /\ j - 1 = A(k) + N(k) + 2
    <3>1. A(k) \in Nat /\ N(k) \in Nat
      BY <2>3
    <3>2. QED
      BY ONLY <2>2, <2>4, <3>1
  <2>6. QED
    BY <2>1, <2>3, <2>5
<1>6. ASSUME NEW k \in Placeholders(q) PROVE q[k].text \in Placed(s)
  <2> DEFINE i == A(k) + 2
             j == A(k) + N(k) + 3
  <2>1. /\ A(k) \in Nat /\ N(k) \in Nat \ {0} /\ j <= Len(s) /\ Encloses(s, i, j)
        /\ SubSeq(s, A(k) + 3, A(k) + N(k) + 2) = q[k].text
    BY <1>3
  <2>2. i \in DOMAIN s /\ j \in DOMAIN s /\ i + 1 = A(k) + 3 /\ j - 1 = A(k) + N(k) + 2
    <3>1. Len(s) \in Nat /\ A(k) \in Nat /\ N(k) \in Nat \ {0} /\ j <= Len(s)
      BY <1>2, <2>1
    <3>2. i \in 1..Len(s) /\ j \in 1..Len(s) /\ i + 1 = A(k) + 3 /\ j - 1 = A(k) + N(k) + 2
      BY ONLY <3>1
    <3>3. QED
      BY <1>2, <3>2
  <2> HIDE DEF i, j
  <2>3. QED
    BY <1>1, <2>1, <2>2
<1>7. QED
  BY <1>5, <1>6 DEF s

\* A client reads in the key of a route the names of its placeholders, star or not.
LEMMA KeyNames ==
    ASSUME NEW p \in Seq(Segment), \A i \in DOMAIN p : Proper(p[i])
    PROVE  Placed(append_openapi_path(Rendered(p))) = {p[k].text : k \in Placeholders(p)}
<1> DEFINE q == Template(p)
<1>1. /\ q \in Seq(Segment) /\ Len(q) = Len(p)
      /\ \A i \in 1..Len(p) : q[i] = Starless(p[i]) /\ Proper(q[i]) /\ q[i].kind # "catch_all"
  BY TemplateIs
<1>2. DOMAIN q = 1..Len(p) /\ DOMAIN p = 1..Len(p)
  <2> HIDE DEF q
  <2>1. QED
    BY <1>1
<1>3. \A i \in 1..Len(p) : q[i].text = p[i].text /\ (q[i].kind = "literal" <=> p[i].kind = "literal")
  <2>1. TAKE i \in 1..Len(p)
  <2>2. p[i] \in Segment /\ Proper(p[i])
    <3> HIDE DEF Segment
    <3>1. QED
      BY <1>2
  <2>3. QED
    BY <1>1, <2>2, StarlessIs
<1> HIDE DEF q
<1>4. Placeholders(q) = Placeholders(p)
  BY <1>2, <1>3 DEF Placeholders
<1>5. {q[k].text : k \in Placeholders(q)} = {p[k].text : k \in Placeholders(p)}
  <2>1. \A k \in Placeholders(p) : q[k].text = p[k].text
    BY <1>2, <1>3 DEF Placeholders
  <2>2. QED
    BY <1>4, <2>1
<1>6. Placed(Rendered(q)) = {q[k].text : k \in Placeholders(q)}
  BY <1>1, <1>2, PlacedIs
<1>7. QED
  BY <1>5, <1>6, KeyIsTemplate DEF q

PathPlaces(e, p) == {k \in DOMAIN e.params : parameter_source(e, p, e.params[k]) = "path"}

NamesIn(p) == {p[i].text : i \in Placeholders(p)}

\* The parameters of an endpoint that are bound from the path, and the placeholders of its
\* route: the same names, and as many of the ones as of the others.
LEMMA PathParameters ==
    ASSUME NEW e, e.params \in Seq(Parameter), NEW p, Sound(p), validate_endpoint_binding(e, p) = "none"
    PROVE  /\ {wire_name(e.params[k]) : k \in PathPlaces(e, p)} = NamesIn(p)
           /\ Cardinality(PathPlaces(e, p)) = Cardinality(NamesIn(p))
<1> DEFINE F == {k \in DOMAIN e.params : parameter_source(e, p, e.params[k]) = "path"}
           N == {p[i].text : i \in Placeholders(p)}
           w(k) == wire_name(e.params[k])
           f == [k \in F |-> w(k)]
<1>1. every_placeholder_is_bound_once(e, p) /\ every_explicit_path_exists(e, p)
  BY DEF validate_endpoint_binding
<1>2. ASSUME NEW k \in F PROVE \E i \in Placeholders(p) : w(k) = p[i].text
  <2>1. Named(p, w(k))
    BY <1>1, <1>2 DEF every_explicit_path_exists
  <2>2. QED
    BY <2>1 DEF Named
<1>3. ASSUME NEW i \in Placeholders(p)
      PROVE  \E k \in F : \A l \in F : w(l) = p[i].text <=> l = k
  <2>1. PICK k \in DOMAIN e.params : \A j \in DOMAIN e.params : Binds(e.params[j], p[i].text) <=> j = k
    BY <1>1, <1>3 DEF every_placeholder_is_bound_once
  <2>2. \A j \in DOMAIN e.params : j \in F /\ w(j) = p[i].text <=> j = k
    <3>1. TAKE j \in DOMAIN e.params
    <3>2. Binds(e.params[j], p[i].text) <=> parameter_source(e, p, e.params[j]) = "path" /\ w(j) = p[i].text
      <4> DEFINE x == e.params[j]
      <4> HIDE DEF x, F
      <4>1. Binds(x, p[i].text) <=> parameter_source(e, p, x) = "path" /\ wire_name(x) = p[i].text
        BY ONLY <1>3, BindsAgrees, Zenon
      <4>2. QED
        BY ONLY <4>1, Zenon DEF x
    <3>3. j \in F <=> parameter_source(e, p, e.params[j]) = "path"
      BY <3>1
    <3> HIDE DEF F, w
    <3>4. QED
      BY ONLY <2>1, <3>1, <3>2, <3>3, Zenon
  <2>3. QED
    BY <2>1, <2>2
<1> HIDE DEF w
<1>4. \A k \in F : w(k) \in N
  BY <1>2
<1>5. \A n \in N : \E k \in F : w(k) = n
  BY <1>3
<1>6. {w(k) : k \in F} = N
  <2> HIDE DEF F, N
  <2>1. QED
    BY <1>4, <1>5
<1> HIDE DEF F, N
<1>7. ExistsBijection(F, N)
  <2>1. \A k, l \in F : w(k) = w(l) => k = l
    <3>1. TAKE k, l \in F
    <3>2. PICK i \in Placeholders(p) : w(k) = p[i].text
      BY <1>2
    <3>3. PICK m \in F : \A h \in F : w(h) = p[i].text <=> h = m
      BY <1>3
    <3>4. QED
      BY <3>2, <3>3
  <2>2. f \in [F -> N] /\ \A k \in F : f[k] = w(k)
    BY <1>4
  <2> HIDE DEF f
  <2>3. f \in Injection(F, N)
    <3>1. \A k, l \in F : f[k] = f[l] => k = l
      BY <2>1, <2>2
    <3>2. QED
      BY <2>2, <3>1 DEF Injection, IsInjective
  <2>4. f \in Surjection(F, N)
    <3>1. \A n \in N : \E k \in F : f[k] = n
      BY <1>5, <2>2
    <3>2. QED
      BY <2>2, <3>1 DEF Surjection
  <2>5. QED
    BY <2>3, <2>4 DEF Bijection, ExistsBijection
<1>8. IsFiniteSet(F)
  <2>1. Len(e.params) \in Nat /\ DOMAIN e.params = 1..Len(e.params)
    OBVIOUS
  <2>2. F \in SUBSET Nat /\ \A k \in F : k <= Len(e.params)
    BY <2>1 DEF F
  <2>3. QED
    BY <2>1, <2>2, FS_BoundedSetOfNaturals
<1>9. Cardinality(N) = Cardinality(F)
  BY <1>7, <1>8, FS_Bijection
<1>10. QED
  BY <1>6, <1>9 DEF w, F, N, PathPlaces, NamesIn

\* An endpoint that compiled has the pattern its path is the text of.
DrawnApi ==
    \A i \in DOMAIN api :
        Permitted(api[i].pattern) /\ Rendered(api[i].pattern) = declared[i].path

LEMMA NextDrawnApi ==
    ASSUME CompileInv, GrammarExact, DrawnApi, [ApiNext]_vars
    PROVE  DrawnApi'
<1>1. ASSUME UNCHANGED <<api, program>> PROVE DrawnApi'
  <2>1. api' = api /\ declared' = declared
    BY <1>1 DEF declared
  <2>2. \A i \in DOMAIN api' : Permitted(api'[i].pattern) /\ Rendered(api'[i].pattern) = declared[i].path
    BY <2>1 DEF DrawnApi
  <2>3. QED
    BY <2>1, <2>2, ZenonT(40) DEF DrawnApi, Permitted, Sound, Placeholders, Rendered, Spellings
<1>2. CASE CompileEndpoint
  <2> DEFINE n == Len(api) + 1
             x == [method |-> declared[n].method, pattern |-> segments]
  <2>1. stage = "parse" /\ UNCHANGED program /\ declared' = declared
    BY <1>2 DEF CompileEndpoint, declared
  <2>2. api' = api \/ (api' = Append(api, x) /\ error = "none")
    BY <1>2 DEF CompileEndpoint
  <2>3. /\ source = declared[n].path /\ (error = "none" => source # <<>>)
        /\ Len(api) \in Nat /\ DOMAIN api = 1..Len(api)
        /\ api = [k \in 1..Len(api) |-> api[k]]
    BY <2>1, SMTT(30) DEF CompileInv, Apis
  <2> HIDE DEF x
  <2>4. CASE api' = Append(api, x) /\ error = "none"
    <3>1. Permitted(segments) /\ Rendered(segments) = declared[n].path
      BY <2>3, <2>4 DEF GrammarExact
    <3>2. /\ DOMAIN api' = 1..n /\ api'[n] = x
          /\ \A i \in 1..Len(api) : api'[i] = api[i]
      BY <2>3, <2>4, AppendAny
    <3>3. x.pattern = segments
      BY DEF x
    <3>4. \A i \in 1..n : Permitted(api'[i].pattern) /\ Rendered(api'[i].pattern) = declared[i].path
      <4>1. TAKE i \in 1..n
      <4>2. CASE i = n
        BY <3>1, <3>2, <3>3, <4>2
      <4>3. CASE i # n
        <5>1. i \in 1..Len(api)
          BY <2>3, <4>3
        <5>2. QED
          BY <2>3, <3>2, <5>1 DEF DrawnApi
      <4>4. QED
        BY <4>2, <4>3
    <3> HIDE DEF n
    <3>5. QED
      BY <2>1, <3>2, <3>4 DEF DrawnApi, Permitted, Sound, Placeholders, Rendered, Spellings
  <2>5. QED
    BY <1>1, <2>1, <2>2, <2>4
<1>3. CASE NextEndpoint \/ ParseRoute \/ CollectTypes \/ CollectEndpoint \/ CollectType
           \/ CompileApi \/ AppendPath
  BY <1>1, <1>3 DEF NextEndpoint, ParseRoute, CollectTypes, CollectEndpoint, CollectType,
                    CompileApi, Refuse, AppendPath, apiVars, routerVars
<1>4. ASSUME NEW a, Respond(a) PROVE UNCHANGED <<api, program>>
  BY <1>4 DEF Respond, routerVars
<1>5. CASE NotFound \/ MethodNotAllowed \/ AutomaticOptions \/ RefuseBinding \/ Return
  BY <1>1, <1>4, <1>5 DEF NotFound, MethodNotAllowed, AutomaticOptions, RefuseBinding, Return
<1>6. CASE Receive \/ MatchRoute \/ Throw \/ UNCHANGED vars
  BY <1>1, <1>6 DEF Receive, MatchRoute, RouterNext, Skip, Consider, Decide, Throw, vars,
                    apiVars, routerVars
<1>7. QED
  BY <1>2, <1>3, <1>5, <1>6 DEF ApiNext

\* The parameters that the operation o has from the path are those named in S, once each.
ListsFromPath(o, S) ==
    LET InPath == {k \in DOMAIN o.parameters : o.parameters[k].in = "path"}
    IN  /\ {o.parameters[k].label : k \in InPath} = S
        /\ Cardinality(InPath) = Cardinality(S)
        /\ \A k \in InPath : o.parameters[k].required

\* An operation of the document lists from the path what stands in its path.
LEMMA OperationFits ==
    ASSUME CompileInv, DrawnApi, NEW j \in DOMAIN api
    PROVE  ListsFromPath(append_operation(declared[j], api[j].pattern),
                         Placed(append_openapi_path(declared[j].path)))
<1> DEFINE o == append_operation(declared[j], api[j].pattern)
           T == {k \in DOMAIN o.parameters : o.parameters[k].in = "path"}
           N == Placed(append_openapi_path(declared[j].path))
           e == declared[j]
           p == api[j].pattern
           from(k) == parameter_source(e, p, e.params[k])
           F == PathPlaces(e, p)
<1>1. e.params \in Seq(Parameter) /\ p \in Seq(Segment)
  <2> DEFINE E == [method : Method, pattern : Seq(Segment)]
             D == Declaration
  <2>1. api \in Seq(E) /\ Len(api) <= Len(declared) /\ declared \in Seq(D)
    BY DeclaredType DEF CompileInv, Apis
  <2> HIDE DEF E, D
  <2>2. api[j] \in E /\ declared[j] \in D
    BY <2>1
  <2>3. QED
    BY <2>2 DEF E, D, Declaration
<1>2. Sound(p) /\ validate_endpoint_binding(e, p) = "none"
  BY DEF CompileInv, Compiled
<1>3. (\A i \in DOMAIN p : Proper(p[i])) /\ Rendered(p) = e.path
  BY DEF DrawnApi, Permitted
<1>4. o.parameters = append_parameters(e, p)
  BY DEF append_operation
<1> HIDE DEF e, p, o
<1>5. N = NamesIn(p)
  BY <1>1, <1>3, KeyNames DEF e, NamesIn
<1>6. /\ DOMAIN o.parameters = {k \in DOMAIN e.params : from(k) \in {"path", "query", "header", "cookie"}}
      /\ \A k \in DOMAIN o.parameters :
            /\ o.parameters[k].label = wire_name(e.params[k])
            /\ o.parameters[k].in = from(k)
            /\ o.parameters[k].required = Required(e, p, e.params[k])
  BY <1>4 DEF append_parameters
<1>7. T = F /\ \A k \in T : o.parameters[k].label = wire_name(e.params[k])
  BY <1>6 DEF PathPlaces
<1>8. {wire_name(e.params[k]) : k \in F} = N /\ Cardinality(F) = Cardinality(N)
  BY <1>1, <1>2, <1>5, PathParameters
<1>9. \A k \in T : o.parameters[k].required
  BY <1>6 DEF Required
<1> HIDE DEF F
<1>10. {o.parameters[k].label : k \in T} = {wire_name(e.params[k]) : k \in F}
  BY <1>7
<1>11. QED
  BY <1>7, <1>8, <1>9, <1>10 DEF ListsFromPath, o

\* The names between the braces of a key of the document are those of the path parameters of
\* every operation under it, once each and required: for every route that compiles, with as many
\* placeholders as it has, star or not, and whatever names the parameters are given.
THEOREM TemplatesAreTheParameters == ApiSpec => []TemplatesMatchParameters
<1>1. ApiInit => DocumentInv /\ DrawnApi
  <2>1. ApiInit => DocumentInv
    BY DeclaredType DEF ApiInit, ApiStart, DocumentInv, Written, Routed, declared
  <2>2. ApiInit => DrawnApi
    BY DEF ApiInit, ApiStart, DrawnApi
  <2>3. QED
    BY <2>1, <2>2
<1>2. CompileInv /\ DocumentInv /\ DrawnApi => TemplatesMatchParameters
  <2> SUFFICES ASSUME CompileInv, DocumentInv, DrawnApi, Documented,
                      NEW n \in DOMAIN paths, NEW o \in paths[n].operations
               PROVE  ListsFromPath(o, Placed(paths[n].key))
    BY DEF TemplatesMatchParameters, ListsFromPath
  <2>1. PICK i \in 1..passed : paths[n] = Entry(i)
    BY DEF DocumentInv
  <2>2. paths[n].key = append_openapi_path(declared[i].path) /\ o \in append_path_operations(i)
    BY <2>1 DEF Entry
  <2>3. PICK j \in DOMAIN declared :
           declared[j].path = declared[i].path /\ o = append_operation(declared[j], api[j].pattern)
    BY <2>2 DEF append_path_operations
  <2>4. j \in DOMAIN api
    <3>1. Len(api) = Len(declared)
      BY DEF CompileInv, Documented, Written
    <3>2. declared \in Seq(Declaration) /\ api \in Seq([method : Method, pattern : Seq(Segment)])
      BY DeclaredType DEF CompileInv, Apis
    <3>3. QED
      BY <3>1, <3>2
  <2>5. paths[n].key = append_openapi_path(declared[j].path)
    BY <2>2, <2>3
  <2>6. QED
    BY <2>3, <2>4, <2>5, OperationFits
<1>3. CompileInv /\ GrammarExact /\ DrawnApi /\ [ApiNext]_vars => DrawnApi'
  BY NextDrawnApi
<1>4. QED
  BY <1>1, <1>2, <1>3, CompileInvHolds, RoutesAreExact, NextDocumentInv, PTL DEF ApiSpec

-----------------------------------------------------------------------------
(* The document as a client reads it.                                      *)

\* at has the numbers of S, in their order.
Enumerates(at, n, S) ==
    /\ \A k \in 1..n : at[k] \in S
    /\ \A x \in S : \E k \in 1..n : x = at[k]
    /\ \A j, k \in 1..n : j < k => at[j] < at[k]

Agree(c, d, m) == \A k \in 1..m : c[k] = d[k]

\* As far as it goes, an enumeration agrees with any other of the same numbers.
LEMMA EnumerationsAgree ==
    ASSUME NEW S \in SUBSET Nat, NEW m \in Nat, NEW n \in Nat, NEW c, NEW d,
           Enumerates(c, m, S), Enumerates(d, n, S)
    PROVE  m <= n /\ Agree(c, d, m)
<1> DEFINE D == {k \in 1..m : k > n \/ c[k] # d[k]}
<1>1. /\ \A k \in 1..m : c[k] \in S /\ c[k] \in Nat
      /\ \A k \in 1..n : d[k] \in S /\ d[k] \in Nat
      /\ \A k \in 1..m : \E j \in 1..n : c[k] = d[j]
      /\ \A k \in 1..n : \E j \in 1..m : d[k] = c[j]
      /\ \A j, k \in 1..m : j < k => c[j] < c[k]
      /\ \A j, k \in 1..n : j < k => d[j] < d[k]
  BY DEF Enumerates
<1>2. D = {}
  <2>1. SUFFICES ASSUME D # {} PROVE FALSE
    OBVIOUS
  <2>2. PICK k \in D : \A r \in D : k <= r
    <3>1. D \in SUBSET Nat
      OBVIOUS
    <3> HIDE DEF D
    <3>2. QED
      BY <2>1, <3>1, FirstPosition
  <2>3. k \in 1..m /\ \A j \in 1..(k - 1) : j \in 1..m /\ j <= n /\ c[j] = d[j]
    BY <2>2
  <2>4. PICK j \in 1..n : c[k] = d[j]
    BY <1>1, <2>3
  <2>5. j >= k
    <3>1. SUFFICES ASSUME j < k PROVE FALSE
      BY <2>3
    <3>2. j \in 1..(k - 1)
      BY <2>3, <3>1
    <3>3. c[j] = d[j] /\ j \in 1..m
      BY <2>3, <3>2
    <3>4. c[j] < c[k] /\ c[j] \in Nat
      BY <1>1, <2>3, <3>1, <3>3
    <3>5. QED
      BY <2>4, <3>3, <3>4
  <2>6. k \in 1..n /\ c[k] # d[k] /\ j > k
    BY <2>2, <2>3, <2>4, <2>5
  <2>7. d[k] < c[k] /\ d[k] \in Nat /\ c[k] \in Nat
    BY <1>1, <2>3, <2>4, <2>6
  <2>8. PICK i \in 1..m : d[k] = c[i]
    BY <1>1, <2>6
  <2>9. CASE i < k
    <3>1. i \in 1..(k - 1)
      BY <2>3, <2>9
    <3>2. c[i] = d[i] /\ i \in 1..n
      BY <2>3, <3>1
    <3>3. d[i] < d[k] /\ d[i] \in Nat
      BY <1>1, <2>6, <2>9, <3>2
    <3>4. QED
      BY <2>8, <3>2, <3>3
  <2>10. CASE i >= k
    <3>1. i = k \/ k < i
      BY <2>3, <2>10
    <3>2. c[i] \in Nat
      BY <1>1, <2>8
    <3>3. k < i => c[k] < c[i]
      BY <1>1, <2>3, <2>8
    <3>4. c[k] <= c[i]
      BY ONLY <2>7, <3>1, <3>2, <3>3
    <3>5. QED
      BY ONLY <2>7, <2>8, <3>2, <3>4
  <2>11. QED
    BY <2>3, <2>9, <2>10
<1>3. m <= n
  <2>1. SUFFICES ASSUME m > n PROVE FALSE
    OBVIOUS
  <2>2. m \in D
    BY <2>1
  <2>3. QED
    BY <1>2, <2>2
<1>4. QED
  BY <1>2, <1>3 DEF Agree

\* A segment without a star fits a text exactly when the piece it is written as does.
LEMMA PieceFits ==
    ASSUME NEW s \in Text, NEW x \in Segment, Proper(x), x.kind # "catch_all",
           NEW w, w = Spelled(x), NEW a \in Nat, Stands(s, a, w),
           NEW t, t = SubSeq(s, a + 2, a + Len(w)), NEW v
    PROVE  FitsPiece(t, v) <=> SegmentFits(x, v)
<1> DEFINE n == Len(x.text)
<1>0. n = Len(x.text)
  OBVIOUS
<1> HIDE DEF n
<1>1. Writes(x, n, w) /\ OwnBraces(x, w)
  BY <1>0, BracesOf
<1>2. n \in Nat \ {0} /\ Len(w) \in Nat /\ Len(w) >= 2
  <2>1. x.kind = "literal" \/ x.kind = "parameter"
    BY <1>1, Zenon DEF Writes, Kind
  <2>1a. Len(w) = n + 1 \/ Len(w) = n + 3
    BY <1>1, <2>1, Zenon DEF Writes
  <2>2. n \in Nat \ {0}
    BY <1>1, Zenon DEF Writes
  <2>3. QED
    BY ONLY <2>1a, <2>2
<1>3. Len(s) \in Nat /\ a + Len(w) <= Len(s) /\ \A i \in 1..Len(w) : s[a + i] = w[i]
  BY DEF Stands, Text
<1>4. /\ Len(t) = Len(w) - 1 /\ DOMAIN t = 1..(Len(w) - 1) /\ t \in Seq(Char)
      /\ \A i \in 1..(Len(w) - 1) : t[i] = s[a + 2 + i - 1]
  <2>1. a + 2 \in 1..Len(s) /\ a + Len(w) \in 1..Len(s) /\ a + Len(w) >= (a + 2) - 1
    BY <1>2, <1>3
  <2>2. /\ t \in Seq(Char) /\ Len(t) = (a + Len(w)) - (a + 2) + 1
        /\ \A i \in 1..((a + Len(w)) - (a + 2) + 1) : t[i] = s[a + 2 + i - 1]
    <3>1. \A i \in (a + 2)..(a + Len(w)) : s[i] \in Char
      BY <1>2, <1>3 DEF Text
    <3>2. a + 2 \in Int /\ a + Len(w) \in Int /\ a + 2 <= a + Len(w)
      BY <1>2
    <3> DEFINE m == a + 2
               e == a + Len(w)
    <3>3. /\ SubSeq(s, m, e) \in Seq(Char) /\ Len(SubSeq(s, m, e)) = IF m <= e THEN e - m + 1 ELSE 0
          /\ \A i \in 1..(e - m + 1) : SubSeq(s, m, e)[i] = s[m + i - 1]
      <4> HIDE DEF m, e
      <4>1. m \in Int /\ e \in Int /\ \A i \in m..e : s[i] \in Char
        BY <3>1, <3>2 DEF m, e
      <4>2. QED
        BY ONLY <4>1, SubSeqProperties
    <3>4. QED
      BY <3>2, <3>3, Zenon
  <2>3. (a + Len(w)) - (a + 2) + 1 = Len(w) - 1
    BY <1>2
  <2>4. Len(t) = Len(w) - 1
    BY <2>2, <2>3, Zenon
  <2>5. DOMAIN t = 1..(Len(w) - 1)
    BY <2>2, <2>4, LenProperties, Zenon
  <2>6. QED
    BY <2>2, <2>3, <2>4, <2>5, Zenon
<1>5. \A i \in 1..(Len(w) - 1) : t[i] = w[i + 1]
  <2>1. TAKE i \in 1..(Len(w) - 1)
  <2>2. i + 1 \in 1..Len(w) /\ a + 2 + i - 1 = a + (i + 1)
    BY <1>2
  <2>3. QED
    BY <1>3, <1>4, <2>2
<1>6. t # <<>> /\ 1 \in 1..(Len(w) - 1) /\ Len(w) - 1 \in 1..(Len(w) - 1)
  <2>1. 1 \in 1..(Len(w) - 1) /\ Len(w) - 1 \in 1..(Len(w) - 1)
    BY <1>2
  <2>2. 1 \in DOMAIN t
    BY <1>4, <2>1, Zenon
  <2>3. t # <<>>
    BY ONLY <2>2
  <2>4. QED
    BY <2>1, <2>3
<1>7. t[1] = w[2] /\ t[Len(t)] = w[Len(w)]
  <2>0. (Len(w) - 1) + 1 = Len(w) /\ 1 + 1 = 2
    BY <1>2
  <2>1. t[Len(w) - 1] = w[(Len(w) - 1) + 1]
    BY <1>5, <1>6, Zenon
  <2>2. t[1] = w[1 + 1]
    BY <1>5, <1>6, Zenon
  <2>3. QED
    BY <1>4, <2>0, <2>1, <2>2, Zenon
<1>8. CASE x.kind = "literal"
  <2>1. Len(w) = n + 1 /\ \A i \in 1..n : w[i + 1] = x.text[i]
    BY <1>1, <1>8 DEF Writes
  <2>2. t = x.text
    <3>1. x.text \in Seq(Char) /\ Len(x.text) = n
      BY <1>0, <1>1 DEF Writes
    <3>2. Len(t) = n /\ \A i \in 1..n : t[i] = x.text[i]
      <4>1. Len(w) = n + 1
        BY <2>1, Zenon
      <4>2. Len(w) - 1 = n
        BY ONLY <1>2, <4>1
      <4>3. QED
        BY <1>4, <1>5, <2>1, <4>2, Zenon
    <3>3. QED
      BY <1>4, <3>1, <3>2, SeqEqual
  <2>3. t[1] # "{"
    <3>1. 2 \in 1..Len(w)
      BY <1>2
    <3>2. w[2] # "{"
      BY <1>1, <1>8, <3>1 DEF OwnBraces
    <3>3. QED
      BY <1>7, <3>2
  <2>4. QED
    BY <1>8, <2>2, <2>3 DEF FitsPiece, SegmentFits
<1>9. CASE x.kind = "parameter"
  <2>1. w[2] = "{" /\ w[Len(w)] = "}"
    BY <1>1, <1>9 DEF Writes
  <2>2. t[1] = "{" /\ t[Len(t)] = "}"
    BY <1>7, <2>1
  <2>3. QED
    BY <1>6, <1>9, <2>2 DEF FitsPiece, SegmentFits
<1>10. QED
  BY <1>1, <1>8, <1>9 DEF Writes, Kind

\* Numbers that are the slashes of a text in their order enumerate them.
LEMMA OrderEnumerates ==
    ASSUME NEW s \in Text, NEW n \in Nat, NEW at
    PROVE  InOrder(at, n, s) <=> Enumerates(at, n, Slashes(s))
BY DEF InOrder, Enumerates

\* The slashes of a text are where its segments begin.
LEMMA SlashesAre ==
    ASSUME NEW q \in Seq(Segment), \A i \in DOMAIN q : Proper(q[i]), q # <<>>
    PROVE  Enumerates([k \in 1..Len(q) |-> Len(Spellings(q)[k - 1]) + 1], Len(q), Slashes(Rendered(q)))
<1> DEFINE s == Rendered(q)
           n == Len(q)
           A(k) == Len(Spellings(q)[k])
           W(k) == Spelled(q[k])
           at == [k \in 1..n |-> A(k - 1) + 1]
<1>1. n \in Nat /\ Len(s) \in Nat /\ DOMAIN s = 1..Len(s)
  BY RenderedIsText DEF Text
<1>2. ASSUME NEW k \in 1..n
      PROVE  /\ Stands(s, A(k - 1), W(k))
             /\ A(k) = A(k - 1) + Len(W(k)) /\ A(k - 1) \in Nat
             /\ Len(W(k)) \in Nat /\ Len(W(k)) >= 2
             /\ W(k)[1] = "/" /\ \A i \in 2..Len(W(k)) : W(k)[i] # "/"
  <2>1. Stands(s, A(k - 1), W(k)) /\ A(k) = A(k - 1) + Len(W(k)) /\ A(k - 1) \in Nat
    BY SegmentStands
  <2>2. q[k] \in Segment /\ Proper(q[k])
    <3> HIDE DEF Segment
    <3>1. QED
      BY <1>1
  <2>3. QED
    BY <2>1, <2>2, SpelledHasOneSlash
<1>3. ASSUME NEW i \in 1..Len(s)
      PROVE  \E k \in 1..n : \E m \in 1..Len(W(k)) : i = A(k - 1) + m
  BY <1>3, SomeSegment
<1>4. ASSUME NEW j \in 1..n, NEW k \in 1..n, j < k PROVE A(j) <= A(k - 1)
  <2>1. j \in 0..n /\ k - 1 \in j..n
    BY <1>1, <1>4
  <2>2. QED
    BY <2>1, SpellingsNest
<1> HIDE DEF s, A, W, n
<1>5. \A k \in 1..n : at[k] = A(k - 1) + 1
  OBVIOUS
<1> HIDE DEF at
<1>6. ASSUME NEW k \in 1..n PROVE at[k] \in Slashes(s)
  <2>1. /\ A(k - 1) \in Nat /\ Len(W(k)) \in Nat /\ Len(W(k)) >= 2 /\ W(k)[1] = "/"
        /\ A(k - 1) + Len(W(k)) <= Len(s) /\ \A i \in 1..Len(W(k)) : s[A(k - 1) + i] = W(k)[i]
    BY <1>2 DEF Stands
  <2>2. A(k - 1) + 1 \in 1..Len(s) /\ 1 \in 1..Len(W(k))
    BY <1>1, <2>1
  <2>3. s[A(k - 1) + 1] = "/"
    BY <2>1, <2>2
  <2>4. QED
    BY <1>1, <1>5, <2>2, <2>3 DEF Slashes
<1>7. ASSUME NEW x \in Slashes(s) PROVE \E k \in 1..n : x = at[k]
  <2>1. x \in 1..Len(s) /\ s[x] = "/"
    BY <1>1 DEF Slashes
  <2>2. PICK k \in 1..n : \E m \in 1..Len(W(k)) : x = A(k - 1) + m
    BY <1>3, <2>1
  <2>3. PICK m \in 1..Len(W(k)) : x = A(k - 1) + m
    BY <2>2
  <2>4. /\ Len(W(k)) \in Nat /\ W(k)[m] = "/"
        /\ \A i \in 2..Len(W(k)) : W(k)[i] # "/"
    BY <1>2, <2>1, <2>3 DEF Stands
  <2>5. m = 1
    <3>1. m \notin 2..Len(W(k))
      BY <2>4
    <3>2. QED
      BY <2>4, <3>1
  <2>6. QED
    BY <1>5, <2>3, <2>5
<1>8. ASSUME NEW j \in 1..n, NEW k \in 1..n, j < k PROVE at[j] < at[k]
  <2>1. /\ A(j - 1) \in Nat /\ Len(W(j)) \in Nat /\ Len(W(j)) >= 2 /\ A(j) = A(j - 1) + Len(W(j))
        /\ A(k - 1) \in Nat
    BY <1>2
  <2>2. A(j) <= A(k - 1)
    BY <1>4, <1>8
  <2>3. A(j - 1) + 1 < A(k - 1) + 1
    BY ONLY <2>1, <2>2
  <2>4. QED
    BY <1>5, <2>3
<1>9. Enumerates(at, n, Slashes(s))
  BY <1>6, <1>7, <1>8 DEF Enumerates
<1>10. QED
  BY <1>9 DEF at, n, s, A

\* A text of segments without a star fits a path exactly when each fits the segment in its
\* place, and there are as many of the ones as of the others.
LEMMA FitsRendered ==
    ASSUME NEW q \in Seq(Segment), \A i \in DOMAIN q : Proper(q[i]) /\ q[i].kind # "catch_all",
           q # <<>>, NEW p \in Paths
    PROVE  Fits(Rendered(q), p) <=> Len(p) = Len(q) /\ \A k \in 1..Len(q) : SegmentFits(q[k], p[k])
<1> DEFINE s == Rendered(q)
           n == Len(q)
           A(k) == Len(Spellings(q)[k])
           at == [k \in 1..n |-> A(k - 1) + 1]
<1>1. /\ n \in Nat \ {0} /\ n \in 1..n /\ Len(p) \in Nat
      /\ s \in Text /\ Len(s) \in Nat /\ Slashes(s) \in SUBSET Nat
  <2>1. s \in Text /\ Len(s) \in Nat
    BY RenderedIsText
  <2>2. Slashes(s) \in SUBSET Nat
    BY <2>1 DEF Slashes, Text
  <2>3. n \in Nat \ {0} /\ n \in 1..n
    OBVIOUS
  <2>4. Len(p) \in Nat
    BY DEF Paths
  <2>5. QED
    BY <2>1, <2>2, <2>3, <2>4
<1>2. Enumerates(at, n, Slashes(s))
  BY SlashesAre
<1>3. ASSUME NEW k \in 1..n, NEW v PROVE FitsPiece(PieceAfter(s, at, k, n), v) <=> SegmentFits(q[k], v)
  <2> DEFINE w == Spelled(q[k])
             a == A(k - 1)
             e == IF k = n THEN Len(s) ELSE at[k + 1] - 1
  <2>1. q[k] \in Segment /\ Proper(q[k]) /\ q[k].kind # "catch_all"
    <3> HIDE DEF Segment
    <3>1. QED
      OBVIOUS
  <2>2. Stands(s, a, w) /\ A(k) = a + Len(w) /\ a \in Nat /\ (k = n => A(k) = Len(s))
    BY SegmentStands
  <2>3. e = a + Len(w)
    <3>1. CASE k = n
      BY <2>2, <3>1
    <3>2. CASE k # n
      <4>1. k + 1 \in 1..n /\ (k + 1) - 1 = k
        BY <1>1, <3>2
      <4>2. at[k + 1] = A(k) + 1
        <5> HIDE DEF A
        <5>1. at[k + 1] = A((k + 1) - 1) + 1
          BY <4>1
        <5>2. QED
          BY <4>1, <5>1
      <4>3. A(k) \in Nat
        <5>1. k + 1 \in 1..Len(q)
          BY <4>1
        <5>2. Len(Spellings(q)[(k + 1) - 1]) \in Nat
          BY <5>1, SegmentStands
        <5>3. QED
          BY <4>1, <5>2
      <4> HIDE DEF A, at, w, a
      <4>4. QED
        BY <2>2, <3>2, <4>2, <4>3
    <3>3. QED
      BY <3>1, <3>2
  <2>4. at[k] + 1 = a + 2
    <3>1. at[k] = a + 1
      OBVIOUS
    <3> HIDE DEF at, a
    <3>2. QED
      BY <2>2, <3>1
  <2>5. PieceAfter(s, at, k, n) = SubSeq(s, a + 2, a + Len(w))
    <3>1. PieceAfter(s, at, k, n) = SubSeq(s, at[k] + 1, e)
      BY DEF PieceAfter
    <3> HIDE DEF a, e, w, at, s
    <3>2. QED
      BY <2>3, <2>4, <3>1
  <2>6. w = Spelled(q[k])
    OBVIOUS
  <2> DEFINE t == SubSeq(s, a + 2, a + Len(w))
  <2>7. t = SubSeq(s, a + 2, a + Len(w))
    OBVIOUS
  <2> HIDE DEF w, a, s, at, n, t
  <2>8. FitsPiece(t, v) <=> SegmentFits(q[k], v)
    <3> DEFINE x == q[k]
    <3> HIDE DEF x
    <3>1. /\ s \in Text /\ x \in Segment /\ Proper(x) /\ x.kind # "catch_all" /\ w = Spelled(x)
          /\ a \in Nat /\ Stands(s, a, w) /\ t = SubSeq(s, a + 2, a + Len(w))
      BY <1>1, <2>1, <2>2, <2>6, <2>7, Zenon DEF x
    <3>2. FitsPiece(t, v) <=> SegmentFits(x, v)
      BY ONLY <3>1, PieceFits, Zenon
    <3>3. QED
      BY <3>2 DEF x
  <2>9. QED
    BY <2>5, <2>7, <2>8
<1> HIDE DEF s, at, n
<1>4. ASSUME Fits(s, p) PROVE Len(p) = n /\ \A k \in 1..n : SegmentFits(q[k], p[k])
  <2>1. PICK c \in [1..Len(p) -> Slashes(s)] :
           /\ InOrder(c, Len(p), s)
           /\ \A k \in 1..Len(p) : FitsPiece(PieceAfter(s, c, k, Len(p)), p[k])
    BY <1>4 DEF Fits
  <2>2. Enumerates(c, Len(p), Slashes(s))
    BY <1>1, <2>1, OrderEnumerates
  <2>3. Len(p) <= n /\ n <= Len(p) /\ \A k \in 1..n : at[k] = c[k]
    <3> DEFINE m == Len(p)
               S == Slashes(s)
    <3>1. n \in Nat /\ m \in Nat /\ S \in SUBSET Nat /\ Enumerates(at, n, S) /\ Enumerates(c, m, S)
      BY <1>1, <1>2, <2>2
    <3> HIDE DEF m, S
    <3>2. m <= n
      BY ONLY <3>1, EnumerationsAgree, Zenon
    <3>3. n <= m /\ Agree(at, c, n)
      BY ONLY <3>1, EnumerationsAgree, Zenon
    <3>4. QED
      BY <3>2, <3>3 DEF m, Agree
  <2>4. Len(p) = n
    BY <1>1, <2>3
  <2>5. ASSUME NEW k \in 1..n PROVE SegmentFits(q[k], p[k])
    <3>1. at[k] = c[k] /\ (k # n => at[k + 1] = c[k + 1])
      <4>1. k # n => k + 1 \in 1..n
        BY <1>1
      <4>2. QED
        BY <2>3, <4>1
    <3>2. PieceAfter(s, at, k, n) = PieceAfter(s, c, k, n)
      BY <3>1 DEF PieceAfter
    <3>3. FitsPiece(PieceAfter(s, c, k, n), p[k])
      BY <2>1, <2>4
    <3>4. QED
      BY <1>3, <3>2, <3>3
  <2>6. QED
    BY <2>4, <2>5
<1>5. ASSUME Len(p) = n, \A k \in 1..n : SegmentFits(q[k], p[k]) PROVE Fits(s, p)
  <2>1. p # <<>>
    BY <1>1, <1>5
  <2>2. at \in [1..n -> Slashes(s)]
    <3>1. \A k \in 1..n : at[k] \in Slashes(s)
      BY <1>2 DEF Enumerates
    <3>2. at = [k \in 1..n |-> at[k]]
      BY DEF at
    <3>3. QED
      BY <3>1, <3>2
  <2>3. InOrder(at, n, s)
    BY <1>1, <1>2, OrderEnumerates
  <2>4. \A k \in 1..n : FitsPiece(PieceAfter(s, at, k, n), p[k])
    BY <1>3, <1>5
  <2>5. QED
    BY <1>5, <2>1, <2>2, <2>3, <2>4 DEF Fits
<1>6. QED
  BY <1>4, <1>5 DEF s, n

\* "/" fits the path of one empty segment only.
LEMMA FitsRoot ==
    ASSUME NEW p \in Paths
    PROVE  Fits(<<"/">>, p) <=> p = <<<<>>>>
<1> DEFINE s == <<"/">>
<1>1. Len(s) = 1 /\ DOMAIN s = 1..1 /\ Slashes(s) = {1}
  BY DEF Slashes
<1>2. p \in Seq(Text) /\ Len(p) \in Nat
  BY DEF Paths
<1>3. \A c : c[1] = 1 => PieceAfter(s, c, 1, 1) = <<>>
  <2>1. SubSeq(s, 1 + 1, 1) = <<>>
    <3> HIDE DEF s
    <3>1. QED
      BY SubSeqEmpty
  <2>2. QED
    BY <1>1, <2>1 DEF PieceAfter
<1>4. \A v : FitsPiece(<<>>, v) <=> v = <<>>
  BY Zenon DEF FitsPiece
<1> HIDE DEF s
<1>5. ASSUME Fits(s, p) PROVE p = <<<<>>>>
  <2>1. PICK c \in [1..Len(p) -> Slashes(s)] :
           /\ InOrder(c, Len(p), s)
           /\ \A k \in 1..Len(p) : FitsPiece(PieceAfter(s, c, k, Len(p)), p[k])
    BY <1>5 DEF Fits
  <2>2. \A k \in 1..Len(p) : c[k] = 1
    BY <1>1, <2>1
  <2>3. ~(Len(p) > 1)
    <3>1. SUFFICES ASSUME Len(p) > 1 PROVE FALSE
      OBVIOUS
    <3>2. 1 \in 1..Len(p) /\ 2 \in 1..Len(p)
      BY <1>2, <3>1
    <3>3. c[1] < c[2]
      BY <2>1, <3>2 DEF InOrder
    <3>4. QED
      BY <2>2, <3>2, <3>3
  <2>4. Len(p) = 1
    <3>1. Len(p) # 0
      BY <1>2, <1>5 DEF Fits
    <3>2. \A l \in Nat : l # 0 /\ ~(l > 1) => l = 1
      OBVIOUS
    <3>3. QED
      BY <1>2, <2>3, <3>1, <3>2, Zenon
  <2>5. p[1] = <<>>
    BY <1>3, <1>4, <2>1, <2>2, <2>4
  <2>6. QED
    BY <1>2, <2>4, <2>5
<1>6. ASSUME p = <<<<>>>> PROVE Fits(s, p)
  <2> DEFINE c == [k \in 1..1 |-> 1]
  <2>1. Len(p) = 1 /\ p[1] = <<>> /\ p # <<>>
    BY <1>6
  <2>2. c \in [1..1 -> Slashes(s)] /\ c[1] = 1
    BY <1>1
  <2>3. InOrder(c, 1, s)
    <3>1. {c[k] : k \in 1..1} = {1}
      OBVIOUS
    <3>2. QED
      BY <1>1, <3>1 DEF InOrder
  <2> HIDE DEF c
  <2>4. \A k \in 1..1 : FitsPiece(PieceAfter(s, c, k, 1), p[k])
    <3>1. FitsPiece(PieceAfter(s, c, 1, 1), p[1])
      BY <1>3, <1>4, <2>1, <2>2
    <3>2. QED
      BY <3>1
  <2>5. QED
    BY <2>1, <2>2, <2>3, <2>4 DEF Fits
<1>7. QED
  BY <1>5, <1>6 DEF s

\* A segment without its star fits no empty text, and what it fits the segment fits.
LEMMA StarlessFits ==
    ASSUME NEW x \in Segment, Proper(x), x.text # <<>>, NEW v
    PROVE  /\ SegmentFits(Starless(x), v) => SegmentFits(x, v) /\ v # <<>>
           /\ SegmentFits(x, v) /\ x.kind # "catch_all" => SegmentFits(Starless(x), v)
<1>1. Starless(x).kind # "catch_all" /\ Starless(x).text = x.text
  BY StarlessIs
<1>2. x.kind # "catch_all" => Starless(x) = x
  BY StarlessIs
<1>3. SegmentFits(Starless(x), v) => v # <<>>
  BY <1>1 DEF SegmentFits
<1>4. x.kind = "catch_all" => SegmentFits(x, v)
  BY DEF SegmentFits
<1>5. QED
  BY <1>2, <1>3, <1>4

\* A path that the key of a route fits is matched by the route, and a path that a route
\* without a catch-all matches is fitted by its key.
LEMMA KeyMatches ==
    ASSUME NEW r \in Seq(Segment), Permitted(r), NEW p \in Paths,
           NEW key, key = append_openapi_path(Rendered(r))
    PROVE  /\ Fits(key, p) => Matches(r, p)
           /\ Matches(r, p) /\ ~IsCatchAll(r) => Fits(key, p)
<1> DEFINE q == Template(r)
           n == Len(r)
<1>1. /\ \A i \in DOMAIN r : Proper(r[i]) /\ r[i].text # <<>>
      /\ \A i \in DOMAIN r : r[i].kind = "catch_all" => i = Len(r)
      /\ DOMAIN r = 1..n /\ n \in Nat
  BY DEF Permitted, Sound
<1>2. /\ q \in Seq(Segment) /\ Len(q) = n
      /\ \A i \in 1..n : q[i] = Starless(r[i]) /\ Proper(q[i]) /\ q[i].kind # "catch_all"
  BY <1>1, TemplateIs
<1>3. key = Rendered(q)
  BY <1>1, KeyIsTemplate
<1>4. Len(p) \in Nat /\ (p # <<>> <=> Len(p) > 0)
  BY DEF Paths
<1>5. CASE r = <<>>
  <2>1. q = <<>>
    BY <1>2, <1>5
  <2>2. key = <<"/">>
    BY <1>3, <2>1 DEF Rendered
  <2>3. Fits(key, p) <=> p = <<<<>>>>
    BY <2>2, FitsRoot
  <2>4. p = <<<<>>>> <=> Matches(r, p)
    <3>1. p = <<<<>>>> => p # <<>> /\ p[Len(p)] = <<>>
      OBVIOUS
    <3>2. QED
      BY <1>1, <1>5, <3>1 DEF Matches
  <2>5. QED
    BY <2>3, <2>4
<1>6. CASE r # <<>>
  <2>1. n \in 1..n
    BY <1>1, <1>6
  <2>2. \A i \in 1..n : r[i] \in Segment
    <3> HIDE DEF Segment
    <3>1. QED
      BY <1>1
  <2>3. ASSUME NEW i \in 1..n, NEW v
        PROVE  /\ SegmentFits(q[i], v) => SegmentFits(r[i], v) /\ v # <<>>
               /\ SegmentFits(r[i], v) /\ r[i].kind # "catch_all" => SegmentFits(q[i], v)
    <3> DEFINE x == r[i]
    <3>1. x \in Segment /\ Proper(x) /\ x.text # <<>>
      BY <1>1, <2>2
    <3> HIDE DEF x
    <3>2. /\ SegmentFits(Starless(x), v) => SegmentFits(x, v) /\ v # <<>>
          /\ SegmentFits(x, v) /\ x.kind # "catch_all" => SegmentFits(Starless(x), v)
      BY <3>1, StarlessFits
    <3>3. q[i] = Starless(x)
      BY <1>2 DEF x
    <3>4. QED
      BY <3>2, <3>3 DEF x
  <2>4. Fits(key, p) <=> Len(p) = n /\ \A k \in 1..n : SegmentFits(q[k], p[k])
    <3>1. (\A i \in DOMAIN q : Proper(q[i]) /\ q[i].kind # "catch_all") /\ q # <<>>
      <4> HIDE DEF q
      <4>1. DOMAIN q = 1..n
        BY <1>2
      <4>2. QED
        BY <1>1, <1>2, <1>6, <4>1
    <3> HIDE DEF q
    <3>2. Fits(Rendered(q), p) <=> Len(p) = Len(q) /\ \A k \in 1..Len(q) : SegmentFits(q[k], p[k])
      BY <1>2, <3>1, FitsRendered
    <3>3. QED
      BY <1>2, <1>3, <3>2
  <2> HIDE DEF q
  <2>5. ASSUME Fits(key, p) PROVE Matches(r, p)
    <3>1. Len(p) = n /\ \A k \in 1..n : SegmentFits(r[k], p[k]) /\ p[k] # <<>>
      BY <2>3, <2>4, <2>5
    <3>2. p # <<>> /\ p[Len(p)] # <<>> /\ Len(p) >= Len(r)
      BY <1>1, <1>4, <2>1, <3>1
    <3>3. QED
      BY <1>1, <1>6, <3>1, <3>2 DEF Matches
  <2>6. ASSUME Matches(r, p), ~IsCatchAll(r) PROVE Fits(key, p)
    <3>1. Len(p) = n /\ \A k \in 1..n : SegmentFits(r[k], p[k])
      BY <1>1, <1>6, <2>6 DEF Matches
    <3>2. \A k \in 1..n : r[k].kind # "catch_all"
      BY <1>1, <1>6, <2>6 DEF IsCatchAll
    <3>3. QED
      BY <2>3, <2>4, <3>1, <3>2
  <2>7. QED
    BY <2>5, <2>6
<1>7. QED
  BY <1>5, <1>6

\* The types of an endpoint that compiled.
LEMMA CompiledType ==
    ASSUME CompileInv, DrawnApi, NEW i \in DOMAIN api
    PROVE  /\ api[i].pattern \in Seq(Segment) /\ Permitted(api[i].pattern)
           /\ Rendered(api[i].pattern) = declared[i].path
           /\ api[i].method = declared[i].method
<1> DEFINE E == [method : Method, pattern : Seq(Segment)]
<1>1. api \in Seq(E)
  BY DEF CompileInv, Apis
<1>2. api[i] \in E
  <2> HIDE DEF E
  <2>1. QED
    BY <1>1
<1>3. QED
  BY <1>2 DEF CompileInv, Compiled, DrawnApi

\* What is documented serves: an operation whose method and path a request has is a candidate.
LEMMA DocumentedServes ==
    ASSUME CompileInv, DrawnApi, RouterInv, DocumentInv, Len(api) = Len(declared), outcome # "none",
           NEW n \in DOMAIN paths, NEW o \in paths[n].operations, o.method = method,
           Fits(paths[n].key, path)
    PROVE  /\ outcome = "found" /\ ~headFallback
           /\ \/ declared[best].id = o.id
              \/ \E i \in DOMAIN api : /\ declared[i].id = o.id
                                      /\ MoreSpecific(api[best].pattern, api[i].pattern)
<1>1. PICK j \in 1..passed : paths[n] = Entry(j)
  BY DEF DocumentInv
<1>2. PICK i \in DOMAIN declared :
         declared[i].path = declared[j].path /\ o = append_operation(declared[i], api[i].pattern)
  BY <1>1 DEF Entry, append_path_operations
<1>3. paths[n].key = append_openapi_path(declared[i].path) /\ o.id = declared[i].id
        /\ o.method = declared[i].method
  BY <1>1, <1>2 DEF Entry, append_operation
<1>4. i \in DOMAIN api /\ DOMAIN api = 1..Len(api) /\ Len(api) \in Nat
  BY <1>2, DeclaredType DEF CompileInv, Apis
<1>5. PathMatches(i) /\ Exact(i)
  <2> DEFINE r == api[i].pattern
  <2>1. /\ r \in Seq(Segment) /\ Permitted(r) /\ Rendered(r) = declared[i].path
        /\ api[i].method = declared[i].method
    BY <1>4, CompiledType
  <2>2. path \in Paths
    BY DEF RouterInv, RouterTypeOK
  <2> DEFINE key == paths[n].key
  <2>3. key = append_openapi_path(Rendered(r)) /\ Fits(key, path)
    BY <1>3, <2>1
  <2> HIDE DEF r, key
  <2>4. Matches(r, path)
    BY <2>1, <2>2, <2>3, KeyMatches
  <2>5. QED
    BY <1>3, <2>1, <2>4 DEF PathMatches, Exact, r
<1>6. i \in Candidates(method) /\ i \in Seen
  <2>1. index = Len(api) + 1
    BY DEF RouterInv, DecidedInv
  <2>2. QED
    BY <1>4, <1>5, <2>1, CandidateIs DEF Seen
<1>7. hasPath /\ (method = "options" => explicitOptions)
  BY <1>5, <1>6 DEF RouterInv, ScanInv
<1>8. best # 0
  BY <1>6 DEF RouterInv, BestInv
<1>9. outcome = "found"
  BY <1>7, <1>8 DEF RouterInv, DecidedInv
<1>10. best \in Candidates(method) /\ (headFallback <=> Fallback(best)) /\ (i # best => Beats(best, i))
  BY <1>6, <1>9, DecidedBest DEF BestChoice
<1>11. Exact(best)
  BY <1>5, <1>10 DEF Beats
<1>12. ~headFallback
  BY <1>10, <1>11 DEF Fallback, Exact
<1>13. QED
  BY <1>3, <1>4, <1>5, <1>9, <1>10, <1>11, <1>12 DEF Beats

\* The document is complete before a request is routed.
DocumentDone == stage \in Routed => passed = Len(declared)

LEMMA NextDocumentDone ==
    ASSUME DocumentDone, [ApiNext]_vars
    PROVE  DocumentDone'
<1>1. CASE \/ NextEndpoint \/ ParseRoute \/ CompileEndpoint \/ CollectTypes
           \/ CollectEndpoint \/ CollectType \/ CompileApi \/ AppendPath
  <2>1. stage \notin Routed /\ stage' \notin Routed
    BY <1>1 DEF NextEndpoint, ParseRoute, CompileEndpoint, CollectTypes, CollectEndpoint,
                CollectType, CompileApi, AppendPath, Refuse, apiVars, Routed
  <2>2. QED
    BY <2>1 DEF DocumentDone
<1>2. CASE Receive
  BY <1>2 DEF Receive, DocumentDone, declared
<1>3. ASSUME UNCHANGED <<program, passed>>, stage \in Routed PROVE DocumentDone'
  BY <1>3 DEF DocumentDone, declared
<1>4. CASE MatchRoute \/ Throw
  BY <1>3, <1>4 DEF MatchRoute, Throw, apiVars, DocumentDone, declared, Routed
<1>5. ASSUME NEW a, Respond(a) PROVE DocumentDone'
  BY <1>3, <1>5 DEF Respond, Routed
<1>6. CASE NotFound \/ MethodNotAllowed \/ AutomaticOptions \/ RefuseBinding \/ Return
  BY <1>5, <1>6 DEF NotFound, MethodNotAllowed, AutomaticOptions, RefuseBinding, Return
<1>7. CASE UNCHANGED vars
  BY <1>7 DEF vars, apiVars, DocumentDone, declared
<1>8. QED
  BY <1>1, <1>2, <1>4, <1>6, <1>7 DEF ApiNext

\* Every endpoint has its operation in the entry of its path.
LEMMA OperationListed ==
    ASSUME CompileInv, DocumentInv, passed = Len(declared), NEW i \in DOMAIN declared
    PROVE  \E n \in DOMAIN paths :
              /\ paths[n].key = append_openapi_path(declared[i].path)
              /\ append_operation(declared[i], api[i].pattern) \in paths[n].operations
<1> DEFINE S == {j \in DOMAIN declared : declared[j].path = declared[i].path}
<1>1. Len(declared) \in Nat /\ DOMAIN declared = 1..Len(declared)
  BY DeclaredType DEF CompileInv
<1>2. PICK f \in S : \A j \in S : f <= j
  <2>1. S \in SUBSET Nat /\ S # {}
    BY <1>1
  <2> HIDE DEF S
  <2>2. QED
    BY <2>1, FirstPosition
<1>3. f \in 1..passed /\ first_path_occurrence(f) /\ declared[f].path = declared[i].path
  <2>1. ASSUME NEW j \in 1..(f - 1), declared[j].path = declared[f].path PROVE FALSE
    BY <1>1, <1>2, <2>1
  <2>2. QED
    BY <1>1, <1>2, <2>1 DEF first_path_occurrence
<1>4. PICK n \in DOMAIN paths : paths[n] = Entry(f)
  BY <1>3 DEF DocumentInv
<1>5. QED
  BY <1>3, <1>4 DEF Entry, append_path_operations

\* What serves is documented: the endpoint found has an operation under a key that fits.
LEMMA ServedIsDocumented ==
    ASSUME CompileInv, DrawnApi, RouterInv, DocumentInv, passed = Len(declared),
           Len(api) = Len(declared), outcome = "found", ~IsCatchAll(api[best].pattern)
    PROVE  \E n \in DOMAIN paths : \E o \in paths[n].operations :
              /\ Fits(paths[n].key, path)
              /\ o.id = declared[best].id
              /\ o.method = IF headFallback THEN "get" ELSE method
<1>1. best \in Candidates(method) /\ (headFallback <=> Fallback(best))
  BY DecidedBest DEF BestChoice
<1>2. best \in DOMAIN api /\ PathMatches(best) /\ (Exact(best) \/ Fallback(best))
  BY <1>1, CandidateIs
<1>3. best \in DOMAIN declared
  BY <1>2, DeclaredType DEF CompileInv, Apis
<1>4. PICK n \in DOMAIN paths :
         /\ paths[n].key = append_openapi_path(declared[best].path)
         /\ append_operation(declared[best], api[best].pattern) \in paths[n].operations
  BY <1>3, OperationListed
<1> DEFINE o == append_operation(declared[best], api[best].pattern)
<1>5. o.id = declared[best].id /\ o.method = declared[best].method
  BY DEF append_operation
<1>6. Fits(paths[n].key, path) /\ api[best].method = declared[best].method
  <2> DEFINE r == api[best].pattern
             key == paths[n].key
  <2>1. /\ r \in Seq(Segment) /\ Permitted(r) /\ Rendered(r) = declared[best].path
        /\ api[best].method = declared[best].method
    BY <1>2, CompiledType
  <2>2. path \in Paths /\ Matches(r, path) /\ ~IsCatchAll(r)
    BY <1>2 DEF RouterInv, RouterTypeOK, PathMatches
  <2>3. key = append_openapi_path(Rendered(r))
    BY <1>4, <2>1
  <2> HIDE DEF r, key
  <2>4. Fits(key, path)
    BY <2>1, <2>2, <2>3, KeyMatches
  <2>5. QED
    BY <2>1, <2>4 DEF key
<1>7. o.method = IF headFallback THEN "get" ELSE method
  BY <1>1, <1>2, <1>5, <1>6 DEF Exact, Fallback
<1> HIDE DEF o
<1>8. QED
  BY <1>4, <1>5, <1>6, <1>7 DEF o

\* A client that fills in a path of the document and uses a method listed there is served by that
\* operation or by a more specific one, never by a HEAD fallback or a refusal, and an endpoint
\* without a catch-all serves nothing that the document does not offer: for every namespace that
\* compiles, whatever the order of its endpoints, and for every path.
THEOREM WhatIsDocumentedIsServed == ApiSpec => []DocumentedIsServed
<1>1. ApiInit => DocumentInv /\ DrawnApi /\ DocumentDone
  <2>1. ApiInit => DocumentInv
    BY DeclaredType DEF ApiInit, ApiStart, DocumentInv, Written, Routed, declared
  <2>2. ApiInit => DrawnApi /\ DocumentDone
    BY DEF ApiInit, ApiStart, DrawnApi, DocumentDone, Routed
  <2>3. QED
    BY <2>1, <2>2
<1>2. CompileInv /\ RouteInv /\ DocumentInv /\ DrawnApi /\ DocumentDone => DocumentedIsServed
  <2> SUFFICES ASSUME CompileInv, RouteInv, DocumentInv, DrawnApi, DocumentDone,
                      stage = "route", outcome # "none"
               PROVE  /\ \A n \in DOMAIN paths : \A o \in paths[n].operations :
                            o.method = method /\ Fits(paths[n].key, path) =>
                                /\ outcome = "found" /\ ~headFallback
                                /\ \/ declared[best].id = o.id
                                   \/ \E i \in DOMAIN api :
                                         /\ declared[i].id = o.id
                                         /\ MoreSpecific(api[best].pattern, api[i].pattern)
                      /\ outcome = "found" /\ ~IsCatchAll(api[best].pattern) =>
                            \E n \in DOMAIN paths : \E o \in paths[n].operations :
                                /\ Fits(paths[n].key, path)
                                /\ o.id = declared[best].id
                                /\ o.method = IF headFallback THEN "get" ELSE method
    BY DEF DocumentedIsServed
  <2>1. RouterInv /\ passed = Len(declared) /\ Len(api) = Len(declared)
    BY DEF RouteInv, DocumentDone, CompileInv, Written, Routed
  <2>2. ASSUME NEW n \in DOMAIN paths, NEW o \in paths[n].operations, o.method = method,
               Fits(paths[n].key, path)
        PROVE  /\ outcome = "found" /\ ~headFallback
               /\ \/ declared[best].id = o.id
                  \/ \E i \in DOMAIN api : /\ declared[i].id = o.id
                                          /\ MoreSpecific(api[best].pattern, api[i].pattern)
    BY <2>1, <2>2, DocumentedServes
  <2>3. QED
    BY <2>1, <2>2, ServedIsDocumented
<1>3. CompileInv /\ GrammarExact /\ DrawnApi /\ [ApiNext]_vars => DrawnApi'
  BY NextDrawnApi
<1>4. QED
  BY <1>1, <1>2, <1>3, RouteInvHolds, RoutesAreExact, NextDocumentInv, NextDocumentDone, PTL
     DEF ApiSpec

=============================================================================
