---------------------------- MODULE RouteGrammar -----------------------------
(***************************************************************************)
(* parse_route of routing/route.hpp: the compiler cuts the path of a route *)
(* annotation into segments.  One action is what precedes the loop, the    *)
(* other is one turn of it.                                                *)
(***************************************************************************)
EXTENDS RoutePattern, FiniteSets

CONSTANTS
    MaxSegments,    \* max_route_segments
    MaxParameters,  \* max_path_parameters
    Patterns        \* the patterns whose texts GrammarExact says are accepted

ASSUME GrammarAssumption ==
    MaxSegments \in Nat /\ MaxParameters \in Nat /\ Patterns \subseteq Seq(Segment)

VARIABLES
    source,         \* route_pattern::source
    offset,         \* the offset of the loop
    segments,       \* route_pattern::segments, as far as they are made
    error           \* route_pattern::error, "start" before the loop and "scan" in it

grammarVars == <<source, offset, segments, error>>

-----------------------------------------------------------------------------

\* string_view::find from a position; one past the end stands for npos.
FindIn(s, c, from) ==
    CHOOSE i \in from..(Len(s) + 1) :
        /\ i = Len(s) + 1 \/ s[i] = c
        /\ \A j \in from..(i - 1) : s[j] # c

HasChar(s, c) == \E i \in DOMAIN s : s[i] = c

\* The segment ends here, before a slash or at the end of the source.
separator    == FindIn(source, "/", offset)
segment_text == SubSeq(source, offset, separator - 1)
Final        == separator = Len(source) + 1

Braced(t)  == t[1] = "{" \/ t[Len(t)] = "}"
Starred(t) == t[2] = "*"
name(t)    == SubSeq(t, IF Starred(t) THEN 3 ELSE 2, Len(t) - 1)

valid_parameter_name(n) == n # <<>> /\ \A i \in DOMAIN n : n[i] \in NameChar

Placeholders(pattern) == {i \in DOMAIN pattern : pattern[i].kind # "literal"}
Named(pattern, n)     == \E i \in Placeholders(pattern) : pattern[i].text = n

\* Mutant: a name may be used twice.
Refusal_NameTwice(t) ==
    IF Len(segments) = MaxSegments THEN "too_many_segments"
    ELSE IF t = <<>> THEN "empty_segment"
    ELSE IF ~Braced(t) THEN IF HasChar(t, "{") \/ HasChar(t, "}") THEN "unmatched_brace" ELSE "none"
    ELSE IF Len(t) < 3 \/ t[1] # "{" \/ t[Len(t)] # "}" THEN "unmatched_brace"
    ELSE IF Starred(t) /\ ~Final THEN "catch_all_not_final"
    ELSE IF ~valid_parameter_name(name(t)) THEN "invalid_parameter_name"
    ELSE IF Cardinality(Placeholders(segments)) = MaxParameters THEN "too_many_parameters"
    ELSE "none"

\* The first check of the loop's body that a segment fails.
Refusal(t) ==
    IF Len(segments) = MaxSegments THEN "too_many_segments"
    ELSE IF t = <<>> THEN "empty_segment"
    ELSE IF ~Braced(t) THEN IF HasChar(t, "{") \/ HasChar(t, "}") THEN "unmatched_brace" ELSE "none"
    ELSE IF Len(t) < 3 \/ t[1] # "{" \/ t[Len(t)] # "}" THEN "unmatched_brace"
    ELSE IF Starred(t) /\ ~Final THEN "catch_all_not_final"
    ELSE IF ~valid_parameter_name(name(t)) THEN "invalid_parameter_name"
    ELSE IF Cardinality(Placeholders(segments)) = MaxParameters THEN "too_many_parameters"
    ELSE IF Named(segments, name(t)) THEN "duplicate_parameter_name"
    ELSE "none"

SegmentOf(t) ==
    IF ~Braced(t) THEN [kind |-> "literal", text |-> t]
    ELSE [kind |-> IF Starred(t) THEN "catch_all" ELSE "parameter", text |-> name(t)]

-----------------------------------------------------------------------------

\* parse_route is called for s.
Parse(s) == source' = s /\ offset' = 2 /\ segments' = <<>> /\ error' = "start"

\* Mutant: a trailing slash is left to the loop.
Enter_NoTrailingSlash ==
    /\ error = "start"
    /\ error' = IF source = <<>> \/ source[1] # "/" THEN "missing_leading_slash"
                ELSE IF source = <<"/">> THEN "none"
                ELSE "scan"
    /\ UNCHANGED <<source, offset, segments>>

\* The checks before the loop; "/" alone has no segment.
Enter ==
    /\ error = "start"
    /\ error' = IF source = <<>> \/ source[1] # "/" THEN "missing_leading_slash"
                ELSE IF source = <<"/">> THEN "none"
                ELSE IF source[Len(source)] = "/" THEN "trailing_slash"
                ELSE "scan"
    /\ UNCHANGED <<source, offset, segments>>

\* One turn of the loop.
ScanSegment ==
    /\ error = "scan"
    /\ IF Refusal(segment_text) # "none"
       THEN error' = Refusal(segment_text) /\ UNCHANGED <<offset, segments>>
       ELSE /\ segments' = Append(segments, SegmentOf(segment_text))
            /\ IF Final THEN error' = "none" /\ UNCHANGED offset
                        ELSE offset' = separator + 1 /\ UNCHANGED error
    /\ UNCHANGED source

GrammarNext == Enter \/ ScanSegment

Parsed == error \notin {"start", "scan"}

-----------------------------------------------------------------------------
(* Properties.                                                             *)

Errors == {"none", "missing_leading_slash", "trailing_slash", "empty_segment", "unmatched_brace",
           "invalid_parameter_name", "duplicate_parameter_name", "catch_all_not_final",
           "too_many_segments", "too_many_parameters"}

\* The loop never looks past the source, whose last character is not a slash, and the
\* arrays of the pattern are never overrun.
GrammarTypeOK ==
    /\ source \in Text
    /\ error \in Errors \cup {"start", "scan"}
    /\ segments \in Seq(Segment)
    /\ Len(segments) <= MaxSegments
    /\ error = "scan" => offset \in 2..Len(source)

\* What match_route and find_path_value take for granted of a pattern: a catch-all is the
\* last segment, no two placeholders share a name, and none is empty.
Sound(pattern) ==
    /\ \A i \in DOMAIN pattern : pattern[i].kind = "catch_all" => i = Len(pattern)
    /\ \A i, j \in Placeholders(pattern) : pattern[i].text = pattern[j].text => i = j
    /\ \A i \in DOMAIN pattern : pattern[i].text # <<>>

-----------------------------------------------------------------------------
(* A route as a text: the grammar put together, not taken apart.           *)

Spelled(segment) ==
    CASE segment.kind = "literal"   -> <<"/">> \o segment.text
      [] segment.kind = "parameter" -> <<"/", "{">> \o segment.text \o <<"}">>
      [] segment.kind = "catch_all" -> <<"/", "{", "*">> \o segment.text \o <<"}">>

\* The text of the first n segments, for every n.
Spellings(pattern) ==
    LET S[n \in 0..Len(pattern)] == IF n = 0 THEN <<>> ELSE S[n - 1] \o Spelled(pattern[n])
    IN  S

Rendered(pattern) == IF pattern = <<>> THEN <<"/">> ELSE Spellings(pattern)[Len(pattern)]

Proper(segment) ==
    IF segment.kind = "literal"
    THEN segment.text # <<>> /\ \A c \in {"/", "{", "}"} : ~HasChar(segment.text, c)
    ELSE valid_parameter_name(segment.text)

Permitted(pattern) ==
    /\ Sound(pattern) /\ \A i \in DOMAIN pattern : Proper(pattern[i])
    /\ Len(pattern) <= MaxSegments /\ Cardinality(Placeholders(pattern)) <= MaxParameters

WellFormed == {Rendered(p) : p \in {p \in Patterns : Permitted(p)}}

\* A source is a route exactly when it is what some permitted pattern looks like, and the
\* segments the compiler keeps are that pattern.
GrammarExact ==
    /\ error \in Errors \ {"none"} => source \notin WellFormed
    /\ error = "none" /\ source # <<>> => Permitted(segments) /\ Rendered(segments) = source

=============================================================================
