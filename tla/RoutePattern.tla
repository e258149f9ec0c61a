---------------------------- MODULE RoutePattern -----------------------------
(* route_pattern and its segments, routing/route.hpp.  A text is a sequence *)
(* of characters.                                                           *)
EXTENDS Naturals, Sequences

CONSTANTS
    NameChar,       \* letters, digits, "_" and "-"
    OtherChar       \* characters no parameter name has, the delimiters among them

ASSUME CharAssumption == {"/", "{", "}", "*"} \subseteq OtherChar \ NameChar

Char    == NameChar \cup OtherChar
Text    == Seq(Char)
Kind    == {"literal", "parameter", "catch_all"}
Segment == [kind : Kind, text : Text]

=============================================================================
