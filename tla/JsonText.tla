------------------------------- MODULE JsonText -------------------------------
(***************************************************************************)
(* How json/read.hpp cuts one string or number from the bytes of its       *)
(* input and what it makes of it: parse_string, parse_number, valid_utf8,  *)
(* the conversion to the type of the field, and the field's constraint.    *)
(* JsonReader goes on from here with whole tokens.  The writer's           *)
(* append_escaped_string of json/write.hpp is the other direction.         *)
(*                                                                         *)
(* One action is one turn of the loop of parse_string, or one part of a    *)
(* number.  Bytes are 0..255.  The C++ integers have Width bits.  Of a     *)
(* floating-point type the model has what the code asks of it: whether a   *)
(* number is in its range, and, where integers are compared with a bound,  *)
(* the integers that doubles hold.  A number that is read as a double      *)
(* keeps its text.  The place an error reports is left out.                *)
(***************************************************************************)
EXTENDS Integers, Sequences

CONSTANTS
    MaximumString,      \* read_limits::maximum_string_bytes
    Width,
    Doubles,            \* the integers that a double holds
    Even,               \* those of them with an even mantissa
    Held(_, _),         \* Held(m, e): m * 10^e is in the range of the type "double",
                        \* neither rounded to infinity nor, unless m = 0, to zero
    Originals           \* the strings that WrittenIsRead is about

Byte   == 0..255

ASSUME TextAssumption ==
    /\ MaximumString \in Nat /\ Width \in Nat \ {0}
    /\ 0 \in Doubles /\ Doubles \subseteq Int
    /\ Originals \subseteq Seq(Byte)

Wanted == {"string", "string_view", "double", "signed", "unsigned"}
Rule   == [kind : {"none", "minimum", "exclusive_minimum", "maximum", "exclusive_maximum",
                   "min_length", "max_length"}, bound : Int]

VARIABLES
    bytes,          \* cursor::input_, from the first byte of the token
    wanted, rule,   \* the type and the constraint of the field
    position,       \* cursor::position_
    segment_start,  \* parse_string: where the bytes begin that are not in owned yet
    owned,          \* parsed_string::owned
    owns_value,     \* parsed_string::owns_value
    part,           \* what the cursor reads next
    verdict,        \* "reading", then "accepted" or the error's code
    parsed          \* the value: bytes of a string or of a double's text, or an integer

textVars  == <<bytes, wanted, rule, position, segment_start, owned, owns_value, part, verdict, parsed>>
givenVars == <<bytes, wanted, rule>>

Quote     == 34
Backslash == 92
Digit     == 48..57

ByteAt(p)      == IF p \in DOMAIN bytes THEN bytes[p] ELSE 0
Taken(p)   == SubSeq(bytes, segment_start, p - 1)
StringLike == {"string", "string_view"}

-----------------------------------------------------------------------------
(* UTF-8.                                                                  *)

Trailing(lead) ==
    CASE lead \in 192..223 -> 1
      [] lead \in 224..239 -> 2
      [] lead \in 240..247 -> 3
      [] OTHER             -> 0

LeadBits(lead) == lead % (CASE Trailing(lead) = 1 -> 32 [] Trailing(lead) = 2 -> 16 [] OTHER -> 8)
Smallest(n)    == CASE n = 1 -> 128 [] n = 2 -> 2048 [] OTHER -> 65536
Surrogate      == 55296..57343

\* The scalar value that n continuation bytes after place i spell with the lead there.
Scalar(s, i, n) ==
    LET S[k \in 0..n] == IF k = 0 THEN LeadBits(s[i]) ELSE S[k - 1] * 64 + (s[i + k] % 64) IN S[n]

\* A scalar value that takes n continuation bytes and no fewer.
Proper(n, scalar) == scalar \in Smallest(n)..1114111 /\ scalar \notin Surrogate

Multibyte(s, i, n) ==
    /\ n > 0 /\ i + n <= Len(s)
    /\ \A k \in 1..n : s[i + k] \in 128..191
    /\ Proper(n, Scalar(s, i, n))

valid_utf8(s) ==
    LET Valid[i \in 1..(Len(s) + 1)] ==
          \/ i > Len(s)
          \/ s[i] <= 127 /\ Valid[i + 1]
          \/ Multibyte(s, i, Trailing(s[i])) /\ Valid[i + Trailing(s[i]) + 1]
    IN  Valid[1]

append_utf8(scalar) ==
    LET low(k) == 128 + ((scalar \div k) % 64) IN
    IF scalar <= 127 THEN <<scalar>>
    ELSE IF scalar <= 2047 THEN <<192 + scalar \div 64, low(1)>>
    ELSE IF scalar <= 65535 THEN <<224 + scalar \div 4096, low(64), low(1)>>
    ELSE <<240 + scalar \div 262144, low(4096), low(64), low(1)>>

-----------------------------------------------------------------------------
(* Escapes.                                                                *)

hex_value(b) ==
    CASE b \in Digit   -> b - 48
      [] b \in 97..102 -> b - 87
      [] b \in 65..70  -> b - 55
      [] OTHER         -> -1

\* parse_hex_quad at p; -1 for too few digits, or a byte that is none.
parse_hex_quad(p) ==
    IF p + 3 > Len(bytes) \/ \E k \in p..(p + 3) : hex_value(bytes[k]) = -1 THEN -1
    ELSE 4096 * hex_value(bytes[p]) + 256 * hex_value(bytes[p + 1])
         + 16 * hex_value(bytes[p + 2]) + hex_value(bytes[p + 3])

Unescaped(b) ==
    CASE b \in {Quote, Backslash, 47} -> b
      [] b = 98  -> 8
      [] b = 102 -> 12
      [] b = 110 -> 10
      [] b = 114 -> 13
      [] b = 116 -> 9

\* What the escape at p stands for, and the place after it, or the code of its error.
Escape(code, spelt, next) == [code |-> code, spelt |-> spelt, next |-> next]
EscapeAt(p) ==
    LET b    == ByteAt(p + 1)
        high == parse_hex_quad(p + 2)
        low  == parse_hex_quad(p + 8)
    IN  IF p + 1 > Len(bytes) THEN Escape("invalid_escape", <<>>, p)
        ELSE IF b \in {Quote, Backslash, 47, 98, 102, 110, 114, 116}
             THEN Escape("none", <<Unescaped(b)>>, p + 2)
        ELSE IF b # 117 THEN Escape("invalid_escape", <<>>, p)
        ELSE IF high = -1 \/ high \in 56320..57343 THEN Escape("invalid_unicode", <<>>, p)
        ELSE IF high \notin Surrogate THEN Escape("none", append_utf8(high), p + 6)
        ELSE IF ByteAt(p + 6) # Backslash \/ ByteAt(p + 7) # 117 \/ low \notin 56320..57343
             THEN Escape("invalid_unicode", <<>>, p)
        ELSE Escape("none", append_utf8(65536 + (high - 55296) * 1024 + (low - 56320)), p + 12)

-----------------------------------------------------------------------------
(* Numbers and constraints.                                                *)

\* The first place from p on that has no digit.
Digits(p) ==
    CHOOSE q \in p..(Len(bytes) + 1) : ByteAt(q) \notin Digit /\ \A k \in p..(q - 1) : ByteAt(k) \in Digit

Decimal(s) ==
    LET D[k \in 0..Len(s)] == IF k = 0 THEN 0 ELSE D[k - 1] * 10 + (s[k] - 48) IN D[Len(s)]

Representable == IF wanted = "signed" THEN (-(2 ^ (Width - 1)))..(2 ^ (Width - 1) - 1) ELSE 0..(2 ^ Width - 1)

\* The integer that the digits of the token are for.
Leading == IF ByteAt(1) = 45 THEN 2 ELSE 1
Number  == (IF ByteAt(1) = 45 THEN -1 ELSE 1) * Decimal(SubSeq(bytes, Leading, Digits(Leading) - 1))

\* The places where a fraction, an exponent and its digits would begin.
AfterInteger  == Digits(Leading)
AfterFraction == IF ByteAt(AfterInteger) = 46 THEN Digits(AfterInteger + 1) ELSE AfterInteger
HasExponent   == ByteAt(AfterFraction) \in {69, 101}
Power         == IF ByteAt(AfterFraction + 1) \in {43, 45} THEN AfterFraction + 2 ELSE AfterFraction + 1

\* Without its sign the number is Significand * 10^Scale.
Significand == Decimal(SubSeq(bytes, Leading, AfterInteger - 1) \o SubSeq(bytes, AfterInteger + 1, AfterFraction - 1))
Exponent    == (IF ByteAt(AfterFraction + 1) = 45 THEN -1 ELSE 1) * Decimal(SubSeq(bytes, Power, Digits(Power) - 1))
Scale       == (IF HasExponent THEN Exponent ELSE 0)
               - (IF AfterFraction = AfterInteger THEN 0 ELSE AfterFraction - AfterInteger - 1)

\* static_cast<double>: the nearest double, the even one of two.
Distance(a, b) == IF a < b THEN b - a ELSE a - b
Nearest(n)     == {d \in Doubles : \A e \in Doubles : Distance(n, d) <= Distance(n, e)}
ToDouble(n)    == CHOOSE d \in Nearest(n) : Nearest(n) \cap Even # {} => d \in Even

\* Mutant: an exclusive minimum is taken for an inclusive one.
SatisfiesRule_Inclusive(value) ==
    LET number == ToDouble(value)
        limit  == ToDouble(rule.bound)
    IN  CASE rule.kind = "none" -> TRUE
          [] rule.kind \in {"min_length", "max_length"} ->
               /\ wanted \in StringLike
               /\ IF rule.kind = "min_length" THEN Len(value) >= rule.bound ELSE Len(value) <= rule.bound
          [] OTHER ->
               /\ wanted \notin StringLike
               /\ CASE rule.kind \in {"minimum", "exclusive_minimum"} -> number >= limit
                    [] rule.kind = "maximum"                          -> number <= limit
                    [] rule.kind = "exclusive_maximum"                -> number < limit

\* validate_constraint: numbers are compared as doubles, strings by their bytes; a
\* constraint of the other sort is never met.
SatisfiesRule(value) ==
    LET number == ToDouble(value)
        limit  == ToDouble(rule.bound)
    IN  CASE rule.kind = "none" -> TRUE
          [] rule.kind \in {"min_length", "max_length"} ->
               /\ wanted \in StringLike
               /\ IF rule.kind = "min_length" THEN Len(value) >= rule.bound ELSE Len(value) <= rule.bound
          [] OTHER ->
               /\ wanted \notin StringLike
               /\ CASE rule.kind = "minimum"           -> number >= limit
                    [] rule.kind = "exclusive_minimum" -> number > limit
                    [] rule.kind = "maximum"           -> number <= limit
                    [] rule.kind = "exclusive_maximum" -> number < limit

-----------------------------------------------------------------------------

Refuse(code) ==
    /\ verdict' = code /\ part' = "end"
    /\ UNCHANGED <<givenVars, position, segment_start, owned, owns_value, parsed>>

\* read_value has its value, and validate_field looks at it.
Finish(value, p) ==
    IF ~SatisfiesRule(value) THEN Refuse("constraint_failed")
    ELSE /\ verdict' = "accepted" /\ part' = "end"
         /\ parsed' = value /\ position' = p
         /\ UNCHANGED <<givenVars, segment_start, owned, owns_value>>

GoOn(to, p) ==
    /\ part' = to /\ position' = p
    /\ UNCHANGED <<givenVars, segment_start, owned, owns_value, verdict, parsed>>

OpenString ==
    /\ part = "open"
    /\ IF ByteAt(position) # Quote THEN Refuse("expected_string")
       ELSE /\ part' = "string"
            /\ position' = position + 1 /\ segment_start' = position + 1
            /\ UNCHANGED <<givenVars, owned, owns_value, verdict, parsed>>

InString(p) == part = "string" /\ p <= Len(bytes)

ReadByte ==
    /\ InString(position) /\ ByteAt(position) \notin {Quote, Backslash} \cup 0..31
    /\ GoOn("string", position + 1)

BadString ==
    \/ InString(position) /\ ByteAt(position) \in 0..31 /\ Refuse("invalid_string")
    \/ part = "string" /\ position > Len(bytes) /\ Refuse("unterminated_string")

\* Mutant: the bytes between two escapes are dropped.
ReadEscape_Forgets ==
    LET escape == EscapeAt(position)
        whole  == owned \o escape.spelt
    IN  /\ InString(position) /\ ByteAt(position) = Backslash
        /\ IF escape.code # "none" THEN Refuse(escape.code)
           ELSE IF Len(whole) <= MaximumString
                THEN /\ owned' = whole /\ owns_value' = TRUE
                     /\ position' = escape.next /\ segment_start' = escape.next
                     /\ UNCHANGED <<givenVars, part, verdict, parsed>>
                ELSE Refuse("string_too_large")

ReadEscape ==
    LET escape == EscapeAt(position)
        whole  == owned \o Taken(position) \o escape.spelt
    IN  /\ InString(position) /\ ByteAt(position) = Backslash
        /\ IF escape.code # "none" THEN Refuse(escape.code)
           ELSE IF Len(whole) <= MaximumString
                THEN /\ owned' = whole /\ owns_value' = TRUE
                     /\ position' = escape.next /\ segment_start' = escape.next
                     /\ UNCHANGED <<givenVars, part, verdict, parsed>>
                ELSE Refuse("string_too_large")

\* The closing quote.  What was unescaped cannot be borrowed from the input.
CloseString ==
    LET whole == owned \o Taken(position) IN
    /\ InString(position) /\ ByteAt(position) = Quote
    /\ IF Len(whole) > MaximumString THEN Refuse("string_too_large")
       ELSE IF ~valid_utf8(whole) THEN Refuse("invalid_utf8")
       ELSE IF wanted = "string_view" /\ owns_value THEN Refuse("escaped_borrowed_string")
       ELSE Finish(whole, position + 1)

ReadInteger ==
    LET p == IF ByteAt(position) = 45 THEN position + 1 ELSE position IN
    /\ part = "integer"
    /\ IF ByteAt(p) \notin Digit \/ (ByteAt(p) = 48 /\ ByteAt(p + 1) \in Digit) THEN Refuse("invalid_number")
       ELSE GoOn("fraction", Digits(p))

ReadFraction ==
    /\ part = "fraction"
    /\ IF ByteAt(position) # 46 THEN GoOn("exponent", position)
       ELSE IF ByteAt(position + 1) \notin Digit THEN Refuse("invalid_number")
       ELSE GoOn("exponent", Digits(position + 1))

ReadExponent ==
    LET p == IF ByteAt(position + 1) \in {43, 45} THEN position + 2 ELSE position + 1 IN
    /\ part = "exponent"
    /\ IF ByteAt(position) \notin {69, 101} THEN GoOn("convert", position)
       ELSE IF ByteAt(p) \notin Digit THEN Refuse("invalid_number")
       ELSE GoOn("convert", Digits(p))

\* std::from_chars takes the digits it can; the code wants all of the token taken.  A
\* double takes all of them, and from_chars reports what is out of its range, so what
\* it gives is always finite.
Convert ==
    /\ part = "convert"
    /\ IF wanted = "double"
       THEN IF Held(Significand, Scale) THEN Finish(SubSeq(bytes, 1, position - 1), position)
            ELSE Refuse("number_out_of_range")
       ELSE IF wanted = "unsigned" /\ ByteAt(1) = 45 THEN Refuse("invalid_number")
       ELSE IF Number \notin Representable THEN Refuse("number_out_of_range")
       ELSE IF Digits(Leading) # position THEN Refuse("invalid_number")
       ELSE Finish(Number, position)

\* The constraint of a double is not modelled.
TextStart ==
    /\ wanted = "double" => rule.kind \in {"none", "min_length", "max_length"}
    /\ position = 1 /\ segment_start = 1
    /\ owned = <<>> /\ owns_value = FALSE
    /\ part = IF wanted \in StringLike THEN "open" ELSE "integer"
    /\ verdict = "reading" /\ parsed = <<>>

TextInit == bytes \in Seq(Byte) /\ wanted \in Wanted /\ rule \in Rule /\ TextStart

TextNext ==
    \/ OpenString \/ ReadByte \/ BadString \/ ReadEscape \/ CloseString
    \/ ReadInteger \/ ReadFraction \/ ReadExponent \/ Convert

TextSpec == TextInit /\ [][TextNext]_textVars

-----------------------------------------------------------------------------
(* The writer.                                                             *)

\* Mutant: control characters without an escape of their own are copied.
Escaped_Control(b) ==
    CASE b \in {Quote, Backslash} -> <<Backslash, b>>
      [] b = 8  -> <<Backslash, 98>>
      [] b = 12 -> <<Backslash, 102>>
      [] b = 10 -> <<Backslash, 110>>
      [] b = 13 -> <<Backslash, 114>>
      [] b = 9  -> <<Backslash, 116>>
      [] OTHER  -> <<b>>

HexDigit(n) == IF n < 10 THEN 48 + n ELSE 87 + n

Escaped(b) ==
    CASE b \in {Quote, Backslash} -> <<Backslash, b>>
      [] b = 8  -> <<Backslash, 98>>
      [] b = 12 -> <<Backslash, 102>>
      [] b = 10 -> <<Backslash, 110>>
      [] b = 13 -> <<Backslash, 114>>
      [] b = 9  -> <<Backslash, 116>>
      [] b \in 0..31 \ {8, 9, 10, 12, 13} -> <<Backslash, 117, 48, 48, HexDigit(b \div 16), HexDigit(b % 16)>>
      [] OTHER  -> <<b>>

append_escaped_string(value) ==
    LET W[k \in 0..Len(value)] == IF k = 0 THEN <<Quote>> ELSE W[k - 1] \o Escaped(value[k])
    IN  Append(W[Len(value)], Quote)

-----------------------------------------------------------------------------
(* Properties.                                                             *)

\* The cursor stays within the input, what is unescaped never grows past the limit,
\* and nothing is in owned before it owns the value.
TextTypeOK ==
    /\ position \in 1..(Len(bytes) + 1)
    /\ segment_start \in 1..position
    /\ Len(owned) <= MaximumString
    /\ ~owns_value => owned = <<>>

\* A string_view field is a part of the input, the bytes between the quotes, and
\* never of parse_string's own string, which is gone when read_value returns.
ViewIsBorrowed ==
    verdict = "accepted" /\ wanted = "string_view" => parsed = SubSeq(bytes, 2, position - 2)

Whole    == verdict = "accepted" /\ position = Len(bytes) + 1
Writable == {v \in Originals : Len(v) <= MaximumString}
Written  == [v \in Writable |-> append_escaped_string(v)]

\* A bound, compared in floating point, lets through every integer that meets an
\* inclusive bound and refuses every one that breaks an exclusive one.  It errs the
\* other way by a little only: never where two doubles lie between the integer and
\* its bound, the two themselves included.
BoundsHold ==
    verdict \in {"accepted", "constraint_failed"} /\ wanted \in {"signed", "unsigned"} =>
        LET taken == verdict = "accepted"
            TwoIn(i, j) == \E d, e \in Doubles \cap (i..j) : d # e
        IN  /\ rule.kind = "minimum" =>
                  (Number >= rule.bound => taken) /\ (TwoIn(Number, rule.bound) => ~taken)
            /\ rule.kind = "maximum" =>
                  (Number <= rule.bound => taken) /\ (TwoIn(rule.bound, Number) => ~taken)
            /\ rule.kind = "exclusive_minimum" =>
                  (taken => Number > rule.bound) /\ (TwoIn(rule.bound, Number) => taken)
            /\ rule.kind = "exclusive_maximum" =>
                  (taken => Number < rule.bound) /\ (TwoIn(Number, rule.bound) => taken)

\* Whatever bytes a string holds, what the writer makes of it is read back as that
\* string, and nothing of it is left; unless they are not UTF-8, which the writer
\* copies as they are, and that, and nothing else, is what the reader finds.
WrittenIsRead ==
    verdict # "reading" /\ rule.kind = "none" /\ wanted = "string" =>
        \A v \in Writable : Written[v] = bytes =>
            IF valid_utf8(v) THEN Whole /\ parsed = v ELSE verdict = "invalid_utf8"

=============================================================================
