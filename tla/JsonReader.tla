------------------------------ MODULE JsonReader ------------------------------
(***************************************************************************)
(* json::read of json/read.hpp: the recursive reader that turns a JSON     *)
(* text into a value of a C++ type, under the limits of read_limits.       *)
(*                                                                         *)
(* The input is a sequence of tokens (JsonText models how strings and      *)
(* numbers are cut from bytes); " " is a run of white space, and "bad" is  *)
(* any lexeme that parse_string or parse_number refuses.  The C++ calls    *)
(* that are active are the frames of "stack"; one action is what one call  *)
(* does between two calls of its own.                                      *)
(***************************************************************************)
EXTENDS Naturals, Sequences

CONSTANTS
    Types,          \* the types considered, with the types they are made of
    Inputs,         \* the token sequences considered
    Limits          \* the read_limits considered

Mark   == {"{", "}", "[", "]", ":", ",", " "}
Lexeme == {"null", "bool", "number", "string", "bad"}
Token  == [is : Mark \cup Lexeme, val : Nat]

\* A container type is made of types that are considered too.
ASSUME ReaderAssumption ==
    /\ \A t \in Types :
          /\ t.kind \in {"scalar", "optional", "vector", "array", "object"}
          /\ t.kind = "scalar" => t.is \in Lexeme
          /\ t.kind \in {"optional", "vector", "array"} => t.of \in Types
          /\ t.kind = "array" => t.size \in Nat
          /\ t.kind = "object" => \A i \in DOMAIN t.fields : t.fields[i].type \in Types
          /\ t.kind = "object" => DOMAIN t.fields \subseteq Nat
    /\ \A text \in Inputs : text \in Seq(Token)
    /\ \A l \in Limits : l \in [input : Nat, depth : Nat, array : Nat, members : Nat,
                                rejectUnknown : BOOLEAN]

VARIABLES
    text,           \* cursor::input_
    limits,         \* cursor::limits_
    type,           \* the type asked for
    pos,            \* cursor::position_
    stack,          \* the active calls, innermost last
    made,           \* for each of them, the values it has collected
    outcome,        \* "none" while reading, then "accepted" or the error's code
    result          \* the value returned

readerVars == <<text, limits, type, pos, stack, made, outcome, result>>
fixedVars  == <<text, limits, type>>

\* A call: the place it has reached, its type (unused when it skips), its depth
\* argument, the fields seen in the order they came and the elements counted.
Place == {"value", "member", "members", "unknown", "element", "elements",
          "skip", "skipMember", "skipMembers", "skipElement", "skipElements"}
Frame == [at : Place, type : Types, depth : Nat, seen : Seq(Nat), count : Nat]

ReaderTypeOK ==
    /\ text \in Seq(Token) /\ limits \in Limits /\ type \in Types
    /\ pos \in 1..(Len(text) + 1)
    /\ stack \in Seq(Frame)
    /\ DOMAIN made = DOMAIN stack
    /\ (outcome = "none") <=> (stack # <<>>)

-----------------------------------------------------------------------------
(* The cursor.                                                             *)

Peek(p) == IF p \in DOMAIN text THEN text[p].is ELSE "end"

\* skip_whitespace, from p.
Skip(p) == CHOOSE q \in p..(Len(text) + 1) :
               /\ Peek(q) # " "
               /\ \A r \in p..(q - 1) : Peek(r) = " "

Value(is, val, items) == [is |-> is, val |-> val, items |-> items]
Null   == Value("null", 0, <<>>)
Unread == Value("default", 0, <<>>)        \* a value the input had no part in

-----------------------------------------------------------------------------
(* Calls and returns.                                                      *)

Top   == stack[Len(stack)]
Below == SubSeq(stack, 1, Len(stack) - 1)
Fresh(at, t, depth) == [at |-> at, type |-> t, depth |-> depth, seen |-> <<>>, count |-> 0]

Continue(frame, p) ==
    /\ stack' = Append(Below, frame)
    /\ pos' = p
    /\ UNCHANGED <<fixedVars, made, outcome, result>>

Call(frame, callee, p) ==
    /\ stack' = Append(Append(Below, frame), callee)
    /\ made' = Append(made, <<>>)
    /\ pos' = p
    /\ UNCHANGED <<fixedVars, outcome, result>>

\* An error goes up through every call unchanged.
Fail(code, p) ==
    /\ outcome' = code
    /\ pos' = p
    /\ stack' = <<>>
    /\ made' = <<>>
    /\ UNCHANGED <<fixedVars, result>>

\* validate_field: the smallest number, or the fewest elements, that are allowed.
Satisfies(field, value) ==
    \/ value.is = "null"
    \/ (IF value.is = "list" THEN Len(value.items) ELSE value.val) >= field.least

\* The outermost call returns to json::read, which wants nothing but white space.
Accept(value, p) ==
    /\ stack' = <<>>
    /\ made' = <<>>
    /\ result' = value
    /\ pos' = Skip(p)
    /\ outcome' = IF Peek(Skip(p)) = "end" THEN "accepted" ELSE "trailing_characters"
    /\ UNCHANGED fixedVars

Caller == stack[Len(stack) - 1]

\* The caller takes the value; one that skips, or skipped a field, drops it.
GiveBack(value, p) ==
    LET n == Len(stack) - 1 IN
    /\ stack' = Below
    /\ made' = [k \in 1..n |-> IF k = n /\ Caller.at \in {"members", "elements"}
                               THEN Append(made[k], value) ELSE made[k]]
    /\ pos' = p
    /\ UNCHANGED <<fixedVars, outcome, result>>

Return(value, p) ==
    IF Len(stack) = 1 THEN Accept(value, p)
    ELSE IF /\ Caller.at = "members"
            /\ ~Satisfies(Caller.type.fields[Caller.seen[Len(Caller.seen)]], value)
         THEN Fail("constraint_failed", p)
         ELSE GiveBack(value, p)

-----------------------------------------------------------------------------
(* read_value.                                                             *)

At(place) == stack # <<>> /\ Top.at = place

ReadNull ==
    LET p == Skip(pos) IN
    /\ At("value")
    /\ Peek(p) = "null"
    /\ IF Top.type.kind = "optional" THEN Return(Null, p + 1) ELSE Fail("null_not_allowed", p)

\* Mutant: read_value of an optional calls itself.
ReadOptional_Itself ==
    LET p == Skip(pos) IN
    /\ At("value")
    /\ Top.type.kind = "optional" /\ Peek(p) # "null"
    /\ Continue(Top, pos)

\* read_value of the contained type, called at the same depth and for its result.
ReadOptional ==
    LET p == Skip(pos) IN
    /\ At("value")
    /\ Top.type.kind = "optional" /\ Peek(p) # "null"
    /\ Continue([Top EXCEPT !.type = Top.type.of], p)

\* A string, a bool, a number or an enum; "most" is the largest the type holds.
ReadScalar ==
    LET p == Skip(pos) IN
    /\ At("value")
    /\ Top.type.kind = "scalar" /\ Peek(p) # "null"
    /\ IF Peek(p) # Top.type.is THEN Fail("unexpected", p)
       ELSE IF text[p].val > Top.type.most THEN Fail("out_of_range", p)
       ELSE Return(Value(text[p].is, text[p].val, <<>>), p + 1)

-----------------------------------------------------------------------------
(* read_object.                                                            *)

\* The index in "seen" of the field's value.
ValueOf(frame, values, i) ==
    IF \E k \in DOMAIN frame.seen : frame.seen[k] = i
    THEN values[CHOOSE k \in DOMAIN frame.seen : frame.seen[k] = i]
    ELSE IF frame.type.fields[i].type.kind = "optional" THEN Null ELSE Unread

MaySkip(field) == field.type.kind = "optional" \/ field.default

\* finish_missing_fields, then the object.
FinishObject(frame, values, p) ==
    IF \E i \in DOMAIN frame.type.fields :
           /\ ~MaySkip(frame.type.fields[i])
           /\ \A k \in DOMAIN frame.seen : frame.seen[k] # i
    THEN Fail("missing_field", p)
    ELSE Return(Value("object", 0, [i \in DOMAIN frame.type.fields |->
                                       ValueOf(frame, values, i)]), p)

BeginObject ==
    LET p == Skip(pos)
        q == Skip(p + 1)
    IN  /\ At("value")
        /\ Top.type.kind = "object" /\ Peek(p) # "null"
        /\ IF Top.depth >= limits.depth THEN Fail("maximum_depth", p)
           ELSE IF Peek(p) # "{" THEN Fail("expected_object", p)
           ELSE IF Peek(q) = "}" THEN FinishObject(Top, <<>>, q + 1)
           ELSE Continue([Top EXCEPT !.at = "member"], q)

\* Mutant: a field that was seen is read again and its first value kept.
ReadMember_NoDuplicateCheck ==
    LET colon  == Skip(pos + 1)
        value  == Skip(colon + 1)
        named  == {i \in DOMAIN Top.type.fields : Top.type.fields[i].name = text[pos].val}
        frame  == [Top EXCEPT !.count = @ + 1]
    IN  /\ At("member")
        /\ IF Top.count >= limits.members THEN Fail("object_too_large", pos)
           ELSE IF Peek(pos) # "string" THEN Fail("expected_string", pos)
           ELSE IF Peek(colon) # ":" THEN Fail("expected_colon", colon)
           ELSE \/ /\ named = {}
                   /\ IF limits.rejectUnknown THEN Fail("unknown_field", value)
                      ELSE Call([frame EXCEPT !.at = "unknown"],
                                Fresh("skip", Top.type, Top.depth + 1), value)
                \/ \E i \in named :
                      Call([frame EXCEPT !.at = "members", !.seen = Append(@, i)],
                           Fresh("value", Top.type.fields[i].type, Top.depth + 1), value)

\* One turn of the loop, up to the call that reads the member's value.
ReadMember ==
    LET colon  == Skip(pos + 1)
        value  == Skip(colon + 1)
        named  == {i \in DOMAIN Top.type.fields : Top.type.fields[i].name = text[pos].val}
        frame  == [Top EXCEPT !.count = @ + 1]
    IN  /\ At("member")
        /\ IF Top.count >= limits.members THEN Fail("object_too_large", pos)
           ELSE IF Peek(pos) # "string" THEN Fail("expected_string", pos)
           ELSE IF Peek(colon) # ":" THEN Fail("expected_colon", colon)
           ELSE \/ /\ named = {}
                   /\ IF limits.rejectUnknown THEN Fail("unknown_field", value)
                      ELSE Call([frame EXCEPT !.at = "unknown"],
                                Fresh("skip", Top.type, Top.depth + 1), value)
                \/ \E i \in named :
                      IF \E k \in DOMAIN Top.seen : Top.seen[k] = i
                      THEN Fail("duplicate_field", value)
                      ELSE Call([frame EXCEPT !.at = "members", !.seen = Append(@, i)],
                                Fresh("value", Top.type.fields[i].type, Top.depth + 1), value)

AfterMember ==
    LET p == Skip(pos) IN
    /\ At("members") \/ At("unknown")
    /\ IF Peek(p) = "}" THEN FinishObject(Top, made[Len(made)], p + 1)
       ELSE IF Peek(p) = "," THEN Continue([Top EXCEPT !.at = "member"], Skip(p + 1))
       ELSE Fail("expected_comma", p)

-----------------------------------------------------------------------------
(* read_vector and read_array.                                             *)

List(values) == Value("list", 0, values)

BeginList ==
    LET p == Skip(pos)
        q == Skip(p + 1)
        fixed == Top.type.kind = "array"
    IN  /\ At("value")
        /\ Top.type.kind \in {"vector", "array"} /\ Peek(p) # "null"
        /\ IF Top.depth >= limits.depth THEN Fail("maximum_depth", p)
           ELSE IF Peek(p) # "[" THEN Fail("expected_array", p)
           ELSE IF fixed /\ Top.type.size > limits.array THEN Fail("array_too_large", p + 1)
           ELSE IF fixed /\ (Top.type.size = 0) # (Peek(q) = "]") THEN Fail("array_size", q)
           ELSE IF Peek(q) = "]" THEN Return(List(<<>>), q + 1)
           ELSE Continue([Top EXCEPT !.at = "element"], q)

\* Mutant: the limit is compared one element late.
ReadElement_OffByOne ==
    /\ At("element")
    /\ IF Top.type.kind = "vector" /\ Top.count > limits.array
       THEN Fail("array_too_large", pos)
       ELSE Call([Top EXCEPT !.at = "elements", !.count = @ + 1],
                 Fresh("value", Top.type.of, Top.depth + 1), pos)

ReadElement ==
    /\ At("element")
    /\ IF Top.type.kind = "vector" /\ Top.count >= limits.array
       THEN Fail("array_too_large", pos)
       ELSE Call([Top EXCEPT !.at = "elements", !.count = @ + 1],
                 Fresh("value", Top.type.of, Top.depth + 1), pos)

AfterElement ==
    LET p    == Skip(pos)
        full == Top.type.kind = "array" /\ Top.count = Top.type.size
        more == Top.type.kind = "array" /\ Top.count < Top.type.size
    IN  /\ At("elements")
        /\ IF Peek(p) = "]" /\ ~more THEN Return(List(made[Len(made)]), p + 1)
           ELSE IF Peek(p) = "," /\ ~full
                THEN Continue([Top EXCEPT !.at = "element"], Skip(p + 1))
           ELSE Fail(IF Top.type.kind = "array" THEN "array_size" ELSE "expected_comma", p)

-----------------------------------------------------------------------------
(* skip_value.                                                             *)

SkipValue ==
    LET p == Skip(pos)
        q == Skip(p + 1)
    IN  /\ At("skip")
        /\ IF Peek(p) \in {"string", "bool", "null", "number"} THEN Return(Unread, p + 1)
           ELSE IF Peek(p) \notin {"{", "["} THEN Fail("invalid_number", p)
           ELSE IF Top.depth >= limits.depth THEN Fail("maximum_depth", p)
           ELSE IF Peek(q) = (IF Peek(p) = "{" THEN "}" ELSE "]") THEN Return(Unread, q + 1)
           ELSE Continue([Top EXCEPT !.at = IF Peek(p) = "{" THEN "skipMember"
                                                             ELSE "skipElement"], q)

SkipMember ==
    LET colon == Skip(pos + 1) IN
    /\ At("skipMember")
    /\ IF Top.count >= limits.members THEN Fail("object_too_large", pos)
       ELSE IF Peek(pos) # "string" THEN Fail("expected_string", pos)
       ELSE IF Peek(colon) # ":" THEN Fail("expected_colon", colon)
       ELSE Call([Top EXCEPT !.at = "skipMembers", !.count = @ + 1],
                 Fresh("skip", Top.type, Top.depth + 1), colon + 1)

\* Mutant: skip_value passes its own depth on.
SkipElement_SameDepth ==
    /\ At("skipElement")
    /\ IF Top.count >= limits.array THEN Fail("array_too_large", pos)
       ELSE Call([Top EXCEPT !.at = "skipElements", !.count = @ + 1],
                 Fresh("skip", Top.type, Top.depth), pos)

SkipElement ==
    /\ At("skipElement")
    /\ IF Top.count >= limits.array THEN Fail("array_too_large", pos)
       ELSE Call([Top EXCEPT !.at = "skipElements", !.count = @ + 1],
                 Fresh("skip", Top.type, Top.depth + 1), pos)

AfterSkipped ==
    LET p == Skip(pos)
        inObject == Top.at = "skipMembers"
    IN  /\ At("skipMembers") \/ At("skipElements")
        /\ IF Peek(p) = (IF inObject THEN "}" ELSE "]") THEN Return(Unread, p + 1)
           ELSE IF Peek(p) = ","
                THEN Continue([Top EXCEPT !.at = IF inObject THEN "skipMember"
                                                 ELSE "skipElement"], Skip(p + 1))
           ELSE Fail("expected_comma", p)

-----------------------------------------------------------------------------

ReaderInit ==
    /\ text \in Inputs
    /\ limits \in Limits
    /\ type \in Types
    /\ pos = 1
    /\ result = Unread
    /\ IF Len(text) > limits.input
       THEN stack = <<>> /\ made = <<>> /\ outcome = "input_too_large"
       ELSE stack = <<Fresh("value", type, 0)>> /\ made = <<<<>>>> /\ outcome = "none"

ReaderNext ==
    \/ ReadNull \/ ReadOptional \/ ReadScalar
    \/ BeginObject \/ ReadMember \/ AfterMember
    \/ BeginList \/ ReadElement \/ AfterElement
    \/ SkipValue \/ SkipMember \/ SkipElement \/ AfterSkipped

ReaderSpec == ReaderInit /\ [][ReaderNext]_readerVars /\ WF_readerVars(ReaderNext)

-----------------------------------------------------------------------------
(* Properties.                                                             *)

\* No text makes the reader call itself deeper than maximum_depth allows, in the
\* parts it reads and in the unknown ones it skips: the recursion is what the
\* limit is there for.  (One more call than open containers.)
DepthIsBounded == Len(stack) <= limits.depth + 1

\* No container, read or skipped, ever holds more than its limit.
CountsAreBounded ==
    \A k \in DOMAIN stack :
        stack[k].count <= IF stack[k].at \in {"element", "elements", "skipElement", "skipElements"}
                          THEN limits.array ELSE limits.members

\* Every text is read to an end.
ReaderEnds == <>(outcome # "none")

=============================================================================
