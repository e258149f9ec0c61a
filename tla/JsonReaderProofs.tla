--------------------------- MODULE JsonReaderProofs ---------------------------
(***************************************************************************)
(* For every set of types, every text and all limits: the reader's calls   *)
(* keep their types, never nest deeper than maximum_depth allows and never *)
(* count more elements or members than their limit.  For every input, the  *)
(* reading of one token stays inside it and only borrows from it, its      *)
(* value is what the token means, and what the writer wrote is read back.  *)
(***************************************************************************)
EXTENDS JsonReader, JsonMeaning, Positions, SequenceTheorems, TLAPS

\* What holds of a single call, at whatever place it is.
FrameOK(f, l) ==
    /\ f.at \notin {"value", "skip"} => f.depth < l.depth
    /\ f.at \in {"value", "skip"} => f.count = 0
    /\ f.at \in {"member", "members", "unknown"} => f.type.kind = "object"
    /\ f.at \in {"element", "elements"} => f.type.kind \in {"vector", "array"}
    /\ f.at \in {"element", "elements"} /\ f.type.kind = "array" =>
          /\ f.type.size <= l.array
          /\ f.count <= f.type.size
          /\ f.at = "element" => f.count < f.type.size
    /\ f.at \in {"element", "elements", "skipElement", "skipElements"} => f.count <= l.array
    /\ f.at \notin {"element", "elements", "skipElement", "skipElements"} => f.count <= l.members

\* The places at which a call waits for one of its own.
Waiting == {"members", "unknown", "elements", "skipMembers", "skipElements"}

\* The inductive invariant: each call is one deeper than its caller, and every
\* caller has opened a container, which it may do only below the limit.
StackInv ==
    /\ stack \in Seq(Frame)
    /\ \A k \in DOMAIN stack : /\ FrameOK(stack[k], limits)
                               /\ stack[k].depth = k - 1
                               /\ k < Len(stack) => stack[k].at \in Waiting

CursorInv ==
    /\ text \in Seq(Token) /\ limits \in Limits /\ type \in Types
    /\ pos \in 1..(Len(text) + 1)

ReaderInv ==
    /\ CursorInv
    /\ StackInv
    /\ made = [k \in 1..Len(stack) |-> made[k]]
    /\ (outcome = "none") <=> (stack # <<>>)

\* The limits are natural numbers.
LEMMA LimitsType ==
    ASSUME NEW l \in Limits
    PROVE  /\ l.input \in Nat /\ l.depth \in Nat /\ l.array \in Nat /\ l.members \in Nat
           /\ l.rejectUnknown \in BOOLEAN
BY ReaderAssumption

\* The past-the-end position shows no token, and only text shows one.
LEMMA PeekInside ==
    ASSUME CursorInv, NEW p \in Nat
    PROVE  /\ Peek(p) # "end" => p \in 1..Len(text)
           /\ Peek(Len(text) + 1) = "end"
<1>1. DOMAIN text = 1..Len(text) /\ Len(text) \in Nat
  BY DEF CursorInv
<1>2. QED
  BY <1>1 DEF Peek

\* skip_whitespace stops inside the text or just past it, never before its start.
LEMMA SkipType ==
    ASSUME CursorInv, NEW p \in 1..(Len(text) + 1)
    PROVE  Skip(p) \in p..(Len(text) + 1)
<1> DEFINE Z == {r \in Nat : Peek(r) # " "}
<1>1. Len(text) + 1 \in Nat /\ p \in Nat /\ p..(Len(text) + 1) \subseteq Nat
  BY DEF CursorInv
<1>2. Peek(Len(text) + 1) = "end"
  BY <1>1, PeekInside
<1>3. Len(text) + 1 \in Z /\ Z \in SUBSET Nat
  BY <1>1, <1>2
<1>4. PICK q \in p..(Len(text) + 1) : q \in Z /\ \A r \in p..(q - 1) : r \notin Z
  <2> HIDE DEF Z
  <2>1. QED
    BY <1>1, <1>3, FirstFrom
<1>5. \A r \in p..(q - 1) : r \in Nat
  BY <1>1
<1>6. Peek(q) # " " /\ \A r \in p..(q - 1) : Peek(r) = " "
  BY <1>4, <1>5
<1>7. QED
  BY <1>6 DEF Skip

-----------------------------------------------------------------------------
(* What the calls, the returns and the errors do to the invariant.         *)

\* The calls below the innermost one, and a call put on top of them.
LEMMA Replaced ==
    ASSUME stack \in Seq(Frame), stack # <<>>, NEW f \in Frame
    PROVE  /\ Len(stack) \in Nat \ {0}
           /\ Below \in Seq(Frame) /\ Len(Below) = Len(stack) - 1
           /\ \A k \in 1..Len(Below) : Below[k] = stack[k]
           /\ Append(Below, f) \in Seq(Frame) /\ Len(Append(Below, f)) = Len(stack)
           /\ \A k \in 1..Len(stack) :
                 Append(Below, f)[k] = IF k < Len(stack) THEN stack[k] ELSE f
<1>1. Len(stack) \in Nat \ {0}
  BY EmptySeq
<1>2. Below \in Seq(Frame) /\ Len(Below) = Len(stack) - 1
      /\ \A k \in 1..Len(Below) : Below[k] = stack[k]
  <2>1. \A i \in 1..(Len(stack) - 1) : stack[i] \in Frame
    BY <1>1, ElementOfSeq
  <2> DEFINE n == Len(stack) - 1
  <2>2. n \in Nat /\ (\A i \in 1..n : stack[i] \in Frame) /\ 1 \in Int /\ n \in Int
    BY <1>1, <2>1
  <2>3. Below = SubSeq(stack, 1, n)
    BY DEF Below
  <2> HIDE DEF n
  <2>4. /\ SubSeq(stack, 1, n) \in Seq(Frame)
        /\ Len(SubSeq(stack, 1, n)) = IF 1 <= n THEN n - 1 + 1 ELSE 0
        /\ \A i \in 1..(n - 1 + 1) : SubSeq(stack, 1, n)[i] = stack[1 + i - 1]
    BY <2>2, SubSeqProperties
  <2>5. Below \in Seq(Frame) /\ Len(Below) = n
    BY <2>2, <2>3, <2>4
  <2>6. \A k \in 1..n : k \in 1..(n - 1 + 1) /\ 1 + k - 1 = k
    BY <2>2
  <2>7. \A k \in 1..n : Below[k] = stack[k]
    BY <2>3, <2>4, <2>6
  <2>8. QED
    BY <2>5, <2>7 DEF n
<1>3. Append(Below, f) \in Seq(Frame) /\ Len(Append(Below, f)) = Len(Below) + 1
      /\ (\A i \in 1..Len(Below) : Append(Below, f)[i] = Below[i])
      /\ Append(Below, f)[Len(Below) + 1] = f
  BY <1>2, AppendProperties
<1>4. ASSUME NEW k \in 1..Len(stack)
      PROVE  Append(Below, f)[k] = IF k < Len(stack) THEN stack[k] ELSE f
  <2>1. CASE k = Len(stack)
    BY <1>1, <1>2, <1>3, <2>1
  <2>2. CASE k \in 1..Len(Below) /\ k < Len(stack)
    BY <1>2, <1>3, <2>2
  <2>3. QED
    BY <1>1, <1>2, <2>1, <2>2
<1>5. QED
  BY <1>1, <1>2, <1>3, <1>4

\* The innermost call is well formed.
LEMMA TopType ==
    ASSUME StackInv, stack # <<>>
    PROVE  /\ Top \in Frame /\ FrameOK(Top, limits) /\ Top.depth = Len(stack) - 1
           /\ Top.type \in Types /\ Top.count \in Nat
<1>1. Len(stack) \in DOMAIN stack
  BY EmptySeq DEF StackInv
<1>2. Top \in Frame
  BY <1>1 DEF StackInv, Top
<1>3. QED
  BY <1>1, <1>2 DEF StackInv, Top, Frame

\* A call that goes on at another place, at its own depth, keeps the invariant.
LEMMA ContinueInv ==
    ASSUME ReaderInv, stack # <<>>,
           NEW f \in Frame, FrameOK(f, limits), f.depth = Len(stack) - 1,
           NEW p \in 1..(Len(text) + 1), Continue(f, p)
    PROVE  ReaderInv'
<1>1. stack' = Append(Below, f) /\ pos' = p /\ UNCHANGED <<text, limits, type, made, outcome>>
  BY DEF Continue, fixedVars
<1>2. Len(stack) \in Nat \ {0} /\ stack' \in Seq(Frame) /\ Len(stack') = Len(stack)
      /\ \A k \in 1..Len(stack) : stack'[k] = IF k < Len(stack) THEN stack[k] ELSE f
  BY <1>1, Replaced DEF ReaderInv, StackInv
<1>3. DOMAIN stack' = 1..Len(stack) /\ DOMAIN stack = 1..Len(stack)
  BY <1>2 DEF ReaderInv, StackInv
<1>4. \A k \in DOMAIN stack' : /\ FrameOK(stack'[k], limits)
                               /\ stack'[k].depth = k - 1
                               /\ k < Len(stack') => stack'[k].at \in Waiting
  BY <1>2, <1>3 DEF ReaderInv, StackInv
<1>5. StackInv'
  BY <1>1, <1>2, <1>4 DEF StackInv
<1>6. stack' # <<>>
  BY <1>2, EmptySeq
<1>7. CursorInv'
  BY <1>1 DEF ReaderInv, CursorInv
<1>8. QED
  BY <1>1, <1>2, <1>5, <1>6, <1>7 DEF ReaderInv

\* A call that waits for a new one, one deeper, keeps the invariant.
LEMMA CallInv ==
    ASSUME ReaderInv, stack # <<>>,
           NEW f \in Frame, FrameOK(f, limits), f.depth = Len(stack) - 1, f.at \in Waiting,
           NEW g \in Frame, FrameOK(g, limits), g.depth = Len(stack),
           NEW p \in 1..(Len(text) + 1), Call(f, g, p)
    PROVE  ReaderInv'
<1> DEFINE s == Append(Below, f)
<1>1. stack' = Append(s, g) /\ pos' = p /\ made' = Append(made, <<>>)
      /\ UNCHANGED <<text, limits, type, outcome>>
  BY DEF Call, fixedVars
<1>2. Len(stack) \in Nat \ {0} /\ s \in Seq(Frame) /\ Len(s) = Len(stack)
      /\ \A k \in 1..Len(stack) : s[k] = IF k < Len(stack) THEN stack[k] ELSE f
  BY Replaced DEF ReaderInv, StackInv
<1> HIDE DEF s
<1>3. stack' \in Seq(Frame) /\ Len(stack') = Len(stack) + 1
      /\ (\A k \in 1..Len(stack) : stack'[k] = s[k]) /\ stack'[Len(stack) + 1] = g
  BY ONLY <1>1, <1>2, AppendProperties, SMTT(30)
<1>4. DOMAIN stack' = 1..(Len(stack) + 1) /\ DOMAIN stack = 1..Len(stack)
  BY <1>3 DEF ReaderInv, StackInv
<1>5. \A k \in DOMAIN stack' : /\ FrameOK(stack'[k], limits)
                               /\ stack'[k].depth = k - 1
                               /\ k < Len(stack') => stack'[k].at \in Waiting
  <2>1. SUFFICES ASSUME NEW k \in 1..(Len(stack) + 1)
                 PROVE  /\ FrameOK(stack'[k], limits)
                        /\ stack'[k].depth = k - 1
                        /\ k < Len(stack) + 1 => stack'[k].at \in Waiting
    BY <1>3, <1>4
  <2>2. CASE k = Len(stack) + 1
    BY <1>2, <1>3, <2>2
  <2>3. CASE k = Len(stack)
    BY <1>2, <1>3, <2>3
  <2>4. CASE k \in 1..(Len(stack) - 1)
    <3>0. k \in 1..Len(stack) /\ k < Len(stack)
      BY ONLY <1>2, <2>4
    <3>1. stack'[k] = stack[k] /\ k \in DOMAIN stack
      BY <1>2, <1>3, <1>4, <3>0
    <3>2. QED
      BY <1>2, <3>0, <3>1 DEF ReaderInv, StackInv
  <2>5. QED
    BY <1>2, <2>2, <2>3, <2>4
<1>6. StackInv'
  BY <1>1, <1>3, <1>5 DEF StackInv
<1>7. stack' # <<>> /\ outcome' = "none"
  BY <1>1, <1>2, <1>3, EmptySeq DEF ReaderInv
<1>8. CursorInv'
  BY <1>1 DEF ReaderInv, CursorInv
<1>9. made' = [k \in 1..Len(stack') |-> made'[k]]
  <2>1. Len(made') = Len(stack) + 1 /\ made' = [k \in 1..(Len(stack) + 1) |-> made'[k]]
    BY <1>1, <1>2, AppendAny DEF ReaderInv
  <2>2. QED
    BY <1>3, <2>1
<1>10. QED
  BY <1>6, <1>7, <1>8, <1>9 DEF ReaderInv

\* An error, with whatever code, ends the reading with no call left.
LEMMA FailInv ==
    ASSUME ReaderInv, NEW code, code # "none", NEW p \in 1..(Len(text) + 1), Fail(code, p)
    PROVE  ReaderInv'
<1>1. stack' = <<>> /\ made' = <<>> /\ pos' = p /\ outcome' = code
      /\ UNCHANGED <<text, limits, type>>
  BY DEF Fail, fixedVars
<1>2. CursorInv'
  BY <1>1 DEF ReaderInv, CursorInv
<1>3. StackInv'
  BY <1>1 DEF StackInv
<1>4. made' = [k \in 1..Len(stack') |-> made'[k]]
  BY <1>1
<1>5. QED
  BY <1>1, <1>2, <1>3, <1>4 DEF ReaderInv

\* A return leaves the callers as they were, or ends the reading.
LEMMA ReturnInv ==
    ASSUME ReaderInv, stack # <<>>, NEW value, NEW p \in 1..(Len(text) + 1), Return(value, p)
    PROVE  ReaderInv'
<1>1. Len(stack) \in Nat \ {0}
  BY EmptySeq DEF ReaderInv, StackInv
<1>2. CASE Accept(value, p)
  <2>1. stack' = <<>> /\ made' = <<>> /\ pos' = Skip(p) /\ outcome' # "none"
        /\ UNCHANGED <<text, limits, type>>
    BY <1>2 DEF Accept, fixedVars
  <2>2. Skip(p) \in 1..(Len(text) + 1)
    BY SkipType DEF ReaderInv, CursorInv
  <2>3. CursorInv'
    BY <2>1, <2>2 DEF ReaderInv, CursorInv
  <2>4. StackInv'
    BY <2>1 DEF StackInv
  <2>5. made' = [k \in 1..Len(stack') |-> made'[k]]
    BY <2>1
  <2>6. QED
    BY <2>1, <2>3, <2>4, <2>5 DEF ReaderInv
<1>3. CASE Len(stack) # 1 /\ GiveBack(value, p)
  <2>1. stack' = Below /\ pos' = p /\ UNCHANGED <<text, limits, type, outcome>>
    BY <1>3 DEF GiveBack, fixedVars
  <2>2. stack' \in Seq(Frame) /\ Len(stack') = Len(stack) - 1
        /\ \A k \in 1..(Len(stack) - 1) : stack'[k] = stack[k]
    <3>1. Top \in Frame
      BY TopType DEF ReaderInv
    <3>2. QED
      BY <2>1, <3>1, Replaced DEF ReaderInv, StackInv
  <2>3. DOMAIN stack' = 1..(Len(stack) - 1) /\ DOMAIN stack = 1..Len(stack)
    BY <2>2, LenProperties DEF ReaderInv, StackInv
  <2>4. \A k \in DOMAIN stack' : k \in DOMAIN stack /\ stack'[k] = stack[k] /\ k < Len(stack)
    BY <1>1, <2>2, <2>3
  <2>5. StackInv'
    BY <1>1, <2>1, <2>2, <2>4 DEF ReaderInv, StackInv
  <2>6. stack' # <<>>
    BY <1>1, <1>3, <2>2, EmptySeq
  <2>7. made' = [k \in 1..Len(stack') |-> made'[k]]
    <3> DEFINE m(k) == IF k = Len(stack) - 1 /\ Caller.at \in {"members", "elements"}
                       THEN Append(made[k], value) ELSE made[k]
    <3>1. made' = [k \in 1..(Len(stack) - 1) |-> m(k)]
      BY <1>3 DEF GiveBack
    <3> HIDE DEF m
    <3>2. QED
      BY <2>2, <3>1
  <2>8. CursorInv'
    BY <2>1 DEF ReaderInv, CursorInv
  <2>9. QED
    BY <2>1, <2>5, <2>6, <2>7, <2>8 DEF ReaderInv
<1>4. CASE Fail("constraint_failed", p)
  BY <1>4, FailInv
<1>5. QED
  BY <1>2, <1>3, <1>4 DEF Return

-----------------------------------------------------------------------------
(* The steps.                                                              *)

\* The positions a step may go to, from one where it saw a token.
LEMMA NextPosition ==
    ASSUME CursorInv, NEW p \in 1..(Len(text) + 1)
    PROVE  /\ Skip(p) \in 1..(Len(text) + 1)
           /\ Peek(p) # "end" => p + 1 \in 1..(Len(text) + 1)
           /\ Peek(p) # "end" => Skip(p + 1) \in 1..(Len(text) + 1)
<1>1. Len(text) \in Nat /\ p \in Nat /\ p >= 1
  BY DEF CursorInv
<1>2. Skip(p) \in 1..(Len(text) + 1)
  BY <1>1, SkipType
<1>3. ASSUME Peek(p) # "end" PROVE p + 1 \in 1..(Len(text) + 1)
  BY <1>1, <1>3, PeekInside
<1>4. ASSUME Peek(p) # "end" PROVE Skip(p + 1) \in 1..(Len(text) + 1)
  <2>1. p + 1 \in 1..(Len(text) + 1) /\ p + 1 >= 1
    BY <1>1, <1>3, <1>4
  <2>2. Skip(p + 1) \in (p + 1)..(Len(text) + 1)
    BY <2>1, SkipType
  <2>3. QED
    BY <1>1, <2>2
<1>5. QED
  BY <1>2, <1>3, <1>4

\* A new call is well formed: it has counted nothing.
LEMMA FreshType ==
    ASSUME NEW l \in Limits, NEW t \in Types, NEW d \in Nat, NEW at \in {"value", "skip"}
    PROVE  /\ Fresh(at, t, d) \in Frame /\ FrameOK(Fresh(at, t, d), l)
           /\ Fresh(at, t, d).depth = d
<1>1. Fresh(at, t, d) \in Frame
  BY EmptySeq DEF Fresh, Frame, Place
<1>2. QED
  BY <1>1, LimitsType DEF Fresh, FrameOK

\* null, scalars and optionals open no container.
LEMMA ScalarStep ==
    ASSUME ReaderInv, ReadNull \/ ReadOptional \/ ReadScalar
    PROVE  ReaderInv'
<1> DEFINE p == Skip(pos)
<1>1. stack # <<>>
  BY DEF ReadNull, ReadOptional, ReadScalar, At
<1>2. Top \in Frame /\ FrameOK(Top, limits) /\ Top.depth = Len(stack) - 1 /\ Top.type \in Types
  BY <1>1, TopType DEF ReaderInv
<1>3. p \in 1..(Len(text) + 1) /\ (Peek(p) # "end" => p + 1 \in 1..(Len(text) + 1))
  BY NextPosition DEF ReaderInv, CursorInv
<1> HIDE DEF p
<1>4. CASE ReadNull
  <2>1. Peek(p) = "null" /\ (Return(Null, p + 1) \/ Fail("null_not_allowed", p))
    BY <1>4 DEF ReadNull, p
  <2>2. QED
    BY <1>1, <1>3, <2>1, FailInv, ReturnInv
<1>5. CASE ReadOptional
  <2> DEFINE f == [Top EXCEPT !.type = Top.type.of]
  <2>1. Continue(f, p) /\ Top.type.kind = "optional" /\ Top.at = "value"
    BY <1>5 DEF ReadOptional, At, p
  <2>2. Top.type.of \in Types
    BY <1>2, <2>1, ReaderAssumption
  <2>3. f \in Frame /\ f.depth = Top.depth /\ f.at = "value" /\ f.count = Top.count
    BY <1>2, <2>1, <2>2 DEF Frame
  <2>4. FrameOK(f, limits)
    BY <1>2, <2>1, <2>3 DEF FrameOK
  <2> HIDE DEF f
  <2>5. QED
    BY <1>1, <1>2, <1>3, <2>1, <2>3, <2>4, ContinueInv
<1>6. CASE ReadScalar
  <2>1. Peek(p) = Top.type.is => Peek(p) # "end"
    <3>1. Top.type.kind = "scalar"
      BY <1>6 DEF ReadScalar
    <3>2. QED
      BY <1>2, <3>1, ReaderAssumption DEF Lexeme
  <2>2. CASE Fail("unexpected", p) \/ Fail("out_of_range", p)
    BY <1>3, <2>2, FailInv
  <2>3. CASE Peek(p) = Top.type.is /\ Return(Value(text[p].is, text[p].val, <<>>), p + 1)
    BY <1>1, <1>3, <2>1, <2>3, ReturnInv
  <2>4. QED
    BY <1>6, <2>2, <2>3 DEF ReadScalar, p
<1>7. QED
  BY <1>4, <1>5, <1>6

\* finish_missing_fields fails or returns.
LEMMA FinishObjectInv ==
    ASSUME ReaderInv, stack # <<>>, NEW f, NEW values, NEW p \in 1..(Len(text) + 1),
           FinishObject(f, values, p)
    PROVE  ReaderInv'
<1>1. CASE Fail("missing_field", p)
  BY <1>1, FailInv
<1>2. ASSUME NEW v, Return(v, p) PROVE ReaderInv'
  BY <1>2, ReturnInv
<1>3. QED
  BY <1>1, <1>2 DEF FinishObject

\* An object or a list is opened only below the depth limit.
LEMMA BeginStep ==
    ASSUME ReaderInv, BeginObject \/ BeginList
    PROVE  ReaderInv'
<1> DEFINE p == Skip(pos)
           q == Skip(p + 1)
<1>1. stack # <<>> /\ Top.at = "value"
  BY DEF BeginObject, BeginList, At
<1>2. Top \in Frame /\ FrameOK(Top, limits) /\ Top.depth = Len(stack) - 1 /\ Top.type \in Types
      /\ Top.depth \in Nat
  BY <1>1, TopType DEF ReaderInv, Frame
<1>3. p \in 1..(Len(text) + 1)
      /\ (Peek(p) # "end" => p + 1 \in 1..(Len(text) + 1) /\ q \in 1..(Len(text) + 1))
  BY NextPosition DEF ReaderInv, CursorInv
<1>4. Peek(q) # "end" /\ q \in 1..(Len(text) + 1) => q + 1 \in 1..(Len(text) + 1)
  BY NextPosition DEF ReaderInv
<1>5. limits \in Limits /\ limits.depth \in Nat /\ limits.array \in Nat /\ limits.members \in Nat
  BY LimitsType DEF ReaderInv, CursorInv
<1> HIDE DEF p, q
<1>6. CASE BeginObject
  <2> DEFINE f == [Top EXCEPT !.at = "member"]
  <2>1. \/ Fail("maximum_depth", p) \/ Fail("expected_object", p)
        \/ Peek(p) = "{" /\ Peek(q) = "}" /\ FinishObject(Top, <<>>, q + 1)
        \/ Peek(p) = "{" /\ ~(Top.depth >= limits.depth) /\ Top.type.kind = "object"
           /\ Continue(f, q)
    BY <1>6 DEF BeginObject, p, q
  <2>2. CASE Fail("maximum_depth", p) \/ Fail("expected_object", p)
    BY <1>3, <2>2, FailInv
  <2>3. CASE Peek(p) = "{" /\ Peek(q) = "}" /\ FinishObject(Top, <<>>, q + 1)
    BY <1>1, <1>3, <1>4, <2>3, FinishObjectInv
  <2>4. CASE Peek(p) = "{" /\ ~(Top.depth >= limits.depth) /\ Top.type.kind = "object"
             /\ Continue(f, q)
    <3>1. f \in Frame /\ f.depth = Top.depth /\ f.at = "member" /\ f.count = Top.count
          /\ f.type = Top.type
      BY <1>2 DEF Frame, Place
    <3> HIDE DEF f
    <3>2. ~(Top.depth >= limits.depth) /\ Top.type.kind = "object"
      BY <2>4
    <3>3. FrameOK(f, limits)
      BY <1>1, <1>2, <1>5, <3>1, <3>2 DEF FrameOK
    <3>4. QED
      BY <1>1, <1>2, <1>3, <2>4, <3>1, <3>3, ContinueInv
  <2>5. QED
    BY <2>1, <2>2, <2>3, <2>4
<1>7. CASE BeginList
  <2> DEFINE f == [Top EXCEPT !.at = "element"]
  <2>1. \/ Fail("maximum_depth", p) \/ Fail("expected_array", p)
        \/ Peek(p) = "[" /\ (Fail("array_too_large", p + 1) \/ Fail("array_size", q))
        \/ Peek(p) = "[" /\ Peek(q) = "]" /\ Return(List(<<>>), q + 1)
        \/ /\ Peek(p) = "[" /\ ~(Top.depth >= limits.depth) /\ Peek(q) # "]"
           /\ Top.type.kind \in {"vector", "array"}
           /\ ~(Top.type.kind = "array" /\ Top.type.size > limits.array)
           /\ ~(Top.type.kind = "array" /\ (Top.type.size = 0) # (Peek(q) = "]"))
           /\ Continue(f, q)
    BY <1>7 DEF BeginList, p, q
  <2>2. CASE Fail("maximum_depth", p) \/ Fail("expected_array", p)
    BY <1>3, <2>2, FailInv
  <2>3. CASE Peek(p) = "[" /\ (Fail("array_too_large", p + 1) \/ Fail("array_size", q))
    BY <1>3, <2>3, FailInv
  <2>4. CASE Peek(p) = "[" /\ Peek(q) = "]" /\ Return(List(<<>>), q + 1)
    BY <1>1, <1>3, <1>4, <2>4, ReturnInv
  <2>5. CASE /\ Peek(p) = "[" /\ ~(Top.depth >= limits.depth) /\ Peek(q) # "]"
             /\ Top.type.kind \in {"vector", "array"}
             /\ ~(Top.type.kind = "array" /\ Top.type.size > limits.array)
             /\ ~(Top.type.kind = "array" /\ (Top.type.size = 0) # (Peek(q) = "]"))
             /\ Continue(f, q)
    <3>1. f \in Frame /\ f.depth = Top.depth /\ f.at = "element" /\ f.count = Top.count
          /\ f.type = Top.type
      BY <1>2 DEF Frame, Place
    <3>2. Top.type.kind = "array" => Top.type.size \in Nat
      BY <1>2, ReaderAssumption
    <3>3. Top.type.kind = "array" => Top.type.size # 0
      BY <2>5
    <3>4. FrameOK(f, limits)
      BY <1>1, <1>2, <1>5, <2>5, <3>1, <3>2, <3>3, SMTT(30) DEF FrameOK
    <3> HIDE DEF f
    <3>5. QED
      BY <1>1, <1>2, <1>3, <2>5, <3>1, <3>4, ContinueInv
  <2>6. QED
    BY <2>1, <2>2, <2>3, <2>4, <2>5
<1>8. QED
  BY <1>6, <1>7

\* Counting one more leaves the rest of a call alone.
LEMMA CountedFrame ==
    ASSUME NEW f \in Frame, f.count \in Nat
    PROVE  LET e == [f EXCEPT !.count = @ + 1]
           IN  /\ e \in Frame /\ e.depth = f.depth /\ e.at = f.at /\ e.count = f.count + 1
               /\ e.type = f.type /\ e.seen = f.seen
BY SMTT(30) DEF Frame

\* One turn of read_object's loop: a member is counted below its limit, and its
\* value is read or skipped one deeper.
LEMMA ReadMemberStep ==
    ASSUME ReaderInv, ReadMember
    PROVE  ReaderInv'
<1> DEFINE colon == Skip(pos + 1)
           value == Skip(colon + 1)
           d     == Top.depth + 1
<1>1. stack # <<>> /\ Top.at = "member"
  BY DEF ReadMember, At
<1>2. Top \in Frame /\ FrameOK(Top, limits) /\ Top.depth = Len(stack) - 1 /\ Top.type \in Types
      /\ Top.depth \in Nat /\ Top.count \in Nat /\ Top.seen \in Seq(Nat)
  BY <1>1, TopType DEF ReaderInv, Frame
<1>3. Len(stack) = d /\ d \in Nat
  <2>1. Len(stack) \in Nat
    BY DEF ReaderInv, StackInv
  <2>2. QED
    BY <1>2, <2>1
<1>4. limits \in Limits /\ limits.depth \in Nat /\ limits.array \in Nat /\ limits.members \in Nat
  BY LimitsType DEF ReaderInv, CursorInv
<1>5. Top.type.kind = "object" /\ Top.depth < limits.depth
  BY <1>1, <1>2 DEF FrameOK
<1>6. pos \in 1..(Len(text) + 1) /\ (Peek(pos) # "end" => colon \in 1..(Len(text) + 1))
  BY NextPosition DEF ReaderInv, CursorInv
<1>7. Peek(colon) # "end" /\ colon \in 1..(Len(text) + 1) => value \in 1..(Len(text) + 1)
  <2> HIDE DEF colon
  <2>1. CursorInv
    BY ZenonT(40) DEF ReaderInv
  <2>2. QED
    BY <2>1, NextPosition
<1> DEFINE u == [[Top EXCEPT !.count = @ + 1] EXCEPT !.at = "unknown"]
           m(i) == [[Top EXCEPT !.count = @ + 1] EXCEPT !.at = "members", !.seen = Append(@, i)]
           Going == Peek(pos) = "string" /\ Peek(colon) = ":" /\ ~(Top.count >= limits.members)
<1>8. \/ Fail("object_too_large", pos) \/ Fail("expected_string", pos)
      \/ Peek(pos) = "string" /\ Fail("expected_colon", colon)
      \/ Going /\ Fail("unknown_field", value)
      \/ Going /\ Call(u, Fresh("skip", Top.type, d), value)
      \/ Going /\ \E i \in DOMAIN Top.type.fields :
            \/ Fail("duplicate_field", value)
            \/ Call(m(i), Fresh("value", Top.type.fields[i].type, d), value)
  BY DEF ReadMember
<1>9. Going => value \in 1..(Len(text) + 1) /\ Top.count + 1 <= limits.members
  BY <1>2, <1>4, <1>6, <1>7, SMTT(30)
<1>10. u \in Frame /\ u.depth = Top.depth /\ u.at = "unknown" /\ u.count = Top.count + 1
       /\ u.type = Top.type
  <2> DEFINE f == [Top EXCEPT !.count = @ + 1]
  <2>1. f \in Frame /\ f.depth = Top.depth /\ f.count = Top.count + 1 /\ f.type = Top.type
    BY <1>2, CountedFrame
  <2> HIDE DEF f
  <2>2. LET e == [f EXCEPT !.at = "unknown"]
        IN  /\ e \in Frame /\ e.depth = f.depth /\ e.at = "unknown"
            /\ e.count = f.count /\ e.type = f.type
    BY <2>1 DEF Frame, Place
  <2>3. u = [f EXCEPT !.at = "unknown"]
    BY DEF f
  <2> HIDE DEF u
  <2>4. QED
    BY <2>1, <2>2, <2>3
<1>11. ASSUME NEW i \in DOMAIN Top.type.fields
       PROVE  /\ m(i) \in Frame /\ m(i).depth = Top.depth /\ m(i).at = "members"
              /\ m(i).count = Top.count + 1 /\ m(i).type = Top.type
              /\ Top.type.fields[i].type \in Types
  <2>1. i \in Nat /\ Top.type.fields[i].type \in Types
    BY <1>2, <1>5, ReaderAssumption
  <2>2. Append(Top.seen, i) \in Seq(Nat)
    BY <1>2, <2>1, AppendProperties
  <2> DEFINE f == [Top EXCEPT !.count = @ + 1]
             e == m(i)
  <2>3. f \in Frame /\ f.depth = Top.depth /\ f.count = Top.count + 1 /\ f.type = Top.type
        /\ f.seen = Top.seen
    BY <1>2, CountedFrame
  <2>4. e = [f EXCEPT !.at = "members", !.seen = Append(@, i)]
    OBVIOUS
  <2> HIDE DEF f, e
  <2>5. /\ e \in Frame /\ e.depth = f.depth /\ e.at = "members"
        /\ e.count = f.count /\ e.type = f.type
    BY <2>2, <2>3, <2>4 DEF Frame, Place
  <2>6. /\ e \in Frame /\ e.depth = Top.depth /\ e.at = "members"
        /\ e.count = Top.count + 1 /\ e.type = Top.type
    BY <2>3, <2>5
  <2>7. QED
    BY <2>1, <2>6 DEF e
<1> HIDE DEF colon, value, d, u, m, Going
<1>12. CASE Fail("object_too_large", pos) \/ Fail("expected_string", pos)
  BY <1>6, <1>12, FailInv
<1>13. CASE Peek(pos) = "string" /\ Fail("expected_colon", colon)
  BY <1>6, <1>13, FailInv
<1>14. CASE Going /\ Fail("unknown_field", value)
  BY <1>9, <1>14, FailInv
<1>15. CASE Going /\ Call(u, Fresh("skip", Top.type, d), value)
  <2>1. FrameOK(u, limits)
    BY <1>2, <1>4, <1>5, <1>9, <1>10, <1>15 DEF FrameOK
  <2>2. Fresh("skip", Top.type, d) \in Frame /\ FrameOK(Fresh("skip", Top.type, d), limits)
        /\ Fresh("skip", Top.type, d).depth = d
    BY <1>2, <1>3, <1>4, FreshType
  <2>3. u.at \in Waiting
    BY <1>10 DEF Waiting
  <2>4. QED
    BY <1>1, <1>2, <1>3, <1>9, <1>10, <1>15, <2>1, <2>2, <2>3, CallInv
<1>16. CASE Going /\ \E i \in DOMAIN Top.type.fields :
                \/ Fail("duplicate_field", value)
                \/ Call(m(i), Fresh("value", Top.type.fields[i].type, d), value)
  <2>1. PICK i \in DOMAIN Top.type.fields :
               \/ Fail("duplicate_field", value)
               \/ Call(m(i), Fresh("value", Top.type.fields[i].type, d), value)
    BY <1>16
  <2> DEFINE g == Fresh("value", Top.type.fields[i].type, d)
  <2>2. CASE Fail("duplicate_field", value)
    BY <1>9, <1>16, <2>2, FailInv
  <2>3. CASE Call(m(i), g, value)
    <3>1. FrameOK(m(i), limits)
      <4> DEFINE f == m(i)
      <4>1. f.depth = Top.depth /\ f.at = "members" /\ f.count = Top.count + 1 /\ f.type = Top.type
        BY <1>11
      <4> HIDE DEF f
      <4>2. FrameOK(f, limits)
        BY <1>2, <1>4, <1>5, <1>9, <1>16, <4>1 DEF FrameOK
      <4>3. QED
        BY <4>2 DEF f
    <3>2. g \in Frame /\ FrameOK(g, limits) /\ g.depth = d
      BY <1>3, <1>4, <1>11, FreshType
    <3>3. m(i) \in Frame /\ m(i).depth = Len(stack) - 1 /\ m(i).at \in Waiting
      BY <1>2, <1>11 DEF Waiting
    <3> HIDE DEF g
    <3>4. QED
      BY <1>1, <1>3, <1>9, <1>16, <2>3, <3>1, <3>2, <3>3, CallInv
  <2>4. QED
    BY <2>1, <2>2, <2>3
<1>17. QED
  BY <1>8, <1>12, <1>13, <1>14, <1>15, <1>16, SMTT(30)

\* A call that moves to another place changes nothing else of its frame.
LEMMA Moved ==
    ASSUME NEW f \in Frame, NEW at \in Place
    PROVE  LET g == [f EXCEPT !.at = at]
           IN  /\ g \in Frame /\ g.at = at
               /\ g.depth = f.depth /\ g.count = f.count /\ g.type = f.type
BY DEF Frame

\* A call that counts an element or a member and waits for its value.
LEMMA Counted ==
    ASSUME NEW f \in Frame, NEW at \in Place
    PROVE  LET g == [f EXCEPT !.at = at, !.count = @ + 1]
           IN  /\ g \in Frame /\ g.at = at
               /\ g.depth = f.depth /\ g.count = f.count + 1 /\ g.type = f.type
<1> DEFINE e == [f EXCEPT !.at = at]
<1>1. e \in Frame /\ e.at = at /\ e.depth = f.depth /\ e.count = f.count /\ e.type = f.type
  BY Moved
<1>2. [f EXCEPT !.at = at, !.count = @ + 1] = [e EXCEPT !.count = e.count + 1]
  BY DEF Frame
<1> DEFINE c == f.count + 1
<1>3. c \in Nat
  BY DEF Frame
<1> HIDE DEF e, c
<1>4. LET g == [e EXCEPT !.count = c]
      IN  /\ g \in Frame /\ g.at = e.at
          /\ g.depth = e.depth /\ g.count = c /\ g.type = e.type
  BY <1>1, <1>3 DEF Frame
<1>5. QED
  BY <1>1, <1>2, <1>4 DEF c

\* The end of a member or of an element: the next one, the container's end or an error.
LEMMA AfterStep ==
    ASSUME ReaderInv, AfterMember \/ AfterElement \/ AfterSkipped
    PROVE  ReaderInv'
<1> DEFINE p == Skip(pos)
           q == Skip(p + 1)
           f(at) == [Top EXCEPT !.at = at]
<1>1. stack # <<>> /\ Top.at \in Waiting
  BY DEF AfterMember, AfterElement, AfterSkipped, At, Waiting
<1>2. Top \in Frame /\ FrameOK(Top, limits) /\ Top.depth = Len(stack) - 1 /\ Top.type \in Types
      /\ Top.count \in Nat
  BY <1>1, TopType DEF ReaderInv, Frame
<1>3. p \in 1..(Len(text) + 1)
      /\ (Peek(p) # "end" => p + 1 \in 1..(Len(text) + 1) /\ q \in 1..(Len(text) + 1))
  BY NextPosition DEF ReaderInv, CursorInv
<1>4. \A at \in Place : f(at) \in Frame /\ f(at).at = at /\ f(at).depth = Top.depth
                        /\ f(at).count = Top.count /\ f(at).type = Top.type
  BY <1>2, Moved
<1> HIDE DEF p, q, f
<1>5. ASSUME NEW code, code # "none", Fail(code, p) PROVE ReaderInv'
  BY <1>3, <1>5, FailInv
<1>6. CASE AfterMember
  <2>1. Top.at \in {"members", "unknown"}
        /\ \/ Peek(p) = "}" /\ FinishObject(Top, made[Len(made)], p + 1)
           \/ Peek(p) = "," /\ Continue(f("member"), q)
           \/ Fail("expected_comma", p)
    BY <1>6 DEF AfterMember, At, p, q, f
  <2>2. CASE Peek(p) = "}" /\ FinishObject(Top, made[Len(made)], p + 1)
    BY <1>1, <1>3, <2>2, FinishObjectInv
  <2>3. CASE Peek(p) = "," /\ Continue(f("member"), q)
    <3>1. "member" \in Place
      BY DEF Place
    <3>2. FrameOK(f("member"), limits)
      BY <1>2, <1>4, <2>1, <3>1 DEF FrameOK
    <3>3. QED
      BY <1>1, <1>2, <1>3, <1>4, <2>3, <3>1, <3>2, ContinueInv
  <2>4. QED
    BY <1>5, <2>1, <2>2, <2>3
<1>7. CASE AfterElement
  <2>1. \/ Peek(p) = "]" /\ Return(List(made[Len(made)]), p + 1)
        \/ Peek(p) = "," /\ ~(Top.type.kind = "array" /\ Top.count = Top.type.size)
           /\ Continue(f("element"), q)
        \/ Fail("array_size", p) \/ Fail("expected_comma", p)
    BY <1>7 DEF AfterElement, p, q, f
  <2>2. CASE Peek(p) = "]" /\ Return(List(made[Len(made)]), p + 1)
    BY <1>1, <1>3, <2>2, ReturnInv
  <2>3. CASE Peek(p) = "," /\ ~(Top.type.kind = "array" /\ Top.count = Top.type.size)
             /\ Continue(f("element"), q)
    <3>1. "element" \in Place /\ Top.at = "elements"
      BY <1>7 DEF Place, AfterElement, At
    <3>2. Top.type.kind = "array" => Top.type.size \in Nat /\ Top.count # Top.type.size
      BY <1>2, <2>3, ReaderAssumption
    <3>3. FrameOK(f("element"), limits)
      BY <1>2, <1>4, <3>1, <3>2 DEF FrameOK
    <3>4. QED
      BY <1>1, <1>2, <1>3, <1>4, <2>3, <3>1, <3>3, ContinueInv
  <2>4. QED
    BY <1>5, <2>1, <2>2, <2>3
<1>8. CASE AfterSkipped
  <2>1. \/ (Peek(p) = "}" \/ Peek(p) = "]") /\ Return(Unread, p + 1)
        \/ Peek(p) = "," /\ Top.at = "skipMembers" /\ Continue(f("skipMember"), q)
        \/ Peek(p) = "," /\ Top.at = "skipElements" /\ Continue(f("skipElement"), q)
        \/ Fail("expected_comma", p)
    BY <1>8 DEF AfterSkipped, At, p, q, f
  <2>2. CASE (Peek(p) = "}" \/ Peek(p) = "]") /\ Return(Unread, p + 1)
    BY <1>1, <1>3, <2>2, ReturnInv
  <2>3. CASE Peek(p) = "," /\ Top.at = "skipMembers" /\ Continue(f("skipMember"), q)
    <3>1. "skipMember" \in Place
      BY DEF Place
    <3>2. FrameOK(f("skipMember"), limits)
      BY <1>2, <1>4, <2>3, <3>1 DEF FrameOK
    <3>3. QED
      BY <1>1, <1>2, <1>3, <1>4, <2>3, <3>1, <3>2, ContinueInv
  <2>4. CASE Peek(p) = "," /\ Top.at = "skipElements" /\ Continue(f("skipElement"), q)
    <3>1. "skipElement" \in Place
      BY DEF Place
    <3>2. FrameOK(f("skipElement"), limits)
      BY <1>2, <1>4, <2>4, <3>1 DEF FrameOK
    <3>3. QED
      BY <1>1, <1>2, <1>3, <1>4, <2>4, <3>1, <3>2, ContinueInv
  <2>5. QED
    BY <1>5, <2>1, <2>2, <2>3, <2>4
<1>9. QED
  BY <1>6, <1>7, <1>8

\* A value that is skipped: one lexeme, or a container below the depth limit.
LEMMA SkipValueStep ==
    ASSUME ReaderInv, SkipValue
    PROVE  ReaderInv'
<1> DEFINE p == Skip(pos)
           q == Skip(p + 1)
           f(at) == [Top EXCEPT !.at = at]
<1>1. stack # <<>> /\ Top.at = "skip"
  BY DEF SkipValue, At
<1>2. Top \in Frame /\ FrameOK(Top, limits) /\ Top.depth = Len(stack) - 1
      /\ Top.count \in Nat /\ Top.depth \in Nat
  BY <1>1, TopType DEF ReaderInv, Frame
<1>3. p \in 1..(Len(text) + 1)
      /\ (Peek(p) # "end" => p + 1 \in 1..(Len(text) + 1) /\ q \in 1..(Len(text) + 1))
  BY NextPosition DEF ReaderInv, CursorInv
<1>4. Peek(q) # "end" /\ q \in 1..(Len(text) + 1) => q + 1 \in 1..(Len(text) + 1)
  BY NextPosition DEF ReaderInv
<1>5. limits.depth \in Nat /\ limits.array \in Nat /\ limits.members \in Nat
  BY LimitsType DEF ReaderInv, CursorInv
<1>6. \A at \in Place : f(at) \in Frame /\ f(at).at = at /\ f(at).depth = Top.depth
                        /\ f(at).count = Top.count
  BY <1>2, Moved
<1>7. \/ Peek(p) \in {"string", "bool", "null", "number"} /\ Return(Unread, p + 1)
      \/ Fail("invalid_number", p) \/ Fail("maximum_depth", p)
      \/ Peek(p) \in {"{", "["} /\ Peek(q) \in {"}", "]"} /\ Return(Unread, q + 1)
      \/ Peek(p) \in {"{", "["} /\ ~(Top.depth >= limits.depth)
         /\ (Continue(f("skipMember"), q) \/ Continue(f("skipElement"), q))
  BY DEF SkipValue
<1> HIDE DEF p, q, f
<1>8. CASE Peek(p) \in {"string", "bool", "null", "number"} /\ Return(Unread, p + 1)
  BY <1>1, <1>3, <1>8, ReturnInv
<1>9. CASE Fail("invalid_number", p) \/ Fail("maximum_depth", p)
  BY <1>3, <1>9, FailInv
<1>10. CASE Peek(p) \in {"{", "["} /\ Peek(q) \in {"}", "]"} /\ Return(Unread, q + 1)
  BY <1>1, <1>3, <1>4, <1>10, ReturnInv
<1>11. CASE Peek(p) \in {"{", "["} /\ ~(Top.depth >= limits.depth)
            /\ (Continue(f("skipMember"), q) \/ Continue(f("skipElement"), q))
  <2>1. ASSUME NEW at \in {"skipMember", "skipElement"}, Continue(f(at), q) PROVE ReaderInv'
    <3>1. at \in Place
      BY DEF Place
    <3>2. Top.depth < limits.depth
      <4>1. ~(Top.depth >= limits.depth)
        BY <1>11
      <4>2. QED
        BY <1>2, <1>5, <4>1
    <3>3. FrameOK(f(at), limits)
      BY <1>1, <1>2, <1>5, <1>6, <3>1, <3>2 DEF FrameOK
    <3>4. QED
      BY <1>1, <1>2, <1>3, <1>6, <1>11, <2>1, <3>1, <3>3, ContinueInv
  <2>2. QED
    BY <1>11, <2>1
<1>12. QED
  BY <1>7, <1>8, <1>9, <1>10, <1>11

\* A member or an element is counted below its limit before its value is skipped,
\* one deeper.
LEMMA SkipInsideStep ==
    ASSUME ReaderInv, SkipMember \/ SkipElement
    PROVE  ReaderInv'
<1> DEFINE colon == Skip(pos + 1)
           d     == Top.depth + 1
           g     == Fresh("skip", Top.type, d)
           f(at) == [Top EXCEPT !.at = at, !.count = @ + 1]
<1>1. stack # <<>>
  BY DEF SkipMember, SkipElement, At
<1>2. Top \in Frame /\ FrameOK(Top, limits) /\ Top.depth = Len(stack) - 1 /\ Top.type \in Types
      /\ Top.count \in Nat /\ Top.depth \in Nat
  BY <1>1, TopType DEF ReaderInv, Frame
<1>3. Len(stack) = d /\ d \in Nat
  <2>1. Len(stack) \in Nat
    BY DEF ReaderInv, StackInv
  <2>2. QED
    BY <1>2, <2>1
<1>4. limits \in Limits /\ limits.depth \in Nat /\ limits.array \in Nat /\ limits.members \in Nat
  BY LimitsType DEF ReaderInv, CursorInv
<1>5. pos \in 1..(Len(text) + 1) /\ (Peek(pos) # "end" => colon \in 1..(Len(text) + 1))
  BY NextPosition DEF ReaderInv, CursorInv
<1>6. Peek(colon) # "end" /\ colon \in 1..(Len(text) + 1) => colon + 1 \in 1..(Len(text) + 1)
  BY NextPosition DEF ReaderInv
<1>7. \A at \in Place : f(at) \in Frame /\ f(at).at = at /\ f(at).depth = Top.depth
                        /\ f(at).count = Top.count + 1
  BY <1>2, Counted
<1>8. g \in Frame /\ FrameOK(g, limits) /\ g.depth = d
  BY <1>2, <1>3, <1>4, FreshType
<1> HIDE DEF g, f
<1>9. CASE SkipMember
  <2>1. Top.at = "skipMember"
        /\ \/ Fail("object_too_large", pos) \/ Fail("expected_string", pos)
           \/ Peek(pos) = "string" /\ Fail("expected_colon", colon)
           \/ /\ ~(Top.count >= limits.members) /\ Peek(pos) = "string" /\ Peek(colon) = ":"
              /\ Call(f("skipMembers"), g, colon + 1)
    BY <1>9 DEF SkipMember, At, f, g
  <2> HIDE DEF colon, d
  <2>2. CASE Fail("object_too_large", pos) \/ Fail("expected_string", pos)
    BY <1>5, <2>2, FailInv
  <2>3. CASE Peek(pos) = "string" /\ Fail("expected_colon", colon)
    BY <1>5, <2>3, FailInv
  <2>4. CASE /\ ~(Top.count >= limits.members) /\ Peek(pos) = "string" /\ Peek(colon) = ":"
             /\ Call(f("skipMembers"), g, colon + 1)
    <3>1. "skipMembers" \in Place /\ "skipMembers" \in Waiting
      BY DEF Place, Waiting
    <3>2. ~(Top.count >= limits.members)
      BY <2>4
    <3>3. FrameOK(f("skipMembers"), limits)
      BY <1>2, <1>4, <1>7, <2>1, <3>1, <3>2 DEF FrameOK
    <3>4. colon + 1 \in 1..(Len(text) + 1)
      BY <1>5, <1>6, <2>4
    <3>5. QED
      BY <1>1, <1>2, <1>3, <1>7, <1>8, <2>4, <3>1, <3>3, <3>4, CallInv
  <2>5. QED
    BY <2>1, <2>2, <2>3, <2>4
<1>10. CASE SkipElement
  <2>1. Top.at = "skipElement"
        /\ \/ Fail("array_too_large", pos)
           \/ ~(Top.count >= limits.array) /\ Call(f("skipElements"), g, pos)
    BY <1>10 DEF SkipElement, At, f, g
  <2> HIDE DEF colon, d
  <2>2. CASE Fail("array_too_large", pos)
    BY <1>5, <2>2, FailInv
  <2>3. CASE ~(Top.count >= limits.array) /\ Call(f("skipElements"), g, pos)
    <3>1. "skipElements" \in Place /\ "skipElements" \in Waiting
      BY DEF Place, Waiting
    <3>2. ~(Top.count >= limits.array)
      BY <2>3
    <3>3. FrameOK(f("skipElements"), limits)
      BY <1>2, <1>4, <1>7, <2>1, <3>1, <3>2 DEF FrameOK
    <3>4. QED
      BY <1>1, <1>2, <1>3, <1>5, <1>7, <1>8, <2>3, <3>1, <3>3, CallInv
  <2>4. QED
    BY <2>1, <2>2, <2>3
<1>11. QED
  BY <1>9, <1>10

\* An element of a vector is counted below the limit, one of a std::array below its
\* size, before it is read one deeper.
LEMMA ReadElementStep ==
    ASSUME ReaderInv, ReadElement
    PROVE  ReaderInv'
<1> DEFINE d == Top.depth + 1
           g == Fresh("value", Top.type.of, d)
           f == [Top EXCEPT !.at = "elements", !.count = @ + 1]
<1>1. stack # <<>> /\ Top.at = "element"
  BY DEF ReadElement, At
<1>2. Top \in Frame /\ FrameOK(Top, limits) /\ Top.depth = Len(stack) - 1 /\ Top.type \in Types
      /\ Top.count \in Nat /\ Top.depth \in Nat
  BY <1>1, TopType DEF ReaderInv, Frame
<1>3. Len(stack) = d /\ d \in Nat
  <2>1. Len(stack) \in Nat
    BY DEF ReaderInv, StackInv
  <2>2. QED
    BY <1>2, <2>1
<1>4. limits \in Limits /\ limits.depth \in Nat /\ limits.array \in Nat /\ limits.members \in Nat
  BY LimitsType DEF ReaderInv, CursorInv
<1>5. pos \in 1..(Len(text) + 1)
  BY DEF ReaderInv, CursorInv
<1>6. Top.type.kind \in {"vector", "array"} /\ Top.type.of \in Types
      /\ (Top.type.kind = "array" => Top.type.size \in Nat)
  <2>1. Top.type.kind \in {"vector", "array"}
    BY <1>1, <1>2 DEF FrameOK
  <2>2. QED
    BY <1>2, <2>1, ReaderAssumption
<1>7. "elements" \in Place /\ "elements" \in Waiting
  BY DEF Place, Waiting
<1>8. f \in Frame /\ f.at = "elements" /\ f.depth = Top.depth /\ f.count = Top.count + 1
      /\ f.type = Top.type
  BY <1>2, <1>7, Counted
<1>9. g \in Frame /\ FrameOK(g, limits) /\ g.depth = d
  BY <1>3, <1>4, <1>6, FreshType
<1>10. \/ Fail("array_too_large", pos)
       \/ ~(Top.type.kind = "vector" /\ Top.count >= limits.array) /\ Call(f, g, pos)
  BY DEF ReadElement
<1> HIDE DEF d, f, g
<1>11. CASE Fail("array_too_large", pos)
  BY <1>5, <1>11, FailInv
<1>12. CASE ~(Top.type.kind = "vector" /\ Top.count >= limits.array) /\ Call(f, g, pos)
  <2>1. ~(Top.type.kind = "vector" /\ Top.count >= limits.array)
    BY <1>12
  <2>2. FrameOK(f, limits)
    BY <1>1, <1>2, <1>4, <1>6, <1>8, <2>1 DEF FrameOK
  <2>3. QED
    BY <1>1, <1>2, <1>3, <1>5, <1>7, <1>8, <1>9, <1>12, <2>2, CallInv
<1>13. QED
  BY <1>10, <1>11, <1>12

-----------------------------------------------------------------------------
(* The theorems.                                                           *)

\* The invariant holds when json::read begins.
LEMMA ReaderInitInv == ReaderInit => ReaderInv
<1> SUFFICES ASSUME ReaderInit PROVE ReaderInv
  OBVIOUS
<1>1. CursorInv
  BY ReaderAssumption DEF ReaderInit, CursorInv
<1>2. CASE stack = <<>> /\ made = <<>> /\ outcome = "input_too_large"
  <2>1. StackInv
    BY <1>2 DEF StackInv
  <2>2. made = [k \in 1..Len(stack) |-> made[k]]
    BY <1>2
  <2>3. QED
    BY <1>1, <1>2, <2>1, <2>2 DEF ReaderInv
<1>3. CASE stack = <<Fresh("value", type, 0)>> /\ made = <<<<>>>> /\ outcome = "none"
  <2> DEFINE g == Fresh("value", type, 0)
  <2>1. g \in Frame /\ FrameOK(g, limits) /\ g.depth = 0
    BY <1>1, FreshType DEF CursorInv
  <2>2. stack = <<g>>
    BY <1>3
  <2> HIDE DEF g
  <2>3. stack \in Seq(Frame) /\ Len(stack) = 1 /\ stack[1] = g /\ DOMAIN stack = {1}
    BY <2>1, <2>2
  <2>4. StackInv
    BY <2>1, <2>3 DEF StackInv
  <2>5. made = [k \in 1..Len(stack) |-> made[k]]
    <3>1. made = <<<<>>>>
      BY <1>3
    <3>2. DOMAIN made = 1..1
      BY <3>1
    <3>3. made = [k \in DOMAIN made |-> made[k]]
      BY <3>1
    <3>4. QED
      BY <2>3, <3>2, <3>3
  <2>6. stack # <<>>
    BY <2>2
  <2>7. outcome = "none"
    BY <1>3
  <2>8. QED
    BY <1>1, <2>4, <2>5, <2>6, <2>7 DEF ReaderInv
<1>4. QED
  BY <1>2, <1>3 DEF ReaderInit

\* Every step of the reader keeps the invariant.
LEMMA ReaderNextInv == ReaderInv /\ [ReaderNext]_readerVars => ReaderInv'
<1> SUFFICES ASSUME ReaderInv, [ReaderNext]_readerVars PROVE ReaderInv'
  OBVIOUS
<1>1. CASE ReadNull \/ ReadOptional \/ ReadScalar
  BY <1>1, ScalarStep
<1>2. CASE BeginObject \/ BeginList
  BY <1>2, BeginStep
<1>3. CASE ReadMember
  BY <1>3, ReadMemberStep
<1>4. CASE ReadElement
  BY <1>4, ReadElementStep
<1>5. CASE AfterMember \/ AfterElement \/ AfterSkipped
  BY <1>5, AfterStep
<1>6. CASE SkipValue
  BY <1>6, SkipValueStep
<1>7. CASE SkipMember \/ SkipElement
  BY <1>7, SkipInsideStep
<1>8. CASE UNCHANGED readerVars
  BY <1>8 DEF readerVars, ReaderInv, CursorInv, StackInv
<1>9. QED
  BY <1>1, <1>2, <1>3, <1>4, <1>5, <1>6, <1>7, <1>8 DEF ReaderNext

\* Hence it always holds.
LEMMA ReaderAlwaysInv == ReaderSpec => []ReaderInv
BY ReaderInitInv, ReaderNextInv, PTL DEF ReaderSpec

\* The reader's variables keep their types for every type, text and limits: the
\* position never leaves the text, and every call belongs to a type considered.
THEOREM ReaderTypeCorrect == ReaderSpec => []ReaderTypeOK
<1>1. ReaderInv => ReaderTypeOK
  <2> SUFFICES ASSUME ReaderInv PROVE ReaderTypeOK
    OBVIOUS
  <2>1. DOMAIN made = 1..Len(stack) /\ DOMAIN stack = 1..Len(stack)
    BY LenProperties DEF ReaderInv, StackInv
  <2>2. QED
    BY <2>1 DEF ReaderInv, CursorInv, StackInv, ReaderTypeOK
<1>2. QED
  BY <1>1, ReaderAlwaysInv, PTL

\* json::read never nests more calls than maximum_depth allows, whatever the text:
\* every caller has opened a container below the limit.
THEOREM DepthBound == ReaderSpec => []DepthIsBounded
<1>1. ReaderInv => DepthIsBounded
  <2> SUFFICES ASSUME ReaderInv PROVE DepthIsBounded
    OBVIOUS
  <2>1. Len(stack) \in Nat /\ limits.depth \in Nat /\ DOMAIN stack = 1..Len(stack)
    BY LenProperties, LimitsType DEF ReaderInv, CursorInv, StackInv
  <2>2. CASE Len(stack) <= 1
    BY <2>1, <2>2 DEF DepthIsBounded
  <2>3. CASE Len(stack) >= 2
    <3> DEFINE k == Len(stack) - 1
    <3>1. k \in DOMAIN stack /\ k < Len(stack)
      BY <2>1, <2>3
    <3>2. FrameOK(stack[k], limits) /\ stack[k].depth = k - 1 /\ stack[k].at \in Waiting
      BY <3>1 DEF ReaderInv, StackInv
    <3>3. stack[k].depth < limits.depth
      BY <3>2 DEF FrameOK, Waiting
    <3>4. QED
      BY <2>1, <3>2, <3>3 DEF DepthIsBounded
  <2>4. QED
    BY <2>1, <2>2, <2>3
<1>2. QED
  BY <1>1, ReaderAlwaysInv, PTL

\* No container, read or skipped, counts more elements or members than its limit:
\* vectors are checked before each element, std::arrays once by their size.
THEOREM CountBound == ReaderSpec => []CountsAreBounded
<1>1. ReaderInv => CountsAreBounded
  BY DEF ReaderInv, StackInv, FrameOK, CountsAreBounded
<1>2. QED
  BY <1>1, ReaderAlwaysInv, PTL

-----------------------------------------------------------------------------
(* Tokens.                                                                 *)

\* Where parse_string stands: nothing is unescaped before the first escape, and
\* until then what it has read began after the opening quote.
TokenInv ==
    /\ bytes \in Seq(Byte)
    /\ TextTypeOK
    /\ wanted \in StringLike => part \in {"open", "string", "end"}
    /\ part = "open" => position = 1 /\ ~owns_value
    /\ part = "string" /\ ~owns_value => segment_start = 2
    /\ part # "end" => verdict = "reading"
    /\ ViewIsBorrowed

\* There is a byte where the cursor sees one that is not zero.
LEMMA ByteInside ==
    ASSUME TokenInv, NEW p \in Nat, ByteAt(p) # 0
    PROVE  p \in 1..Len(bytes)
BY DEF TokenInv, ByteAt

LEMMA DigitInside ==
    ASSUME TokenInv, NEW p \in Nat, ByteAt(p) \in Digit
    PROVE  p \in 1..Len(bytes)
BY ByteInside DEF Digit

\* The loops over digits stop inside the input or just past it, after digits only.
LEMMA DigitsAre ==
    ASSUME TokenInv, NEW p \in 1..(Len(bytes) + 1)
    PROVE  /\ Digits(p) \in p..(Len(bytes) + 1)
           /\ ByteAt(Digits(p)) \notin Digit /\ \A k \in p..(Digits(p) - 1) : ByteAt(k) \in Digit
<1> DEFINE Z == {r \in Nat : ByteAt(r) \notin Digit}
<1>1. Len(bytes) + 1 \in Nat /\ p \in Nat
  BY DEF TokenInv
<1>2. Len(bytes) + 1 \in Z /\ Z \in SUBSET Nat
  BY <1>1 DEF ByteAt, Digit, TokenInv
<1>3. PICK q \in p..(Len(bytes) + 1) : q \in Z /\ \A r \in p..(q - 1) : r \notin Z
  <2> HIDE DEF Z
  <2>1. QED
    BY <1>1, <1>2, FirstFrom
<1>4. ByteAt(q) \notin Digit /\ \A k \in p..(q - 1) : ByteAt(k) \in Digit
  BY <1>1, <1>3
<1>5. QED
  BY <1>4 DEF Digits

LEMMA DigitsType ==
    ASSUME TokenInv, NEW p \in 1..(Len(bytes) + 1)
    PROVE  Digits(p) \in p..(Len(bytes) + 1)
BY DigitsAre

LEMMA EscapeParts ==
    ASSUME NEW code, NEW spelt, NEW next
    PROVE  /\ Escape(code, spelt, next).code = code /\ Escape(code, spelt, next).spelt = spelt
           /\ Escape(code, spelt, next).next = next
BY DEF Escape

\* The ways in which an escape is understood, with what parse_string has found out by then.
LEMMA EscapeWays ==
    ASSUME NEW p, EscapeAt(p).code = "none"
    PROVE  /\ ~(p + 1 > Len(bytes))
           /\ \/ EscapeAt(p).next = p + 2
              \/ EscapeAt(p).next = p + 6 /\ parse_hex_quad(p + 2) # -1
              \/ EscapeAt(p).next = p + 12 /\ parse_hex_quad(p + 8) # -1
<1> DEFINE b       == ByteAt(p + 1)
           high    == parse_hex_quad(p + 2)
           low     == parse_hex_quad(p + 8)
           past    == p + 1 > Len(bytes)
           plain   == b \in {Quote, Backslash, 47, 98, 102, 110, 114, 116}
           strange == b # 117
           alone   == high = -1 \/ high \in 56320..57343
           single  == high \notin Surrogate
           torn    == ByteAt(p + 6) # Backslash \/ ByteAt(p + 7) # 117 \/ low \notin 56320..57343
           wrong   == Escape("invalid_escape", <<>>, p)
           broken  == Escape("invalid_unicode", <<>>, p)
           short   == Escape("none", <<Unescaped(b)>>, p + 2)
           unit    == Escape("none", append_utf8(high), p + 6)
           pair    == Escape("none", append_utf8(65536 + (high - 55296) * 1024 + (low - 56320)), p + 12)
<1>1. EscapeAt(p) = IF past THEN wrong ELSE IF plain THEN short ELSE IF strange THEN wrong
                    ELSE IF alone THEN broken ELSE IF single THEN unit ELSE IF torn THEN broken ELSE pair
  BY DEF EscapeAt
<1>2. wrong.code # "none" /\ broken.code # "none"
  <2>1. wrong.code = "invalid_escape" /\ broken.code = "invalid_unicode"
    BY EscapeParts
  <2> HIDE DEF wrong, broken
  <2>2. QED
    BY ONLY <2>1
<1>3. short.next = p + 2 /\ unit.next = p + 6 /\ pair.next = p + 12
  BY EscapeParts
<1>4. (alone \/ high # -1) /\ (torn \/ low # -1)
  <2> HIDE DEF high, low
  <2>1. QED
    BY ONLY TRUE
<1> HIDE DEF high, low, past, plain, strange, alone, single, torn, wrong, broken, short, unit, pair
<1>5. ~past
  BY <1>1, <1>2, Zenon
<1>6. \/ EscapeAt(p) = short
      \/ EscapeAt(p) = unit /\ ~alone
      \/ EscapeAt(p) = pair /\ ~torn
  BY <1>1, <1>2, <1>5, Zenon
<1>7. \/ EscapeAt(p).next = p + 2
      \/ EscapeAt(p).next = p + 6 /\ high # -1
      \/ EscapeAt(p).next = p + 12 /\ low # -1
  BY ONLY <1>3, <1>4, <1>6
<1>8. QED
  BY <1>5, <1>7 DEF high, low, past

\* Four hexadecimal digits that are read lie inside the input.
LEMMA QuadInside ==
    ASSUME NEW p, parse_hex_quad(p) # -1
    PROVE  ~(p + 3 > Len(bytes))
BY DEF parse_hex_quad

\* An escape that is understood lies inside the input.
LEMMA EscapeInside ==
    ASSUME TokenInv, EscapeAt(position).code = "none"
    PROVE  EscapeAt(position).next \in (position + 2)..(Len(bytes) + 1)
<1> DEFINE p    == position
           n    == Len(bytes)
           next == EscapeAt(position).next
<1>1. p \in Nat /\ n \in Nat
  BY DEF TokenInv, TextTypeOK
<1>2. ~(p + 1 > n)
  BY EscapeWays
<1>3. parse_hex_quad(p + 2) # -1 => ~(p + 2 + 3 > n)
  BY QuadInside
<1>4. parse_hex_quad(p + 8) # -1 => ~(p + 8 + 3 > n)
  BY QuadInside
<1>5. \/ next = p + 2
      \/ next = p + 6 /\ parse_hex_quad(p + 2) # -1
      \/ next = p + 12 /\ parse_hex_quad(p + 8) # -1
  BY EscapeWays
<1> HIDE DEF p, n, next
<1>6. next = p + 2 \/ (next = p + 6 /\ ~(p + 2 + 3 > n)) \/ (next = p + 12 /\ ~(p + 8 + 3 > n))
  BY ONLY <1>3, <1>4, <1>5
<1>7. next \in (p + 2)..(n + 1)
  BY ONLY <1>1, <1>2, <1>6
<1>8. QED
  BY <1>7 DEF p, n, next

\* A refusal leaves the invariant as it was.
LEMMA RefusedToken ==
    ASSUME TokenInv, NEW code, code # "accepted", Refuse(code)
    PROVE  TokenInv'
BY DEF TokenInv, TextTypeOK, ViewIsBorrowed, Refuse, givenVars

\* Neither does the end of a number disturb it.
LEMMA FinishedNumber ==
    ASSUME TokenInv, wanted \notin StringLike, NEW value, Finish(value, position)
    PROVE  TokenInv'
<1>1. CASE SatisfiesRule(value)
  BY <1>1 DEF TokenInv, TextTypeOK, ViewIsBorrowed, Finish, StringLike, givenVars
<1>2. CASE ~SatisfiesRule(value)
  BY <1>2, RefusedToken DEF Finish
<1>3. QED
  BY <1>1, <1>2

\* A cursor that goes on inside a string or inside a number.
LEMMA WentOn ==
    ASSUME TokenInv, NEW to, NEW p \in position..(Len(bytes) + 1), GoOn(to, p), verdict = "reading",
           \/ part = "string" /\ to = "string"
           \/ wanted \notin StringLike /\ to \notin {"open", "string", "end"}
    PROVE  TokenInv'
BY DEF TokenInv, TextTypeOK, ViewIsBorrowed, GoOn, givenVars

LEMMA OpenStringKeeps == ASSUME TokenInv, OpenString PROVE TokenInv'
<1>1. CASE ByteAt(position) # Quote
  BY <1>1, RefusedToken DEF OpenString
<1>2. CASE ByteAt(position) = Quote
  <2>1. position \in 1..Len(bytes)
    BY <1>2, ByteInside DEF TokenInv, TextTypeOK, Quote
  <2>2. QED
    BY <1>2, <2>1 DEF OpenString, TokenInv, TextTypeOK, ViewIsBorrowed, givenVars
<1>3. QED
  BY <1>1, <1>2

LEMMA ReadEscapeKeeps == ASSUME TokenInv, ReadEscape PROVE TokenInv'
<1> DEFINE escape == EscapeAt(position)
           whole  == owned \o Taken(position) \o escape.spelt
<1>1. CASE escape.code # "none"
  <2>1. escape.code # "accepted"
    BY DEF EscapeAt, Escape
  <2>2. QED
    BY <1>1, <2>1, RefusedToken DEF ReadEscape
<1>2. CASE escape.code = "none" /\ ~(Len(whole) <= MaximumString)
  BY <1>2, RefusedToken DEF ReadEscape
<1>3. CASE escape.code = "none" /\ Len(whole) <= MaximumString
  <2>1. escape.next \in 1..(Len(bytes) + 1)
    BY <1>3, EscapeInside DEF TokenInv, TextTypeOK
  <2>2. /\ owned' = whole /\ owns_value' = TRUE /\ position' = escape.next /\ segment_start' = escape.next
        /\ UNCHANGED <<givenVars, part, verdict, parsed>>
    BY <1>3 DEF ReadEscape
  <2>3. Len(owned') <= MaximumString
    BY <1>3, <2>2
  <2> HIDE DEF whole, escape
  <2>4. QED
    BY <2>1, <2>2, <2>3, <1>3 DEF TokenInv, TextTypeOK, ViewIsBorrowed, ReadEscape, InString, givenVars
<1>4. QED
  BY <1>1, <1>2, <1>3

LEMMA CloseStringKeeps == ASSUME TokenInv, CloseString PROVE TokenInv'
<1> DEFINE whole == owned \o Taken(position)
<1>1. position \in 1..Len(bytes) /\ position \in Nat /\ segment_start \in Nat /\ part = "string"
  BY DEF CloseString, InString, TokenInv, TextTypeOK
<1>2. CASE verdict' = "accepted"
  <2>1. /\ parsed' = whole /\ position' = position + 1 /\ part' = "end"
        /\ UNCHANGED <<givenVars, segment_start, owned, owns_value>>
        /\ ~(wanted = "string_view" /\ owns_value)
    BY <1>2 DEF CloseString, Finish, Refuse
  <2>2. TextTypeOK'
    BY <1>1, <2>1 DEF TokenInv, TextTypeOK, givenVars
  <2>3. ViewIsBorrowed'
    <3> SUFFICES ASSUME wanted = "string_view" PROVE parsed' = SubSeq(bytes, 2, position' - 2)
      BY <2>1 DEF ViewIsBorrowed, givenVars
    <3>1. owned = <<>> /\ segment_start = 2
      BY <1>1, <2>1 DEF TokenInv, TextTypeOK
    <3>2. Taken(position) = SubSeq(bytes, 2, position' - 2)
      BY <1>1, <2>1, <3>1 DEF Taken
    <3>3. Taken(position) \in Seq(Byte)
      <4>1. \A i \in 2..(position - 1) : bytes[i] \in Byte
        BY <1>1 DEF TokenInv
      <4>2. QED
        BY <1>1, <3>1, <4>1, SubSeqProperties DEF Taken
    <3>4. QED
      BY <2>1, <3>1, <3>2, <3>3, ConcatEmptySeq
  <2>4. QED
    BY <2>1, <2>2, <2>3 DEF TokenInv, givenVars
<1>3. CASE verdict' # "accepted"
  <2>1. \E code : code # "accepted" /\ Refuse(code)
    BY <1>3 DEF CloseString, Finish, Refuse
  <2>2. QED
    BY <2>1, RefusedToken
<1>4. QED
  BY <1>2, <1>3

LEMMA ReadIntegerKeeps == ASSUME TokenInv, ReadInteger PROVE TokenInv'
<1> DEFINE p == IF ByteAt(position) = 45 THEN position + 1 ELSE position
<1>1. p \in Nat /\ position \in Nat /\ position <= p /\ verdict = "reading" /\ wanted \notin StringLike
  BY DEF ReadInteger, TokenInv, TextTypeOK, StringLike
<1>2. CASE ByteAt(p) \in Digit /\ GoOn("fraction", Digits(p))
  <2> HIDE DEF p
  <2>1. p \in 1..Len(bytes)
    BY <1>1, <1>2, DigitInside
  <2>2. Digits(p) \in p..(Len(bytes) + 1)
    BY <2>1, DigitsType DEF TokenInv
  <2>3. Digits(p) \in position..(Len(bytes) + 1)
    BY <1>1, <2>1, <2>2 DEF TokenInv
  <2>4. QED
    BY <1>1, <1>2, <2>3, WentOn
<1>3. CASE Refuse("invalid_number")
  BY <1>3, RefusedToken
<1>4. QED
  BY <1>2, <1>3 DEF ReadInteger

LEMMA ReadFractionKeeps == ASSUME TokenInv, ReadFraction PROVE TokenInv'
<1>1. /\ position \in 1..(Len(bytes) + 1) /\ position \in Nat /\ Len(bytes) \in Nat
      /\ verdict = "reading" /\ wanted \notin StringLike
  BY DEF ReadFraction, TokenInv, TextTypeOK, StringLike
<1>2. CASE GoOn("exponent", position)
  BY <1>1, <1>2, WentOn
<1>3. CASE ByteAt(position + 1) \in Digit /\ GoOn("exponent", Digits(position + 1))
  <2>1. position + 1 \in 1..Len(bytes)
    BY <1>1, <1>3, DigitInside
  <2>2. Digits(position + 1) \in position..(Len(bytes) + 1)
    BY <1>1, <2>1, DigitsType
  <2>3. QED
    BY <1>1, <1>3, <2>2, WentOn
<1>4. CASE Refuse("invalid_number")
  BY <1>4, RefusedToken
<1>5. QED
  BY <1>2, <1>3, <1>4 DEF ReadFraction

LEMMA ReadExponentKeeps == ASSUME TokenInv, ReadExponent PROVE TokenInv'
<1> DEFINE p == IF ByteAt(position + 1) \in {43, 45} THEN position + 2 ELSE position + 1
<1>1. /\ position \in 1..(Len(bytes) + 1) /\ position \in Nat /\ Len(bytes) \in Nat
      /\ p \in Nat /\ position <= p /\ verdict = "reading" /\ wanted \notin StringLike
  BY DEF ReadExponent, TokenInv, TextTypeOK, StringLike
<1>2. CASE GoOn("convert", position)
  BY <1>1, <1>2, WentOn
<1>3. CASE ByteAt(p) \in Digit /\ GoOn("convert", Digits(p))
  <2> HIDE DEF p
  <2>1. p \in 1..Len(bytes)
    BY <1>1, <1>3, DigitInside
  <2>2. Digits(p) \in p..(Len(bytes) + 1)
    BY <1>1, <2>1, DigitsType
  <2>3. Digits(p) \in position..(Len(bytes) + 1)
    BY <1>1, <2>1, <2>2
  <2>4. QED
    BY <1>1, <1>3, <2>3, WentOn
<1>4. CASE Refuse("invalid_number")
  BY <1>4, RefusedToken
<1>5. QED
  BY <1>2, <1>3, <1>4 DEF ReadExponent

LEMMA ConvertKeeps == ASSUME TokenInv, Convert PROVE TokenInv'
<1>1. wanted \notin StringLike
  BY DEF Convert, TokenInv, StringLike
<1>2. (\E value : Finish(value, position)) \/ Refuse("invalid_number") \/ Refuse("number_out_of_range")
  BY DEF Convert
<1>3. QED
  BY <1>1, <1>2, FinishedNumber, RefusedToken

LEMMA TokenAlwaysInv == TextSpec => []TokenInv
<1>1. TextInit => TokenInv
  BY TextAssumption DEF TextInit, TextStart, TokenInv, TextTypeOK, ViewIsBorrowed, StringLike
<1>2. TokenInv /\ [TextNext]_textVars => TokenInv'
  <2> SUFFICES ASSUME TokenInv, [TextNext]_textVars PROVE TokenInv'
    OBVIOUS
  <2>1. CASE OpenString
    BY <2>1, OpenStringKeeps
  <2>2. CASE ReadByte
    <3>1. position + 1 \in position..(Len(bytes) + 1) /\ verdict = "reading" /\ part = "string"
      BY <2>2 DEF ReadByte, InString, TokenInv, TextTypeOK
    <3>2. QED
      BY <2>2, <3>1, WentOn DEF ReadByte
  <2>3. CASE BadString
    BY <2>3, RefusedToken DEF BadString
  <2>4. CASE ReadEscape
    BY <2>4, ReadEscapeKeeps
  <2>5. CASE CloseString
    BY <2>5, CloseStringKeeps
  <2>6. CASE ReadInteger
    BY <2>6, ReadIntegerKeeps
  <2>7. CASE ReadFraction
    BY <2>7, ReadFractionKeeps
  <2>8. CASE ReadExponent
    BY <2>8, ReadExponentKeeps
  <2>9. CASE Convert
    BY <2>9, ConvertKeeps
  <2>10. CASE UNCHANGED textVars
    BY <2>10 DEF textVars, TokenInv, TextTypeOK, ViewIsBorrowed
  <2>11. QED
    BY <2>1, <2>2, <2>3, <2>4, <2>5, <2>6, <2>7, <2>8, <2>9, <2>10 DEF TextNext
<1>3. QED
  BY <1>1, <1>2, PTL DEF TextSpec

\* Whatever bytes it is given, the cursor never leaves its input and never
\* unescapes more than the limit.
THEOREM CursorStaysInside == TextSpec => []TextTypeOK
<1>1. TokenInv => TextTypeOK
  BY DEF TokenInv
<1>2. QED
  BY <1>1, TokenAlwaysInv, PTL

\* A string_view that read returns is a part of the input, whatever was read: it
\* stays valid as long as the body does.
THEOREM ViewsAreBorrowed == TextSpec => []ViewIsBorrowed
<1>1. TokenInv => ViewIsBorrowed
  BY DEF TokenInv
<1>2. QED
  BY <1>1, TokenAlwaysInv, PTL

-----------------------------------------------------------------------------
(* What the writer makes of a string.                                      *)

\* The bytes that are escaped by a letter.
Lettered == {Quote, Backslash, 8, 9, 10, 12, 13}

\* The byte b is written in s, after the place p up to q.
Stands(s, p, b, q) ==
    \/ /\ b \notin Lettered \cup 0..31
       /\ q = p + 1 /\ s[p + 1] = b
    \/ /\ q = p + 2 /\ s[p + 1] = Backslash
       /\ s[p + 2] \in {Quote, Backslash, 98, 102, 110, 114, 116} /\ Unescaped(s[p + 2]) = b
    \/ /\ b \in 0..31
       /\ q = p + 6 /\ s[p + 1] = Backslash /\ s[p + 2] = 117
       /\ hex_value(s[p + 3]) = 0 /\ hex_value(s[p + 4]) = 0
       /\ hex_value(s[p + 5]) = b \div 16 /\ hex_value(s[p + 6]) = b % 16

\* s is a quote, every byte of v as it is written, and a quote.
Script(s, v, L) ==
    /\ s \in Seq(Byte) /\ L \in [0..Len(v) -> Nat]
    /\ L[0] = 1 /\ s[1] = Quote
    /\ Len(s) = L[Len(v)] + 1 /\ s[L[Len(v)] + 1] = Quote
    /\ \A k \in 0..Len(v) : L[k] < Len(s)
    /\ \A k \in 1..Len(v) : Stands(s, L[k - 1], v[k], L[k])

LEMMA HexDigitIsRead ==
    ASSUME NEW m \in 0..15
    PROVE  HexDigit(m) \in Byte /\ hex_value(HexDigit(m)) = m
<1>1. CASE m < 10
  BY <1>1 DEF HexDigit, hex_value, Digit, Byte
<1>2. CASE ~(m < 10)
  BY <1>2 DEF HexDigit, hex_value, Digit, Byte
<1>3. QED
  BY <1>1, <1>2

\* Sequences of one, two and six bytes.
IsOne(e, a) == e \in Seq(Byte) /\ Len(e) = 1 /\ e[1] = a
IsTwo(e, a, b) == e \in Seq(Byte) /\ Len(e) = 2 /\ e[1] = a /\ e[2] = b
IsSix(e, a, b, c, d, f, g) ==
    /\ e \in Seq(Byte) /\ Len(e) = 6
    /\ e[1] = a /\ e[2] = b /\ e[3] = c /\ e[4] = d /\ e[5] = f /\ e[6] = g

LEMMA One == ASSUME NEW a \in Byte, NEW e, e = <<a>> PROVE IsOne(e, a)
BY DEF IsOne

LEMMA Two == ASSUME NEW a \in Byte, NEW b \in Byte, NEW e, e = <<a, b>> PROVE IsTwo(e, a, b)
BY DEF IsTwo

LEMMA Six ==
    ASSUME NEW a \in Byte, NEW b \in Byte, NEW c \in Byte, NEW d \in Byte, NEW f \in Byte, NEW g \in Byte,
           NEW e, e = <<a, b, c, d, f, g>>
    PROVE  IsSix(e, a, b, c, d, f, g)
BY DEF IsSix

\* e is what the byte b is written as.
Writes(b, e) == e \in Seq(Byte) /\ Len(e) \in Nat /\ Stands(e, 0, b, Len(e))

LEMMA EscapedWrites == ASSUME NEW b \in Byte, NEW e, e = Escaped(b) PROVE Writes(b, e)
<1>1. /\ Quote \in Byte /\ Backslash \in Byte /\ 98 \in Byte /\ 102 \in Byte /\ 110 \in Byte
      /\ 114 \in Byte /\ 116 \in Byte /\ 117 \in Byte /\ 48 \in Byte
  BY DEF Byte, Quote, Backslash
<1>2. CASE b \notin Lettered \cup 0..31
  <2>1. e = <<b>>
    BY <1>2 DEF Escaped, Lettered, Quote, Backslash
  <2>2. e \in Seq(Byte) /\ Len(e) = 1 /\ e[1] = b
    BY <2>1, One DEF IsOne
  <2>3. e[0 + 1] = b /\ Len(e) = 0 + 1 /\ Len(e) \in Nat
    BY <2>2
  <2>4. QED
    BY <1>2, <2>2, <2>3 DEF Writes, Stands
<1>3. CASE b \in Lettered
  <2> DEFINE c == e[2]
  <2>1. /\ e \in Seq(Byte) /\ Len(e) = 2 /\ e[1] = Backslash
        /\ c \in {Quote, Backslash, 98, 102, 110, 114, 116} /\ Unescaped(c) = b
    <3>1. CASE b \in {Quote, Backslash}
      <4>1. e = <<Backslash, b>>
        BY <3>1 DEF Escaped, Quote, Backslash
      <4>2. e \in Seq(Byte) /\ Len(e) = 2 /\ e[1] = Backslash /\ e[2] = b
        BY <1>1, <4>1, Two DEF IsTwo
      <4>3. Unescaped(b) = b
        BY <3>1 DEF Unescaped, Quote, Backslash
      <4>4. QED
        BY <3>1, <4>2, <4>3
    <3>2. CASE b \in {8, 9, 10, 12, 13}
      <4> DEFINE x == CASE b = 8 -> 98 [] b = 12 -> 102 [] b = 10 -> 110 [] b = 13 -> 114 [] OTHER -> 116
      <4>1. e = <<Backslash, x>>
        BY <3>2 DEF Escaped, Quote, Backslash
      <4>2. x \in {98, 102, 110, 114, 116} /\ Unescaped(x) = b
        BY <3>2 DEF Unescaped, Quote, Backslash
      <4>3. x \in Byte
        BY <1>1, <4>2
      <4> HIDE DEF x
      <4>4. e \in Seq(Byte) /\ Len(e) = 2 /\ e[1] = Backslash /\ e[2] = x
        BY <1>1, <4>1, <4>3, Two DEF IsTwo
      <4>5. QED
        BY <4>2, <4>4
    <3>3. QED
      BY <1>3, <3>1, <3>2 DEF Lettered
  <2> HIDE DEF c
  <2>2. e[0 + 1] = Backslash /\ e[0 + 2] = c /\ Len(e) = 0 + 2 /\ Len(e) \in Nat
    BY <2>1 DEF c
  <2>3. QED
    BY <2>1, <2>2 DEF Writes, Stands
<1>4. CASE b \in 0..31 /\ b \notin Lettered
  <2> DEFINE x == HexDigit(b \div 16)
             y == HexDigit(b % 16)
  <2>1. e = <<Backslash, 117, 48, 48, x, y>>
    <3>1. b \in 0..31 \ {8, 9, 10, 12, 13} /\ b \notin {Quote, Backslash, 8, 9, 10, 12, 13}
      BY <1>4 DEF Lettered
    <3>2. QED
      BY <3>1 DEF Escaped
  <2>2. b \div 16 \in 0..15 /\ b % 16 \in 0..15
    BY <1>4
  <2>3. /\ x \in Byte /\ hex_value(x) = b \div 16
        /\ y \in Byte /\ hex_value(y) = b % 16
    BY <2>2, HexDigitIsRead
  <2>4. hex_value(48) = 0
    BY DEF hex_value, Digit
  <2> HIDE DEF x, y
  <2>5. /\ e \in Seq(Byte) /\ Len(e) = 6 /\ e[1] = Backslash /\ e[2] = 117
        /\ e[3] = 48 /\ e[4] = 48 /\ e[5] = x /\ e[6] = y
    BY <1>1, <2>1, <2>3, Six DEF IsSix
  <2>6. /\ Len(e) = 0 + 6 /\ Len(e) \in Nat /\ e[0 + 1] = Backslash /\ e[0 + 2] = 117
        /\ e[0 + 3] = 48 /\ e[0 + 4] = 48 /\ e[0 + 5] = x /\ e[0 + 6] = y
    BY <2>5
  <2>7. QED
    BY <1>4, <2>3, <2>4, <2>5, <2>6, Zenon DEF Writes, Stands
<1>5. QED
  BY <1>2, <1>3, <1>4

\* What stands in a piece stands where the piece is.
LEMMA StandsMoved ==
    ASSUME NEW e, NEW b, NEW n \in Nat, Stands(e, 0, b, n), NEW s, NEW p \in Nat,
           \A i \in 1..n : s[p + i] = e[i]
    PROVE  Stands(s, p, b, p + n)
<1>1. CASE /\ b \notin Lettered \cup 0..31
           /\ n = 0 + 1 /\ e[0 + 1] = b
  <2>1. 1 \in 1..n /\ 0 + 1 = 1 /\ n = 1
    BY <1>1
  <2>2. s[p + 1] = b
    BY <1>1, <2>1
  <2>3. QED
    BY <1>1, <2>1, <2>2 DEF Stands
<1>2. CASE /\ n = 0 + 2 /\ e[0 + 1] = Backslash
           /\ e[0 + 2] \in {Quote, Backslash, 98, 102, 110, 114, 116} /\ Unescaped(e[0 + 2]) = b
  <2>1. 1 \in 1..n /\ 2 \in 1..n /\ 0 + 1 = 1 /\ 0 + 2 = 2 /\ n = 2
    BY <1>2
  <2>2. s[p + 1] = e[0 + 1] /\ s[p + 2] = e[0 + 2]
    BY <2>1
  <2>3. QED
    BY <1>2, <2>1, <2>2, Zenon DEF Stands
<1>3. CASE /\ b \in 0..31
           /\ n = 0 + 6 /\ e[0 + 1] = Backslash /\ e[0 + 2] = 117
           /\ hex_value(e[0 + 3]) = 0 /\ hex_value(e[0 + 4]) = 0
           /\ hex_value(e[0 + 5]) = b \div 16 /\ hex_value(e[0 + 6]) = b % 16
  <2>1. /\ 1 \in 1..n /\ 2 \in 1..n /\ 3 \in 1..n /\ 4 \in 1..n /\ 5 \in 1..n /\ 6 \in 1..n
        /\ 0 + 1 = 1 /\ 0 + 2 = 2 /\ 0 + 3 = 3 /\ 0 + 4 = 4 /\ 0 + 5 = 5 /\ 0 + 6 = 6 /\ n = 6
    BY <1>3
  <2>2. /\ s[p + 1] = e[0 + 1] /\ s[p + 2] = e[0 + 2] /\ s[p + 3] = e[0 + 3]
        /\ s[p + 4] = e[0 + 4] /\ s[p + 5] = e[0 + 5] /\ s[p + 6] = e[0 + 6]
    BY <2>1
  <2>3. QED
    BY <1>3, <2>1, <2>2, Zenon DEF Stands
<1>4. QED
  BY <1>1, <1>2, <1>3 DEF Stands

\* W[k] is the quote and the first k bytes of v as they are written.
Writings(v, W) ==
    /\ W \in [0..Len(v) -> Seq(Byte)] /\ W[0] = <<Quote>>
    /\ \A k \in 1..Len(v) : W[k] = W[k - 1] \o Escaped(v[k])

\* Three pieces can be joined in either order.
LEMMA BytesJoin ==
    ASSUME NEW u \in Seq(Byte), NEW v \in Seq(Byte), NEW w \in Seq(Byte)
    PROVE  (u \o v) \o w = u \o (v \o w)
<1> DEFINE B == Byte
<1>1. u \in Seq(B) /\ v \in Seq(B) /\ w \in Seq(B)
  OBVIOUS
<1> HIDE DEF B
<1>2. QED
  BY ONLY <1>1, ConcatAssociative, SMTT(30)

LEMMA WritingsAre ==
    ASSUME NEW v \in Seq(Byte)
    PROVE  \E W : Writings(v, W) /\ append_escaped_string(v) = Append(W[Len(v)], Quote)
<1> DEFINE n == Len(v)
           T == Seq(Byte)
           first == <<Quote>>
           G(f) == [k \in 0..n |-> IF k = 0 THEN <<Quote>> ELSE f[k - 1] \o Escaped(v[k])]
           step == [k \in 1..n |-> [t \in T |-> t \o Escaped(v[k])]]
<1>1. n \in Nat /\ first \in T
  BY DEF Byte, Quote
<1>2. \A k \in 1..n : Escaped(v[k]) \in Seq(Byte)
  <2>1. TAKE k \in 1..n
  <2>2. v[k] \in Byte
    OBVIOUS
  <2>3. Writes(v[k], Escaped(v[k]))
    BY <2>2, EscapedWrites
  <2>4. QED
    BY <2>3 DEF Writes
<1>3. \A k \in 1..n : \A t \in T : t \o Escaped(v[k]) \in T
  BY <1>2, ConcatProperties
<1>4. step \in Advances(T, n)
  BY <1>3 DEF Advances
<1>5. PICK f : Solves(f, T, n, first, step)
  <2> HIDE DEF n, T, first, step
  <2>1. QED
    BY <1>1, <1>4, Recursion
<1>6. f \in [0..n -> T] /\ f[0] = first /\ \A k \in 1..n : f[k] = step[k][f[k - 1]]
  BY <1>5 DEF Solves
<1>7. \A k \in 1..n : f[k] = f[k - 1] \o Escaped(v[k])
  <2>1. TAKE k \in 1..n
  <2>2. k - 1 \in 0..n
    BY <1>1
  <2>3. f[k - 1] \in T
    <3> HIDE DEF T
    <3>1. QED
      BY <1>6, <2>2
  <2>4. QED
    BY <1>6, <2>3
<1>8. f = G(f)
  <2>1. \A k \in 0..n : f[k] = IF k = 0 THEN <<Quote>> ELSE f[k - 1] \o Escaped(v[k])
    <3>1. TAKE k \in 0..n
    <3>2. k = 0 \/ (k \in 1..n /\ k # 0)
      BY <1>1
    <3>3. QED
      BY <1>6, <1>7, <3>2
  <2>2. QED
    BY <1>6, <2>1
<1> DEFINE S == CHOOSE g : g = G(g)
<1>9. append_escaped_string(v) = Append(S[n], Quote)
  BY DEF append_escaped_string
<1>10. S = G(S)
  <2> HIDE DEF G
  <2>1. QED
    BY <1>8
<1> HIDE DEF S
<1>11. S[0] = <<Quote>> /\ \A k \in 1..n : S[k] = S[k - 1] \o Escaped(v[k])
  <2>1. S = [k \in 0..n |-> IF k = 0 THEN <<Quote>> ELSE S[k - 1] \o Escaped(v[k])]
    BY <1>10
  <2>2. \A k \in 0..n : S[k] = IF k = 0 THEN <<Quote>> ELSE S[k - 1] \o Escaped(v[k])
    BY ONLY <2>1, Zenon
  <2>3. 0 \in 0..n /\ \A k \in 1..n : k \in 0..n /\ k # 0
    BY <1>1
  <2>4. QED
    BY ONLY <2>2, <2>3, Zenon
<1>12. \A k \in 0..n : S[k] = f[k]
  <2> DEFINE D == {k \in 0..n : S[k] # f[k]}
  <2>1. SUFFICES ASSUME D # {} PROVE FALSE
    OBVIOUS
  <2>2. PICK k \in D : \A r \in D : k <= r
    <3>1. D \in SUBSET Nat
      BY <1>1
    <3> HIDE DEF D
    <3>2. QED
      BY <2>1, <3>1, FirstPosition
  <2>3. k \in 1..n /\ k - 1 \in 0..n /\ k - 1 \notin D
    <3>1. k \in 0..n /\ S[k] # f[k]
      BY <2>2
    <3>2. S[0] = f[0]
      BY <1>6, <1>11
    <3>3. k # 0
      BY <3>1, <3>2
    <3>4. k \in 1..n /\ k - 1 \in 0..n /\ ~(k <= k - 1)
      BY <1>1, <3>1, <3>3
    <3>5. k - 1 \notin D
      <4> HIDE DEF D
      <4>1. QED
        BY <2>2, <3>4
    <3>6. QED
      BY <3>4, <3>5
  <2>4. S[k - 1] = f[k - 1]
    BY <2>3
  <2>5. QED
    BY <1>7, <1>11, <2>2, <2>3, <2>4
<1>13. n \in 0..n /\ S[n] = f[n]
  BY <1>1, <1>12
<1>14. Writings(v, f)
  BY <1>6, <1>7 DEF Writings
<1>15. QED
  BY <1>9, <1>13, <1>14

\* One byte more is written after the others.
LEMMA WritingsStep ==
    ASSUME NEW v \in Seq(Byte), NEW W, Writings(v, W), NEW k \in 1..Len(v),
           NEW a, a = W[k - 1], NEW b, b = W[k]
    PROVE  /\ Len(a) \in Nat /\ Len(b) \in Nat /\ Len(a) < Len(b)
           /\ \A i \in 1..Len(a) : b[i] = a[i]
           /\ Stands(b, Len(a), v[k], Len(b))
<1> DEFINE e == Escaped(v[k])
<1>1. v[k] \in Byte /\ k - 1 \in 0..Len(v) /\ k \in 0..Len(v)
  OBVIOUS
<1>2. Writes(v[k], e)
  BY <1>1, EscapedWrites
<1>3. a \in Seq(Byte) /\ b = a \o e
  BY <1>1 DEF Writings
<1> HIDE DEF e
<1>4. e \in Seq(Byte) /\ Len(e) \in Nat /\ Stands(e, 0, v[k], Len(e)) /\ Len(a) \in Nat
  BY <1>2, <1>3 DEF Writes
<1>5. /\ Len(b) = Len(a) + Len(e)
      /\ \A i \in 1..(Len(a) + Len(e)) : b[i] = IF i <= Len(a) THEN a[i] ELSE e[i - Len(a)]
  <2>1. a \in Seq(Byte) /\ e \in Seq(Byte)
    BY <1>3, <1>4
  <2>2. /\ Len(a \o e) = Len(a) + Len(e)
        /\ \A i \in 1..(Len(a) + Len(e)) : (a \o e)[i] = IF i <= Len(a) THEN a[i] ELSE e[i - Len(a)]
    BY <2>1, ConcatProperties, ZenonT(40)
  <2>3. QED
    BY <1>3, <2>2, Zenon
<1>6. Len(a) \in Nat /\ Len(e) \in Nat
  BY <1>4
<1>7. Len(e) >= 1
  <2> DEFINE l == Len(e)
  <2>1. l = 0 + 1 \/ l = 0 + 2 \/ l = 0 + 6
    BY <1>4, Zenon DEF Stands
  <2> HIDE DEF l
  <2>2. l >= 1
    BY ONLY <2>1
  <2>3. QED
    BY <2>2 DEF l
<1>8. \A i \in 1..Len(a) : b[i] = a[i]
  BY ONLY <1>5, <1>6
<1>9. ASSUME NEW i \in 1..Len(e) PROVE b[Len(a) + i] = e[i]
  <2> DEFINE j == Len(a) + i
  <2>1. j \in 1..(Len(a) + Len(e)) /\ ~(j <= Len(a)) /\ j - Len(a) = i
    BY ONLY <1>6, i \in 1..Len(e)
  <2> HIDE DEF j
  <2>2. b[j] = e[i]
    BY <1>5, <2>1
  <2>3. QED
    BY <2>2 DEF j
<1>10. Stands(b, Len(a), v[k], Len(a) + Len(e))
  BY <1>4, <1>9, StandsMoved
<1>11. Len(b) \in Nat /\ Len(a) < Len(b)
  BY ONLY <1>5, <1>6, <1>7
<1>12. QED
  BY <1>5, <1>6, <1>8, <1>10, <1>11

\* What is written first stands in all that is written.
LEMMA WritingsNest ==
    ASSUME NEW v \in Seq(Byte), NEW W, Writings(v, W), NEW m \in 0..Len(v)
    PROVE  /\ Len(W[m]) <= Len(W[Len(v)])
           /\ \A i \in 1..Len(W[m]) : W[Len(v)][i] = W[m][i]
<1> DEFINE n == Len(v)
           Nests(k) == Len(W[k]) <= Len(W[n]) /\ \A i \in 1..Len(W[k]) : W[n][i] = W[k][i]
           D == {k \in 0..n : ~Nests(k)}
<1>1. n \in Nat /\ \A k \in 0..n : Len(W[k]) \in Nat
  <2>1. \A k \in 0..n : W[k] \in Seq(Byte)
    BY DEF Writings
  <2>2. QED
    BY <2>1
<1>2. D = {}
  <2>1. SUFFICES ASSUME D # {} PROVE FALSE
    OBVIOUS
  <2>2. PICK k \in D : \A r \in D : r <= k
    <3>1. D \in SUBSET (0..n)
      OBVIOUS
    <3> HIDE DEF D
    <3>2. QED
      BY <1>1, <2>1, <3>1, LastPosition
  <2>3. Nests(n)
    BY <1>1
  <2> HIDE DEF Nests
  <2>4. k + 1 \in 1..n /\ k \in 0..n /\ k + 1 \in 0..n /\ k + 1 \notin D /\ ~Nests(k) /\ (k + 1) - 1 = k
    BY <1>1, <2>2, <2>3
  <2>5. Nests(k + 1)
    BY <2>4
  <2> DEFINE a == W[k]
             b == W[k + 1]
  <2>6. Len(a) < Len(b) /\ \A i \in 1..Len(a) : b[i] = a[i]
    <3>1. a = W[(k + 1) - 1] /\ b = W[k + 1]
      BY <2>4
    <3> HIDE DEF a, b
    <3>2. QED
      BY <2>4, <3>1, WritingsStep, SMTT(30)
  <2>7. Len(a) \in Nat /\ Len(b) \in Nat /\ Len(W[n]) \in Nat
    BY <1>1, <2>4
  <2>8. Len(b) <= Len(W[n]) /\ \A i \in 1..Len(b) : W[n][i] = b[i]
    BY <2>5 DEF Nests
  <2> HIDE DEF a, b
  <2>9. Len(a) <= Len(W[n]) /\ \A i \in 1..Len(a) : W[n][i] = a[i]
    <3>1. \A i \in 1..Len(a) : i \in 1..Len(b)
      BY <2>6, <2>7
    <3>2. QED
      BY <2>6, <2>7, <2>8, <3>1
  <2>10. Nests(k)
    BY <2>9 DEF Nests, a
  <2>11. QED
    BY <2>4, <2>10
<1>3. Nests(m)
  <2>1. m \notin D
    BY <1>2
  <2> HIDE DEF Nests
  <2>2. QED
    BY <2>1
<1>4. QED
  BY <1>3

LEMMA StandsInMore ==
    ASSUME NEW s, NEW b, NEW p \in Nat, NEW x, NEW q \in Nat, Stands(b, p, x, q),
           \A i \in 1..q : s[i] = b[i]
    PROVE  Stands(s, p, x, q)
<1>1. CASE q = p + 1 /\ b[p + 1] = x /\ x \notin Lettered \cup 0..31
  <2>1. p + 1 \in 1..q
    BY <1>1
  <2>2. s[p + 1] = b[p + 1]
    BY <2>1
  <2>3. QED
    BY <1>1, <2>2 DEF Stands
<1>2. CASE /\ q = p + 2 /\ b[p + 1] = Backslash
           /\ b[p + 2] \in {Quote, Backslash, 98, 102, 110, 114, 116} /\ Unescaped(b[p + 2]) = x
  <2>1. p + 1 \in 1..q /\ p + 2 \in 1..q
    BY <1>2
  <2>2. s[p + 1] = b[p + 1] /\ s[p + 2] = b[p + 2]
    BY <2>1
  <2>3. QED
    BY <1>2, <2>2, Zenon DEF Stands
<1>3. CASE /\ x \in 0..31
           /\ q = p + 6 /\ b[p + 1] = Backslash /\ b[p + 2] = 117
           /\ hex_value(b[p + 3]) = 0 /\ hex_value(b[p + 4]) = 0
           /\ hex_value(b[p + 5]) = x \div 16 /\ hex_value(b[p + 6]) = x % 16
  <2>1. /\ p + 1 \in 1..q /\ p + 2 \in 1..q /\ p + 3 \in 1..q
        /\ p + 4 \in 1..q /\ p + 5 \in 1..q /\ p + 6 \in 1..q
    BY <1>3
  <2>2. /\ s[p + 1] = b[p + 1] /\ s[p + 2] = b[p + 2] /\ s[p + 3] = b[p + 3]
        /\ s[p + 4] = b[p + 4] /\ s[p + 5] = b[p + 5] /\ s[p + 6] = b[p + 6]
    BY <2>1
  <2>3. QED
    BY <1>3, <2>2, Zenon DEF Stands
<1>4. QED
  BY <1>1, <1>2, <1>3 DEF Stands

\* A string as it is written, byte by byte.
LEMMA WrittenStands ==
    ASSUME NEW v \in Seq(Byte)
    PROVE  \E L : Script(append_escaped_string(v), v, L)
<1> DEFINE n == Len(v)
           s == append_escaped_string(v)
<1>1. PICK W : Writings(v, W) /\ s = Append(W[n], Quote)
  BY WritingsAre
<1> HIDE DEF s
<1> DEFINE w == W[n]
           L == [k \in 0..n |-> Len(W[k])]
<1>2. n \in Nat /\ n \in 0..n /\ 0 \in 0..n
  OBVIOUS
<1>3. (\A k \in 0..n : W[k] \in Seq(Byte)) /\ W[0] = <<Quote>> /\ Quote \in Byte
  <2>1. (\A k \in 0..n : W[k] \in Seq(Byte)) /\ W[0] = <<Quote>>
    BY <1>1 DEF Writings
  <2>2. Quote \in Byte
    BY DEF Byte, Quote
  <2>3. QED
    BY <2>1, <2>2
<1>4. \A k \in 0..n : Len(W[k]) \in Nat
  BY <1>3
<1>5. w \in Seq(Byte) /\ Len(w) \in Nat
  BY <1>2, <1>3
<1>6. \A m \in 0..n : Len(W[m]) <= Len(w) /\ \A i \in 1..Len(W[m]) : w[i] = W[m][i]
  BY <1>1, WritingsNest
<1>7. L \in [0..n -> Nat] /\ \A k \in 0..n : L[k] = Len(W[k])
  BY <1>4
<1> HIDE DEF L, w
<1>8. /\ s \in Seq(Byte) /\ Len(s) = Len(w) + 1 /\ s[Len(w) + 1] = Quote
      /\ \A i \in 1..Len(w) : s[i] = w[i]
  <2>1. s = Append(w, Quote)
    BY <1>1 DEF w
  <2>2. QED
    BY <1>3, <1>5, <2>1, AppendProperties
<1>9. L[0] = 1 /\ s[1] = Quote
  <2> DEFINE a == W[0]
  <2>1. IsOne(a, Quote)
    BY <1>3, One
  <2> HIDE DEF a
  <2>2. Len(a) <= Len(w) /\ \A i \in 1..Len(a) : w[i] = a[i]
    BY <1>2, <1>6 DEF a
  <2>3. 1 \in 1..Len(a) /\ 1 \in 1..Len(w)
    BY <1>5, <2>1, <2>2 DEF IsOne
  <2>4. s[1] = Quote
    BY <1>8, <2>1, <2>2, <2>3 DEF IsOne
  <2>5. L[0] = 1
    BY <1>2, <1>7, <2>1 DEF IsOne, a
  <2>6. QED
    BY <2>4, <2>5
<1>10. L[n] = Len(w)
  BY <1>2, <1>7 DEF w
<1>11. Len(s) = L[n] + 1 /\ s[L[n] + 1] = Quote
  BY <1>8, <1>10
<1>12. \A k \in 0..n : L[k] < Len(s)
  <2>1. TAKE k \in 0..n
  <2>2. L[k] \in Nat /\ L[k] <= Len(w) /\ Len(s) = Len(w) + 1
    BY <1>4, <1>6, <1>7, <1>8
  <2>3. QED
    BY <1>5, <2>2
<1>13. ASSUME NEW k \in 1..n PROVE Stands(s, L[k - 1], v[k], L[k])
  <2> DEFINE a == W[k - 1]
             b == W[k]
  <2>1. k - 1 \in 0..n /\ k \in 0..n
    BY <1>2
  <2>2. Len(a) \in Nat /\ Len(b) \in Nat /\ Stands(b, Len(a), v[k], Len(b))
    <3>1. v \in Seq(Byte) /\ Writings(v, W) /\ k \in 1..Len(v) /\ a = W[k - 1] /\ b = W[k]
      BY <1>1
    <3> HIDE DEF a, b
    <3>2. QED
      BY ONLY <3>1, WritingsStep, ZenonT(40)
  <2>3. Len(b) <= Len(w) /\ \A i \in 1..Len(b) : w[i] = b[i]
    BY <1>6, <2>1
  <2>4. L[k - 1] = Len(a) /\ L[k] = Len(b)
    BY <1>7, <2>1
  <2> HIDE DEF a, b
  <2>5. \A i \in 1..Len(b) : s[i] = b[i]
    <3>1. \A i \in 1..Len(b) : i \in 1..Len(w)
      BY <1>5, <2>2, <2>3
    <3>2. QED
      BY <1>8, <2>3, <3>1
  <2>6. Stands(s, Len(a), v[k], Len(b))
    BY <2>2, <2>5, StandsInMore
  <2>7. QED
    BY <2>4, <2>6
<1>14. Script(s, v, L)
  BY <1>7, <1>8, <1>9, <1>11, <1>12, <1>13 DEF Script
<1>15. QED
  BY <1>14 DEF s

\* H is G and one byte more.
Longer(G, b, H) ==
    /\ G \in Seq(Byte) /\ H \in Seq(Byte) /\ Len(G) \in Nat /\ Len(H) = Len(G) + 1
    /\ (\A i \in 1..Len(G) : H[i] = G[i]) /\ H[Len(G) + 1] = b

LEMMA OneMore ==
    ASSUME NEW G \in Seq(Byte), NEW b \in Byte, NEW H, H = G \o <<b>>
    PROVE  Longer(G, b, H)
<1> DEFINE e == <<b>>
<1>1. IsOne(e, b)
  BY One
<1>2. H = G \o e /\ Len(G) \in Nat
  OBVIOUS
<1> HIDE DEF e
<1>3. /\ H \in Seq(Byte) /\ Len(H) = Len(G) + Len(e)
      /\ \A i \in 1..(Len(G) + Len(e)) : H[i] = IF i <= Len(G) THEN G[i] ELSE e[i - Len(G)]
  <2>1. G \in Seq(Byte) /\ e \in Seq(Byte)
    BY <1>1 DEF IsOne
  <2>2. /\ G \o e \in Seq(Byte) /\ Len(G \o e) = Len(G) + Len(e)
        /\ \A i \in 1..(Len(G) + Len(e)) : (G \o e)[i] = IF i <= Len(G) THEN G[i] ELSE e[i - Len(G)]
    BY <2>1, ConcatProperties, Zenon
  <2>3. QED
    BY <1>2, <2>2, Zenon
<1>4. Len(e) = 1 /\ e[1] = b
  BY <1>1 DEF IsOne
<1>5. \A i \in 1..Len(G) : H[i] = G[i]
  BY <1>2, <1>3, <1>4
<1>6. H[Len(G) + 1] = b
  <2> DEFINE j == Len(G) + 1
  <2>1. j \in 1..(Len(G) + Len(e)) /\ ~(j <= Len(G)) /\ j - Len(G) = 1
    BY <1>2, <1>4
  <2> HIDE DEF j
  <2>2. H[j] = b
    BY <1>3, <1>4, <2>1
  <2>3. QED
    BY <2>2 DEF j
<1>7. QED
  BY <1>2, <1>3, <1>4, <1>5, <1>6 DEF Longer

-----------------------------------------------------------------------------
(* The reader, on what the writer made.                                    *)

\* G is the first k bytes of v.
Spells(G, v, k) == G \in Seq(Byte) /\ Len(G) = k /\ \A i \in 1..k : G[i] = v[i]

\* What the reader has of v: nothing yet, its first k bytes, or all of it.
Reread(v, L) ==
    \/ part = "open" /\ verdict = "reading"
    \/ /\ part = "string" /\ verdict = "reading" /\ owned \in Seq(Byte)
       /\ \E k \in 0..Len(v) : position = L[k] + 1 /\ Spells(owned \o Taken(position), v, k)
    \/ part = "end" /\ IF valid_utf8(v) THEN Whole /\ parsed = v ELSE verdict = "invalid_utf8"

RereadInv ==
    wanted = "string" /\ rule.kind = "none" =>
        \A v \in Writable : \A L : Script(bytes, v, L) => Reread(v, L)

LEMMA WritableAre ==
    ASSUME NEW v \in Writable
    PROVE  v \in Seq(Byte) /\ Len(v) <= MaximumString
BY TextAssumption DEF Writable

\* After k bytes of v the closing quote stands, or the byte k + 1.
LEMMA NextStands ==
    ASSUME NEW v \in Seq(Byte), NEW L, Script(bytes, v, L), NEW k \in 0..Len(v), position = L[k] + 1
    PROVE  /\ position \in 1..Len(bytes) /\ ByteAt(position) = bytes[position] /\ bytes[position] \in Byte
           /\ L[k] \in Nat /\ Len(bytes) \in Nat /\ bytes \in Seq(Byte)
           /\ \/ k = Len(v) /\ bytes[position] = Quote /\ Len(bytes) = position
              \/ /\ k + 1 \in 1..Len(v) /\ k + 1 \in 0..Len(v)
                 /\ v[k + 1] \in Byte /\ L[k + 1] \in Nat /\ L[k + 1] < Len(bytes)
                 /\ Stands(bytes, L[k], v[k + 1], L[k + 1])
<1> DEFINE n == Len(v)
<1>1. /\ bytes \in Seq(Byte) /\ L \in [0..n -> Nat]
      /\ Len(bytes) = L[n] + 1 /\ bytes[L[n] + 1] = Quote
      /\ \A j \in 0..n : L[j] < Len(bytes)
      /\ \A j \in 1..n : Stands(bytes, L[j - 1], v[j], L[j])
  BY DEF Script
<1>2. n \in Nat /\ Len(bytes) \in Nat /\ L[k] \in Nat /\ L[k] < Len(bytes)
  <2>1. n \in Nat /\ k \in 0..n
    OBVIOUS
  <2>2. Len(bytes) \in Nat
    BY <1>1
  <2> HIDE DEF n
  <2>3. L[k] \in Nat /\ L[k] < Len(bytes)
    BY ONLY <1>1, <2>1, Zenon
  <2>4. QED
    BY <2>1, <2>2, <2>3
<1>3. position \in 1..Len(bytes)
  BY <1>2
<1>4. ByteAt(position) = bytes[position] /\ bytes[position] \in Byte
  BY <1>1, <1>3 DEF ByteAt
<1>5. CASE k = n
  BY <1>1, <1>2, <1>3, <1>4, <1>5
<1>6. CASE k # n
  <2>1. k + 1 \in 1..n /\ k + 1 \in 0..n /\ (k + 1) - 1 = k
    BY <1>2, <1>6
  <2>2. v[k + 1] \in Byte /\ L[k + 1] \in Nat /\ L[k + 1] < Len(bytes)
    <3>1. v[k + 1] \in Byte
      BY <2>1
    <3> HIDE DEF n
    <3>2. L[k + 1] \in Nat /\ L[k + 1] < Len(bytes)
      BY ONLY <1>1, <2>1, Zenon
    <3>3. QED
      BY <3>1, <3>2
  <2>3. Stands(bytes, L[k], v[k + 1], L[k + 1])
    <3> DEFINE j == k + 1
    <3>1. j \in 1..n /\ j - 1 = k
      BY <2>1
    <3> HIDE DEF j
    <3>2. Stands(bytes, L[k], v[j], L[j])
      BY <1>1, <3>1
    <3>3. QED
      BY <3>2 DEF j
  <2>4. QED
    BY <1>1, <1>2, <1>3, <1>4, <2>1, <2>2, <2>3
<1>7. QED
  BY <1>5, <1>6

\* One byte more is spelt.
LEMMA SpellsMore ==
    ASSUME NEW v \in Seq(Byte), NEW k \in Nat, k + 1 \in 1..Len(v), NEW G, Spells(G, v, k),
           NEW H, H = G \o <<v[k + 1]>>
    PROVE  Spells(H, v, k + 1)
<1>1. v[k + 1] \in Byte /\ G \in Seq(Byte) /\ Len(G) = k /\ \A i \in 1..k : G[i] = v[i]
  BY DEF Spells
<1>2. Longer(G, v[k + 1], H)
  BY <1>1, OneMore
<1>3. H \in Seq(Byte) /\ Len(H) = k + 1 /\ (\A i \in 1..k : H[i] = v[i]) /\ H[k + 1] = v[k + 1]
  BY <1>1, <1>2, Zenon DEF Longer
<1>4. \A i \in 1..(k + 1) : i \in 1..k \/ i = k + 1
  OBVIOUS
<1>5. QED
  BY <1>3, <1>4, Zenon DEF Spells

LEMMA RereadOpens ==
    ASSUME TokenInv, NEW v \in Seq(Byte), NEW L, Script(bytes, v, L), OpenString
    PROVE  Reread(v, L)'
<1>1. position = 1 /\ part = "open" /\ verdict = "reading" /\ owned = <<>>
  BY DEF OpenString, TokenInv, TextTypeOK
<1>2. 0 \in 0..Len(v) /\ L[0] = 1 /\ bytes[1] = Quote /\ 1 < Len(bytes) /\ bytes \in Seq(Byte)
  BY DEF Script
<1>3. ByteAt(position) = Quote
  BY <1>1, <1>2 DEF ByteAt
<1>4. /\ part' = "string" /\ position' = 2 /\ segment_start' = 2
      /\ bytes' = bytes /\ owned' = <<>> /\ verdict' = "reading"
  BY <1>1, <1>3 DEF OpenString, givenVars
<1> DEFINE G == SubSeq(bytes, 2, 1)
<1>5. G = <<>>
  BY SubSeqEmpty
<1>6. Taken(position)' = G
  BY <1>4 DEF Taken
<1> HIDE DEF G
<1> DEFINE H == <<>> \o G
<1>7. H = <<>>
  <2>1. <<>> \in Seq(Byte)
    OBVIOUS
  <2>2. QED
    BY <1>5, <2>1, ConcatEmptySeq
<1>8. (owned \o Taken(position))' = H
  BY <1>4, <1>6
<1> HIDE DEF H
<1>9. Spells(H, v, 0)
  BY <1>7 DEF Spells
<1>10. position' = L[0] + 1 /\ owned' \in Seq(Byte)
  BY <1>2, <1>4
<1>11. QED
  BY <1>2, <1>4, <1>8, <1>9, <1>10 DEF Reread

LEMMA RereadByte ==
    ASSUME TokenInv, NEW v \in Seq(Byte), NEW L, Script(bytes, v, L), ReadByte,
           owned \in Seq(Byte), NEW k \in 0..Len(v), position = L[k] + 1,
           Spells(owned \o Taken(position), v, k)
    PROVE  Reread(v, L)'
<1> DEFINE b == bytes[position]
           taken == SubSeq(bytes, segment_start, position - 1)
           more == SubSeq(bytes, segment_start, position)
<1>1. /\ part' = "string" /\ position' = position + 1
      /\ UNCHANGED <<bytes, segment_start, owned, verdict>>
      /\ ByteAt(position) \notin {Quote, Backslash} \cup 0..31
  BY DEF ReadByte, GoOn, givenVars
<1>2. /\ position \in 1..Len(bytes) /\ b \in Byte /\ Len(bytes) \in Nat /\ bytes \in Seq(Byte) /\ L[k] \in Nat
      /\ b \notin {Quote, Backslash} \cup 0..31
  BY <1>1, NextStands
<1>3. k + 1 \in 1..Len(v) /\ k + 1 \in 0..Len(v) /\ Stands(bytes, L[k], v[k + 1], L[k + 1])
  BY <1>2, NextStands
<1>4. L[k + 1] = L[k] + 1 /\ b = v[k + 1]
  BY <1>2, <1>3 DEF Stands
<1>5. segment_start \in 1..position /\ verdict = "reading" /\ position \in Nat
  <2>1. segment_start \in 1..position
    BY DEF TokenInv, TextTypeOK
  <2>2. part = "string"
    BY DEF ReadByte, InString
  <2>3. verdict = "reading"
    BY <2>2 DEF TokenInv
  <2>4. position \in 1..Len(bytes) /\ Len(bytes) \in Nat
    BY <1>2
  <2>5. position \in Nat
    BY ONLY <2>4
  <2>6. QED
    BY ONLY <2>1, <2>3, <2>5
<1>6. taken \in Seq(Byte)
  <2>1. segment_start \in Int /\ position - 1 \in Int /\ \A i \in segment_start..(position - 1) : bytes[i] \in Byte
    <3>1. position \in 1..Len(bytes) /\ Len(bytes) \in Nat
      BY <1>2
    <3> DEFINE m == Len(bytes)
    <3> HIDE DEF m
    <3>3. position \in 1..m /\ m \in Nat
      BY <3>1 DEF m
    <3>4. segment_start \in Int /\ position - 1 \in Int /\ \A i \in segment_start..(position - 1) : i \in 1..m
      BY ONLY <3>3, <1>5
    <3>2. QED
      BY <1>2, <3>4 DEF m
  <2>2. QED
    BY <2>1, SubSeqProperties
<1>7. more = taken \o <<b>>
  <2>1. segment_start \in 1..Len(bytes) /\ position \in segment_start..Len(bytes)
    BY <1>2, <1>5
  <2>2. QED
    BY <1>2, <2>1, SubSeqRecursiveSecond
<1>8. Taken(position) = taken /\ Taken(position)' = more
  <2>1. (position + 1) - 1 = position
    BY <1>5
  <2>2. QED
    BY <1>1, <2>1 DEF Taken
<1> DEFINE e == <<b>>
<1>9. e \in Seq(Byte)
  BY <1>2
<1> HIDE DEF e, taken, more, b
<1>10. owned \o more = (owned \o taken) \o e
  <2>1. more = taken \o e
    BY <1>7 DEF e
  <2>2. (owned \o taken) \o e = owned \o (taken \o e)
    <3>1. owned \in Seq(Byte)
      BY DEF TokenInv, TextTypeOK
    <3>2. QED
      BY ONLY <1>6, <1>9, <3>1, BytesJoin, Zenon
  <2>3. QED
    BY <2>1, <2>2
<1>11. Spells(owned \o more, v, k + 1)
  <2>1. k \in Nat
    OBVIOUS
  <2>2. owned \o more = (owned \o taken) \o <<v[k + 1]>>
    BY <1>4, <1>10 DEF e
  <2>3. Spells(owned \o taken, v, k)
    BY <1>8
  <2>4. QED
    BY <1>3, <2>1, <2>2, <2>3, SpellsMore
<1>12. Spells((owned \o Taken(position))', v, k + 1)
  BY <1>1, <1>8, <1>11
<1>13. position' = L[k + 1] + 1 /\ owned' \in Seq(Byte) /\ verdict' = "reading"
  BY <1>1, <1>4, <1>5
<1>14. QED
  BY <1>1, <1>3, <1>12, <1>13 DEF Reread

\* Nothing the writer made is refused inside a string.
LEMMA NeverBad ==
    ASSUME NEW v \in Seq(Byte), NEW L, Script(bytes, v, L), NEW k \in 0..Len(v), position = L[k] + 1
    PROVE  ~BadString
<1>1. position \in 1..Len(bytes) /\ ByteAt(position) = bytes[position] /\ Len(bytes) \in Nat
  BY NextStands
<1>2. bytes[position] \notin 0..31
  <2>1. CASE bytes[position] = Quote
    BY <2>1 DEF Quote
  <2>2. CASE Stands(bytes, L[k], v[k + 1], L[k + 1])
    <3>1. \/ v[k + 1] \notin 0..31 /\ bytes[L[k] + 1] = v[k + 1]
          \/ bytes[L[k] + 1] = Backslash
      BY <2>2, Zenon DEF Stands
    <3>2. bytes[L[k] + 1] = bytes[position]
      OBVIOUS
    <3>3. Backslash \notin 0..31
      BY DEF Backslash
    <3>4. QED
      BY <3>1, <3>2, <3>3, Zenon
  <2>3. QED
    BY <2>1, <2>2, NextStands
<1>3. ByteAt(position) \notin 0..31 /\ ~(position > Len(bytes))
  <2>1. ByteAt(position) = bytes[position] /\ position \in 1..Len(bytes) /\ Len(bytes) \in Nat
    BY <1>1
  <2> DEFINE m == Len(bytes)
  <2> HIDE DEF m
  <2>2. position \in 1..m /\ m \in Nat
    BY <2>1 DEF m
  <2>3. ~(position > m)
    BY ONLY <2>2
  <2>4. QED
    BY <1>2, <2>1, <2>3, Zenon DEF m
<1>4. QED
  BY <1>3, Zenon DEF BadString

\* The four hexadecimal digits of a control character.
LEMMA QuadStands ==
    ASSUME NEW p \in Nat, NEW n \in Nat, n = Len(bytes), p + 3 <= n,
           NEW b \in 0..31, NEW x, x = b \div 16, NEW y, y = b % 16,
           hex_value(bytes[p]) = 0, hex_value(bytes[p + 1]) = 0,
           hex_value(bytes[p + 2]) = x, hex_value(bytes[p + 3]) = y
    PROVE  parse_hex_quad(p) = b
<1>1. x \in 0..15 /\ y \in 0..15 /\ 16 * x + y = b
  OBVIOUS
<1>2. \A j \in p..(p + 3) : j = p \/ j = p + 1 \/ j = p + 2 \/ j = p + 3
  BY ONLY p \in Nat
<1>3. x # -1 /\ y # -1 /\ 0 # -1
  BY ONLY <1>1
<1>4. ~\E j \in p..(p + 3) : hex_value(bytes[j]) = -1
  BY <1>2, <1>3, Zenon
<1>5. ~(p + 3 > n)
  BY ONLY p \in Nat, n \in Nat, p + 3 <= n
<1>6. parse_hex_quad(p) = 4096 * 0 + 256 * 0 + 16 * x + y
  <2>1. ~(p + 3 > Len(bytes) \/ \E j \in p..(p + 3) : hex_value(bytes[j]) = -1)
    BY <1>4, <1>5, Zenon
  <2>2. parse_hex_quad(p) = 4096 * hex_value(bytes[p]) + 256 * hex_value(bytes[p + 1])
                            + 16 * hex_value(bytes[p + 2]) + hex_value(bytes[p + 3])
    BY <2>1, Zenon DEF parse_hex_quad
  <2>3. /\ hex_value(bytes[p]) = 0 /\ hex_value(bytes[p + 1]) = 0
        /\ hex_value(bytes[p + 2]) = x /\ hex_value(bytes[p + 3]) = y
    OBVIOUS
  <2>4. QED
    BY ONLY <2>2, <2>3
<1>7. 4096 * 0 + 256 * 0 + 16 * x + y = b
  BY ONLY <1>1
<1>8. QED
  BY <1>6, <1>7

\* A control character is one byte of UTF-8, and no surrogate.
OneByte(b) ==
    /\ append_utf8(b) = <<b>>
    /\ ~(b = -1 \/ b \in 56320..57343)
    /\ ~(b \in Surrogate)

LEMMA ControlIsOneByte == ASSUME NEW b \in 0..31 PROVE OneByte(b)
BY SMTT(30) DEF OneByte, append_utf8, Surrogate

\* What the cursor makes of the escape that stands for a byte of v.
LEMMA EscapeStands ==
    ASSUME NEW v \in Seq(Byte), NEW L, Script(bytes, v, L), NEW k \in 0..Len(v), position = L[k] + 1,
           ByteAt(position) = Backslash
    PROVE  /\ k + 1 \in 1..Len(v) /\ k + 1 \in 0..Len(v) /\ L[k + 1] \in Nat
           /\ EscapeAt(position) = Escape("none", <<v[k + 1]>>, L[k + 1] + 1)
<1> DEFINE q == L[k + 1]
           b == v[k + 1]
<1>1. bytes[position] = Backslash /\ bytes[position] # Quote
  BY NextStands DEF Quote, Backslash
<1>2. /\ k + 1 \in 1..Len(v) /\ k + 1 \in 0..Len(v) /\ b \in Byte /\ q \in Nat /\ q < Len(bytes)
      /\ Stands(bytes, L[k], b, q)
  BY <1>1, NextStands
<1>3. position \in 1..Len(bytes) /\ Len(bytes) \in Nat /\ bytes \in Seq(Byte) /\ L[k] \in Nat /\ L[k] + 1 = position
  BY NextStands
<1> DEFINE c == bytes[position + 1]
<1>4. q # L[k] + 1 \/ b \in Lettered \cup 0..31 \/ bytes[L[k] + 1] # b
  BY <1>1, <1>3 DEF Lettered
<1>5. CASE /\ q = L[k] + 2
           /\ bytes[L[k] + 2] \in {Quote, Backslash, 98, 102, 110, 114, 116} /\ Unescaped(bytes[L[k] + 2]) = b
  <2>1. position + 1 = L[k] + 2 /\ position + 1 <= Len(bytes) /\ position + 1 \in 1..Len(bytes) /\ q + 1 = position + 2
    <3>1. position \in Nat /\ Len(bytes) \in Nat /\ L[k] \in Nat /\ L[k] + 1 = position /\ q \in Nat /\ q < Len(bytes)
          /\ q = L[k] + 2
      BY <1>2, <1>3, <1>5
    <3> HIDE DEF q
    <3>2. QED
      BY ONLY <3>1
  <2>2. c \in {Quote, Backslash, 98, 102, 110, 114, 116} /\ Unescaped(c) = b
    BY <1>5, <2>1
  <2>3. ByteAt(position + 1) = c
    BY <1>3, <2>1 DEF ByteAt
  <2>4. ~(position + 1 > Len(bytes)) /\ c \in {Quote, Backslash, 47, 98, 102, 110, 114, 116}
    BY <1>3, <2>1, <2>2, SMTT(30)
  <2> HIDE DEF c
  <2>5. EscapeAt(position) = Escape("none", <<Unescaped(c)>>, position + 2)
    BY <2>3, <2>4 DEF EscapeAt
  <2>6. QED
    BY <1>2, <2>1, <2>2, <2>5
<1>6. CASE /\ b \in 0..31
           /\ q = L[k] + 6 /\ bytes[L[k] + 2] = 117
           /\ hex_value(bytes[L[k] + 3]) = 0 /\ hex_value(bytes[L[k] + 4]) = 0
           /\ hex_value(bytes[L[k] + 5]) = b \div 16 /\ hex_value(bytes[L[k] + 6]) = b % 16
  <2> DEFINE h == parse_hex_quad(position + 2)
             p == position + 2
             x == b \div 16
             y == b % 16
  <2>1. b \in 0..31 /\ q = L[k] + 6
    BY <1>6, Zenon
  <2>2. /\ bytes[L[k] + 2] = 117 /\ hex_value(bytes[L[k] + 3]) = 0 /\ hex_value(bytes[L[k] + 4]) = 0
        /\ hex_value(bytes[L[k] + 5]) = x /\ hex_value(bytes[L[k] + 6]) = y
    BY <1>6, Zenon
  <2>3. x = b \div 16 /\ y = b % 16
    OBVIOUS
  <2> HIDE DEF p, x, y, q, b, c, h
  <2>4. /\ position + 1 = L[k] + 2 /\ position + 1 <= Len(bytes) /\ position + 1 \in 1..Len(bytes)
        /\ q + 1 = position + 6
    <3>1. position \in Nat /\ Len(bytes) \in Nat /\ L[k] \in Nat /\ L[k] + 1 = position /\ q \in Nat /\ q < Len(bytes)
      BY <1>2, <1>3
    <3> DEFINE l == L[k]
               m == Len(bytes)
    <3>2. position \in Nat /\ m \in Nat /\ l \in Nat /\ l + 1 = position /\ q < m /\ q = l + 6
      BY <2>1, <3>1
    <3> HIDE DEF l, m
    <3>3. position + 1 = l + 2 /\ position + 1 <= m /\ position + 1 \in 1..m /\ q + 1 = position + 6
      BY ONLY <3>2
    <3>4. QED
      BY <3>3 DEF l, m
  <2>5. p \in Nat /\ p + 3 <= Len(bytes) /\ p = L[k] + 3 /\ p + 1 = L[k] + 4 /\ p + 2 = L[k] + 5 /\ p + 3 = L[k] + 6
    <3>1. p = position + 2
      BY DEF p
    <3>2. position \in 1..Len(bytes) /\ Len(bytes) \in Nat /\ L[k] \in Nat /\ L[k] + 1 = position /\ q \in Nat /\ q < Len(bytes)
      BY <1>2, <1>3
    <3> DEFINE l == L[k]
               n == Len(bytes)
    <3>3. position \in Nat /\ n \in Nat /\ l \in Nat /\ l + 1 = position /\ q < n /\ q = l + 6
      BY <2>1, <3>2
    <3> HIDE DEF l, n
    <3>4. p \in Nat /\ p + 3 <= n /\ p = l + 3 /\ p + 1 = l + 4 /\ p + 2 = l + 5 /\ p + 3 = l + 6
      BY ONLY <3>1, <3>3, <3>2
    <3>5. QED
      BY <3>4 DEF l, n
  <2>6. h = b
    <3>1. /\ hex_value(bytes[p]) = 0 /\ hex_value(bytes[p + 1]) = 0
          /\ hex_value(bytes[p + 2]) = x /\ hex_value(bytes[p + 3]) = y
      BY <2>2, <2>5, Zenon
    <3>2. parse_hex_quad(p) = b
      <4> DEFINE n == Len(bytes)
      <4>1. n \in Nat /\ n = Len(bytes) /\ p + 3 <= n
        BY <1>3, <2>5
      <4> HIDE DEF n
      <4>2. QED
        BY <2>1, <2>3, <2>5, <3>1, <4>1, QuadStands
    <3>3. QED
      BY <3>2 DEF h, p
  <2>7. c = 117 /\ ByteAt(position + 1) = c
    <3>1. ByteAt(position + 1) = c
      BY <1>3, <2>4 DEF ByteAt, c
    <3>2. QED
      BY <2>2, <2>4, <3>1, Zenon DEF c
  <2>8. /\ ~(position + 1 > Len(bytes))
        /\ ByteAt(position + 1) \notin {Quote, Backslash, 47, 98, 102, 110, 114, 116} /\ ~(ByteAt(position + 1) # 117)
    <3>1. ~(position + 1 > Len(bytes))
      <4>1. position + 1 <= Len(bytes) /\ position \in 1..Len(bytes) /\ Len(bytes) \in Nat
        BY <1>3, <2>4
      <4> DEFINE m == Len(bytes)
      <4> HIDE DEF m
      <4>2. position + 1 <= m /\ position \in 1..m /\ m \in Nat
        BY <4>1 DEF m
      <4>3. ~(position + 1 > m)
        BY ONLY <4>2
      <4>4. QED
        BY <4>3 DEF m
    <3>2. QED
      BY <2>7, <3>1 DEF Quote, Backslash
  <2>9. OneByte(h)
    <3>1. h \in 0..31
      BY <2>1, <2>6
    <3>2. \A n \in 0..31 : OneByte(n)
      BY ControlIsOneByte
    <3>3. QED
      BY ONLY <3>1, <3>2
  <2>10. EscapeAt(position) = Escape("none", append_utf8(h), position + 6)
    <3>1. ~(h = -1 \/ h \in 56320..57343) /\ ~(h \in Surrogate)
      BY ONLY <2>9, SMT DEF OneByte
    <3>2. QED
      BY ONLY <2>8, <3>1, SMT DEF EscapeAt, h
  <2>11. append_utf8(h) = <<b>>
    BY ONLY <2>6, <2>9, SMT DEF OneByte
  <2>12. QED
    BY <1>2, <2>4, <2>10, <2>11 DEF q, b
<1>7. QED
  BY <1>2, <1>4, <1>5, <1>6, Zenon DEF Stands

LEMMA RereadEscape ==
    ASSUME TokenInv, NEW v \in Writable, NEW L, Script(bytes, v, L), ReadEscape,
           owned \in Seq(Byte), NEW k \in 0..Len(v), position = L[k] + 1,
           Spells(owned \o Taken(position), v, k)
    PROVE  Reread(v, L)'
<1> DEFINE escape == EscapeAt(position)
           b == v[k + 1]
           G == owned \o Taken(position)
           whole == G \o escape.spelt
           next == L[k + 1] + 1
<1>1. v \in Seq(Byte) /\ Len(v) <= MaximumString /\ MaximumString \in Nat
  BY WritableAre, TextAssumption
<1>2. ByteAt(position) = Backslash /\ part = "string"
  BY DEF ReadEscape, InString
<1>3. verdict = "reading"
  BY <1>2 DEF TokenInv
<1>4. /\ k + 1 \in 1..Len(v) /\ k + 1 \in 0..Len(v) /\ L[k + 1] \in Nat
      /\ escape = Escape("none", <<b>>, next)
  BY <1>1, <1>2, EscapeStands
<1>5. escape.code = "none" /\ escape.spelt = <<b>> /\ escape.next = next /\ next \in Nat
  BY <1>4 DEF Escape
<1>6. whole = G \o <<b>>
  BY <1>5
<1>7. Spells(whole, v, k + 1)
  <2>1. k \in Nat
    OBVIOUS
  <2> HIDE DEF G, whole
  <2>2. Spells(G, v, k)
    BY DEF G
  <2>3. QED
    BY <1>1, <1>4, <1>6, <2>1, <2>2, SpellsMore
<1>8. Len(whole) <= MaximumString
  <2>1. Len(whole) = k + 1 /\ k + 1 \in 1..Len(v) /\ Len(v) \in Nat
    <3>1. Len(whole) = k + 1
      BY <1>7, Zenon DEF Spells
    <3>2. Len(v) \in Nat
      BY <1>1
    <3>3. QED
      BY <1>4, <3>1, <3>2, Zenon
  <2> DEFINE m == Len(v)
             w == Len(whole)
  <2> HIDE DEF m, w
  <2>2. w = k + 1 /\ k + 1 \in 1..m /\ m \in Nat /\ m <= MaximumString /\ MaximumString \in Nat
    BY <1>1, <2>1 DEF m, w
  <2>3. w <= MaximumString
    BY ONLY <2>2
  <2>4. QED
    BY <2>3 DEF w
<1>9. /\ owned' = whole /\ position' = next /\ segment_start' = next
      /\ bytes' = bytes /\ part' = "string" /\ verdict' = "reading"
  BY <1>2, <1>3, <1>5, <1>8 DEF ReadEscape, givenVars
<1> HIDE DEF G, whole, next
<1>10. Taken(position)' = <<>>
  <2>1. next - 1 < next /\ next \in Int /\ next - 1 \in Int
    BY ONLY <1>5
  <2>2. SubSeq(bytes, next, next - 1) = <<>>
    BY <2>1, SubSeqEmpty
  <2>3. QED
    BY <1>9, <2>2 DEF Taken
<1>11. whole \in Seq(Byte) /\ whole \o <<>> = whole
  BY <1>7, ConcatEmptySeq DEF Spells
<1>12. (owned \o Taken(position))' = whole
  BY <1>9, <1>10, <1>11
<1>13. position' = L[k + 1] + 1 /\ owned' \in Seq(Byte)
  BY <1>9, <1>11 DEF next
<1>14. Spells((owned \o Taken(position))', v, k + 1)
  BY <1>7, <1>12
<1>15. QED
  BY <1>4, <1>9, <1>13, <1>14 DEF Reread

LEMMA RereadClose ==
    ASSUME TokenInv, wanted = "string", rule.kind = "none",
           NEW v \in Writable, NEW L, Script(bytes, v, L), CloseString,
           NEW k \in 0..Len(v), position = L[k] + 1,
           Spells(owned \o Taken(position), v, k)
    PROVE  Reread(v, L)'
<1> DEFINE whole == owned \o Taken(position)
<1>1. v \in Seq(Byte) /\ Len(v) <= MaximumString
  BY WritableAre
<1>2. ByteAt(position) = Quote /\ part = "string"
  BY DEF CloseString, InString
<1>3. bytes[position] = Quote
  BY <1>1, <1>2, NextStands
<1>4. ~Stands(bytes, L[k], v[k + 1], L[k + 1])
  <2>1. SUFFICES ASSUME Stands(bytes, L[k], v[k + 1], L[k + 1]) PROVE FALSE
    OBVIOUS
  <2>2. \/ v[k + 1] \notin Lettered \cup 0..31 /\ bytes[L[k] + 1] = v[k + 1]
        \/ bytes[L[k] + 1] = Backslash
    BY <2>1, Zenon DEF Stands
  <2>3. bytes[L[k] + 1] = Quote
    BY <1>3
  <2>4. Quote \in Lettered /\ Quote # Backslash
    BY DEF Lettered, Quote, Backslash
  <2>5. QED
    BY <2>2, <2>3, <2>4, Zenon
<1>5. k = Len(v) /\ Len(bytes) = position /\ position \in 1..Len(bytes)
  BY <1>1, <1>4, NextStands
<1>6. whole = v
  <2>1. whole \in Seq(Byte) /\ Len(whole) = Len(v) /\ \A i \in 1..Len(whole) : whole[i] = v[i]
    BY <1>5, Zenon DEF Spells
  <2> HIDE DEF whole
  <2>2. QED
    BY <1>1, <2>1, SeqEqual
<1>7. SatisfiesRule(v)
  BY Zenon DEF SatisfiesRule
<1>8. ~(Len(whole) > MaximumString) /\ ~(wanted = "string_view" /\ owns_value)
  <2>1. ~(Len(v) > MaximumString)
    <3>1. Len(v) \in Nat /\ MaximumString \in Nat
      BY <1>1, TextAssumption
    <3>2. QED
      BY <1>1, <3>1
  <2>2. QED
    BY <1>6, <2>1, Zenon
<1>9. CASE valid_utf8(v)
  <2>1. valid_utf8(whole)
    BY <1>6, <1>9
  <2>2. Finish(whole, position + 1)
    BY <1>8, <2>1, Zenon DEF CloseString
  <2>3. /\ verdict' = "accepted" /\ part' = "end" /\ parsed' = v /\ position' = position + 1
        /\ bytes' = bytes
    BY <1>6, <1>7, <2>2, Zenon DEF Finish, givenVars
  <2>4. position' = Len(bytes') + 1
    BY <1>5, <2>3
  <2>5. QED
    BY <1>9, <2>3, <2>4 DEF Reread, Whole
<1>10. CASE ~valid_utf8(v)
  <2>1. ~valid_utf8(whole)
    BY <1>6, <1>10
  <2>2. Refuse("invalid_utf8")
    BY <1>8, <2>1, Zenon DEF CloseString
  <2>3. verdict' = "invalid_utf8" /\ part' = "end"
    BY <2>2, Zenon DEF Refuse
  <2>4. QED
    BY <1>10, <2>3, Zenon DEF Reread
<1>11. QED
  BY <1>9, <1>10

\* The reader has v, as far as it has read what the writer made of it.
LEMMA RereadStep ==
    ASSUME TokenInv, wanted = "string", rule.kind = "none",
           NEW v \in Writable, NEW L, Script(bytes, v, L), Reread(v, L), [TextNext]_textVars
    PROVE  Reread(v, L)'
<1>1. v \in Seq(Byte)
  BY WritableAre
<1>2. CASE UNCHANGED textVars
  <2>1. Reread(v, L)' <=> Reread(v, L)
    BY <1>2 DEF textVars, Reread, Whole, Taken
  <2>2. QED
    BY <2>1
<1>3. CASE TextNext
  <2>1. part \in {"open", "string", "end"}
    BY DEF TokenInv, StringLike
  <2>2. \/ OpenString \/ ReadByte \/ BadString \/ ReadEscape \/ CloseString
    BY <1>3, <2>1, Zenon DEF TextNext, ReadInteger, ReadFraction, ReadExponent, Convert
  <2>3. CASE OpenString
    BY <1>1, <2>3, RereadOpens
  <2>4. CASE ~OpenString
    <3>1. part = "string"
      BY <2>2, <2>4, Zenon DEF ReadByte, BadString, ReadEscape, CloseString, InString
    <3>2. PICK k \in 0..Len(v) : position = L[k] + 1 /\ Spells(owned \o Taken(position), v, k)
      BY <3>1 DEF Reread
    <3>3. owned \in Seq(Byte)
      BY <3>1 DEF Reread
    <3>4. ~BadString
      BY <1>1, <3>2, NeverBad
    <3>5. CASE ReadByte
      BY <1>1, <3>2, <3>3, <3>5, RereadByte
    <3>6. CASE ReadEscape
      BY <3>2, <3>3, <3>6, RereadEscape
    <3>7. CASE CloseString
      BY <3>2, <3>7, RereadClose
    <3>8. QED
      BY <2>2, <2>4, <3>4, <3>5, <3>6, <3>7
  <2>5. QED
    BY <2>3, <2>4
<1>4. QED
  BY <1>2, <1>3

LEMMA AlwaysReread == TextSpec => [](TokenInv /\ RereadInv)
<1>1. TextInit => RereadInv
  BY DEF TextInit, TextStart, RereadInv, Reread, StringLike
<1>2. TokenInv /\ RereadInv /\ [TextNext]_textVars => RereadInv'
  <2> SUFFICES ASSUME TokenInv, RereadInv, [TextNext]_textVars, wanted' = "string", rule'.kind = "none",
                      NEW v \in Writable, NEW L, Script(bytes', v, L)
               PROVE  Reread(v, L)'
    BY DEF RereadInv
  <2>1. bytes' = bytes /\ wanted' = wanted /\ rule' = rule
    BY DEF TextNext, textVars, givenVars, OpenString, ReadByte, BadString, ReadEscape, CloseString,
           ReadInteger, ReadFraction, ReadExponent, Convert, Refuse, Finish, GoOn
  <2>2. wanted = "string" /\ rule.kind = "none" /\ Script(bytes, v, L)
    BY <2>1
  <2>3. Reread(v, L)
    BY <2>2 DEF RereadInv
  <2>4. QED
    BY <2>2, <2>3, RereadStep
<1>3. QED
  BY <1>1, <1>2, TokenAlwaysInv, PTL DEF TextSpec

\* Whatever bytes a string holds, and whichever of them the writer escapes, what
\* append_escaped_string makes of it is read back as that string, to its last byte, or
\* refused for the one reason that the string is not UTF-8.
THEOREM WriterIsReread == TextSpec => []WrittenIsRead
<1>1. TokenInv /\ RereadInv => WrittenIsRead
  <2> SUFFICES ASSUME TokenInv, RereadInv, verdict # "reading", rule.kind = "none", wanted = "string",
                      NEW v \in Writable, Written[v] = bytes
               PROVE  IF valid_utf8(v) THEN Whole /\ parsed = v ELSE verdict = "invalid_utf8"
    BY DEF WrittenIsRead
  <2>1. v \in Seq(Byte)
    BY WritableAre
  <2>2. append_escaped_string(v) = bytes
    BY DEF Written
  <2>3. PICK L : Script(bytes, v, L)
    BY <2>1, <2>2, WrittenStands
  <2>4. Reread(v, L)
    BY <2>3 DEF RereadInv
  <2>5. QED
    BY <2>4 DEF Reread
<1>2. QED
  BY <1>1, AlwaysReread, PTL

-----------------------------------------------------------------------------
(* Numbers and their bounds.                                               *)

LEMMA DistanceType ==
    ASSUME NEW a \in Int, NEW b \in Int
    PROVE  /\ Distance(a, b) \in Nat
           /\ Distance(a, b) = 0 <=> a = b
BY DEF Distance

\* There is a double that is nearest.
LEMMA NearestExists == ASSUME NEW n \in Int PROVE ToDouble(n) \in Nearest(n)
<1> DEFINE D == {k \in Nat : \E d \in Doubles : k = Distance(n, d)}
<1>1. \A d \in Doubles : d \in Int /\ Distance(n, d) \in D
  BY TextAssumption, DistanceType
<1>2. D # {} /\ D \in SUBSET Nat
  BY <1>1, TextAssumption
<1>3. PICK k \in D : \A r \in D : k <= r
  <2> HIDE DEF D
  <2>1. QED
    BY <1>2, FirstPosition
<1>4. PICK d \in Doubles : k = Distance(n, d)
  BY <1>3
<1>5. d \in Nearest(n)
  <2> HIDE DEF D
  <2>1. QED
    BY <1>1, <1>3, <1>4 DEF Nearest
<1>6. \E e \in Nearest(n) : Nearest(n) \cap Even # {} => e \in Even
  <2>1. CASE Nearest(n) \cap Even # {}
    BY <2>1
  <2>2. CASE Nearest(n) \cap Even = {}
    BY <1>5, <2>2
  <2>3. QED
    BY <2>1, <2>2
<1>7. QED
  BY <1>6, Zenon DEF ToDouble

\* Rounding keeps the order.
LEMMA RoundingIsMonotone ==
    ASSUME NEW a \in Int, NEW b \in Int, a <= b
    PROVE  ToDouble(a) \in Int /\ ToDouble(b) \in Int /\ ToDouble(a) <= ToDouble(b)
<1> DEFINE x == ToDouble(a)
           y == ToDouble(b)
<1>1. x \in Nearest(a) /\ y \in Nearest(b)
  BY NearestExists
<1> HIDE DEF x, y
<1>2. x \in Doubles /\ y \in Doubles /\ x \in Int /\ y \in Int
  BY <1>1, TextAssumption DEF Nearest
<1>3. Distance(a, x) <= Distance(a, y) /\ Distance(b, y) <= Distance(b, x)
  BY <1>1, <1>2, Zenon DEF Nearest
<1>4. a # b => x <= y
  BY ONLY <1>2, <1>3, a \in Int, b \in Int, a <= b DEF Distance
<1>5. a = b => x = y
  BY DEF x, y
<1>6. x <= y
  BY ONLY <1>2, <1>4, <1>5
<1>7. QED
  BY <1>2, <1>6 DEF x, y

\* A double is rounded to itself.
LEMMA DoublesAreExact == ASSUME NEW n \in Doubles PROVE ToDouble(n) = n
<1>1. n \in Int /\ ToDouble(n) \in Nearest(n)
  BY NearestExists, TextAssumption
<1>2. ToDouble(n) \in Doubles /\ ToDouble(n) \in Int /\ Distance(n, ToDouble(n)) <= Distance(n, n)
  BY <1>1, TextAssumption DEF Nearest
<1>3. Distance(n, n) = 0 /\ Distance(n, ToDouble(n)) \in Nat
  BY <1>1, <1>2, DistanceType
<1>4. Distance(n, ToDouble(n)) = 0
  BY <1>2, <1>3
<1>5. QED
  BY <1>1, <1>2, <1>4, DistanceType

LEMMA DecimalType == ASSUME NEW s \in Seq(Byte) PROVE Decimal(s) \in Int
<1> DEFINE n == Len(s)
           G(f) == [k \in 0..n |-> IF k = 0 THEN 0 ELSE f[k - 1] * 10 + (s[k] - 48)]
           step == [k \in 1..n |-> [t \in Int |-> t * 10 + (s[k] - 48)]]
<1>1. n \in Nat /\ \A k \in 1..n : s[k] \in Int
  <2>1. n \in Nat /\ \A k \in 1..n : s[k] \in Byte
    OBVIOUS
  <2>2. \A b \in Byte : b \in Int
    BY DEF Byte
  <2>3. QED
    BY <2>1, <2>2
<1>2. step \in Advances(Int, n)
  BY <1>1 DEF Advances
<1>3. PICK f : Solves(f, Int, n, 0, step)
  <2> DEFINE T == Int
             first == 0
  <2>1. n \in Nat /\ first \in T /\ step \in Advances(T, n)
    BY <1>1, <1>2
  <2> HIDE DEF n, step, T, first
  <2>2. \E f : Solves(f, T, n, first, step)
    BY <2>1, Recursion
  <2>3. QED
    BY <2>2 DEF T, first
<1>4. f \in [0..n -> Int] /\ f[0] = 0 /\ \A k \in 1..n : f[k] = step[k][f[k - 1]]
  BY <1>3 DEF Solves
<1>5. \A k \in 1..n : f[k] = f[k - 1] * 10 + (s[k] - 48)
  <2>1. TAKE k \in 1..n
  <2>2. k - 1 \in 0..n
    BY <1>1
  <2>3. f[k - 1] \in Int
    BY <1>4, <2>2
  <2>4. QED
    BY <1>4, <2>3
<1>6. f = G(f)
  <2>1. \A k \in 0..n : f[k] = IF k = 0 THEN 0 ELSE f[k - 1] * 10 + (s[k] - 48)
    <3>1. TAKE k \in 0..n
    <3>2. k = 0 \/ (k \in 1..n /\ k # 0)
      BY <1>1
    <3>3. QED
      BY <1>4, <1>5, <3>2
  <2>2. QED
    BY <1>4, <2>1
<1> DEFINE S == CHOOSE g : g = G(g)
<1>7. Decimal(s) = S[n]
  BY DEF Decimal
<1>8. S = G(S)
  <2> HIDE DEF G
  <2>1. QED
    BY <1>6
<1> HIDE DEF S
<1>9. S[0] = 0 /\ \A k \in 1..n : S[k] = S[k - 1] * 10 + (s[k] - 48)
  <2>1. S = [k \in 0..n |-> IF k = 0 THEN 0 ELSE S[k - 1] * 10 + (s[k] - 48)]
    BY <1>8
  <2>2. \A k \in 0..n : S[k] = IF k = 0 THEN 0 ELSE S[k - 1] * 10 + (s[k] - 48)
    BY ONLY <2>1, Zenon
  <2>3. 0 \in 0..n /\ \A k \in 1..n : k \in 0..n /\ k # 0
    BY <1>1
  <2>4. QED
    BY ONLY <2>2, <2>3, Zenon
<1> DEFINE D == {k \in 0..n : S[k] \notin Int}
<1>10. D = {}
  <2>1. SUFFICES ASSUME D # {} PROVE FALSE
    OBVIOUS
  <2>2. PICK k \in D : \A r \in D : k <= r
    <3>1. D \in SUBSET Nat
      BY <1>1
    <3> HIDE DEF D
    <3>2. QED
      BY <2>1, <3>1, FirstPosition
  <2>3. k \in 0..n /\ k # 0
    BY <1>9, <2>2
  <2>4. k \in 1..n /\ k - 1 \in 0..n /\ ~(k <= k - 1)
    BY <1>1, <2>3
  <2>5. k - 1 \notin D
    <3> HIDE DEF D
    <3>1. QED
      BY <2>2, <2>4
  <2>6. S[k - 1] \in Int /\ s[k] \in Int /\ S[k] = S[k - 1] * 10 + (s[k] - 48)
    BY <1>1, <1>9, <2>4, <2>5
  <2>7. S[k] \in Int
    BY ONLY <2>6, SMTT(30)
  <2>8. QED
    BY <2>2, <2>7
<1>11. S[n] \in Int
  BY <1>1, <1>10
<1>12. QED
  BY <1>7, <1>11

\* Once its digits are read, the number is an integer; and whether its field took it
\* is what the rule says of it.
BoundInv ==
    /\ rule \in Rule
    /\ part \in {"open", "string"} => wanted \in StringLike
    /\ part = "integer" => position = 1
    /\ part \in {"fraction", "exponent", "convert"} => Number \in Int
    /\ verdict \in {"accepted", "constraint_failed"} /\ wanted \in {"signed", "unsigned"} =>
          Number \in Int /\ (verdict = "accepted" <=> SatisfiesRule(Number))

LEMMA NumberType ==
    ASSUME TokenInv, ByteAt(Leading) \in Digit
    PROVE  Number \in Int
<1> DEFINE last == Digits(Leading) - 1
           digits == SubSeq(bytes, Leading, last)
<1>1. Leading \in Nat /\ Leading \in {1, 2}
  BY DEF Leading
<1>2. Leading \in 1..Len(bytes) /\ bytes \in Seq(Byte) /\ Len(bytes) \in Nat
  BY <1>1, DigitInside DEF TokenInv
<1>3. Digits(Leading) \in Leading..(Len(bytes) + 1)
  <2>1. Leading \in 1..(Len(bytes) + 1)
    BY <1>2
  <2>2. QED
    BY <2>1, DigitsType
<1>4. Leading \in Int /\ last \in Int /\ \A i \in Leading..last : i \in 1..Len(bytes)
  BY <1>1, <1>2, <1>3
<1>5. digits \in Seq(Byte)
  <2>1. \A i \in Leading..last : bytes[i] \in Byte
    BY <1>2, <1>4
  <2>2. QED
    BY <1>4, <2>1, SubSeqProperties
<1>6. Decimal(digits) \in Int
  <2> HIDE DEF digits
  <2>1. QED
    BY <1>5, DecimalType
<1> DEFINE d == Decimal(digits)
<1>7. Number = (IF ByteAt(1) = 45 THEN -1 ELSE 1) * d
  BY DEF Number
<1>8. d \in Int
  BY <1>6
<1> HIDE DEF d
<1>9. QED
  BY <1>7, <1>8

\* Nothing changes what is read, or the number in it.
LEMMA GivenStays ==
    ASSUME [TextNext]_textVars
    PROVE  bytes' = bytes /\ wanted' = wanted /\ rule' = rule /\ Number' = Number
<1>1. bytes' = bytes /\ wanted' = wanted /\ rule' = rule
  BY DEF TextNext, textVars, givenVars, OpenString, ReadByte, BadString, ReadEscape, CloseString,
         ReadInteger, ReadFraction, ReadExponent, Convert, Refuse, Finish, GoOn
<1>2. QED
  BY <1>1 DEF Number, Leading, Digits, ByteAt

LEMMA BoundKeeps == ASSUME TokenInv, BoundInv, [TextNext]_textVars PROVE BoundInv'
<1>1. /\ bytes' = bytes /\ wanted' = wanted /\ rule' = rule /\ Number' = Number
      /\ SatisfiesRule(Number)' <=> SatisfiesRule(Number)
  <2>1. bytes' = bytes /\ wanted' = wanted /\ rule' = rule /\ Number' = Number
    BY GivenStays
  <2>2. SatisfiesRule(Number)' <=> SatisfiesRule(Number)
    BY <2>1 DEF SatisfiesRule
  <2>3. QED
    BY <2>1, <2>2
<1>2. part = "end" \/ verdict = "reading"
  BY DEF TokenInv
<1>3. CASE UNCHANGED textVars
  BY <1>1, <1>3 DEF BoundInv, textVars
<1>4. ASSUME NEW code, Refuse(code), code \notin {"accepted", "constraint_failed"} PROVE BoundInv'
  BY <1>1, <1>4 DEF BoundInv, Refuse
<1>5. ASSUME NEW to, NEW p, GoOn(to, p), verdict = "reading",
             \/ to = "string" /\ part = "string"
             \/ to \in {"fraction", "exponent", "convert"} /\ Number \in Int
      PROVE  BoundInv'
  BY <1>1, <1>5 DEF BoundInv, GoOn
<1>6. CASE OpenString
  <2>1. CASE Refuse("expected_string")
    BY <1>4, <2>1
  <2>2. CASE ~Refuse("expected_string")
    BY <1>1, <1>2, <1>6, <2>2 DEF BoundInv, OpenString
  <2>3. QED
    BY <2>1, <2>2
<1>7. CASE ReadByte
  BY <1>2, <1>5, <1>7 DEF ReadByte, InString
<1>8. CASE BadString
  BY <1>4, <1>8 DEF BadString
<1>9. CASE ReadEscape
  <2> DEFINE escape == EscapeAt(position)
  <2>1. CASE escape.code # "none"
    <3>1. escape.code \notin {"accepted", "constraint_failed"}
      BY DEF EscapeAt, Escape
    <3>2. QED
      BY <1>4, <1>9, <2>1, <3>1 DEF ReadEscape
  <2>2. CASE Refuse("string_too_large")
    BY <1>4, <2>2
  <2>3. CASE escape.code = "none" /\ ~Refuse("string_too_large")
    <3>1. part' = part /\ verdict' = verdict /\ part = "string"
      BY <1>9, <2>3, Zenon DEF ReadEscape, InString
    <3>2. QED
      BY <1>1, <1>2, <3>1 DEF BoundInv
  <2>4. QED
    BY <2>1, <2>2, <2>3
<1>10. CASE CloseString
  <2>1. wanted \in StringLike
    BY <1>10 DEF BoundInv, CloseString, InString
  <2>2. part' = "end"
    BY <1>10 DEF CloseString, Finish, Refuse
  <2>3. QED
    BY <1>1, <2>1, <2>2 DEF BoundInv, StringLike
<1>11. CASE ReadInteger
  <2>1. CASE Refuse("invalid_number")
    BY <1>4, <2>1
  <2>2. CASE ~Refuse("invalid_number")
    <3>1. position = 1 /\ verdict = "reading"
      BY <1>2, <1>11 DEF BoundInv, ReadInteger
    <3>2. ByteAt(Leading) \in Digit /\ GoOn("fraction", Digits(Leading))
      BY <1>11, <2>2, <3>1 DEF ReadInteger, Leading
    <3>3. Number \in Int
      BY <3>2, NumberType
    <3>4. QED
      BY <1>5, <3>1, <3>2, <3>3
  <2>3. QED
    BY <2>1, <2>2
<1>12. CASE ReadFraction
  <2>1. verdict = "reading" /\ Number \in Int
    BY <1>2, <1>12 DEF BoundInv, ReadFraction
  <2>2. Refuse("invalid_number") \/ \E p : GoOn("exponent", p)
    BY <1>12 DEF ReadFraction
  <2>3. QED
    BY <1>4, <1>5, <2>1, <2>2
<1>13. CASE ReadExponent
  <2>1. verdict = "reading" /\ Number \in Int
    BY <1>2, <1>13 DEF BoundInv, ReadExponent
  <2>2. Refuse("invalid_number") \/ \E p : GoOn("convert", p)
    BY <1>13 DEF ReadExponent
  <2>3. QED
    BY <1>4, <1>5, <2>1, <2>2
<1>14. CASE Convert
  <2>1. Number \in Int
    BY <1>14 DEF BoundInv, Convert
  <2>2. CASE wanted = "double"
    <3>1. part' = "end"
      BY <1>14, <2>2 DEF Convert, Finish, Refuse
    <3>2. QED
      BY <1>1, <2>2, <3>1 DEF BoundInv
  <2>3. CASE Refuse("invalid_number") \/ Refuse("number_out_of_range")
    BY <1>4, <2>3
  <2>4. CASE Finish(Number, position)
    <3>1. part' = "end" /\ (verdict' = "accepted" <=> SatisfiesRule(Number))
      BY <2>4 DEF Finish, Refuse
    <3>2. QED
      BY <1>1, <2>1, <3>1 DEF BoundInv
  <2>5. QED
    BY <1>14, <2>2, <2>3, <2>4 DEF Convert
<1>15. QED
  BY <1>3, <1>6, <1>7, <1>8, <1>9, <1>10, <1>11, <1>12, <1>13, <1>14 DEF TextNext

LEMMA BoundAlways == TextSpec => [](TokenInv /\ BoundInv)
<1>1. TextInit => BoundInv
  BY DEF TextInit, TextStart, BoundInv, StringLike
<1>2. QED
  BY <1>1, BoundKeeps, TokenAlwaysInv, PTL DEF TextSpec

\* Two doubles between two integers keep them apart when they are rounded.
LEMMA RoundingKeepsApart ==
    ASSUME NEW i \in Int, NEW j \in Int, NEW d \in Doubles, NEW e \in Doubles,
           i <= d, d < e, e <= j
    PROVE  ToDouble(i) < ToDouble(j)
<1>1. d \in Int /\ e \in Int
  BY TextAssumption
<1>2. ToDouble(d) = d /\ ToDouble(e) = e
  BY DoublesAreExact
<1>3. /\ ToDouble(i) \in Int /\ ToDouble(j) \in Int
      /\ ToDouble(i) <= ToDouble(d) /\ ToDouble(e) <= ToDouble(j)
  BY <1>1, RoundingIsMonotone
<1>4. QED
  BY <1>1, <1>2, <1>3

\* Whatever integers a double holds and however it rounds between them, comparing
\* as doubles never refuses what meets an inclusive bound, never lets pass what
\* breaks an exclusive one, and never errs where two doubles lie between.
THEOREM BoundsAreKept == TextSpec => []BoundsHold
<1>1. TokenInv /\ BoundInv => BoundsHold
  <2> DEFINE n == Number
             m == rule.bound
             a == ToDouble(n)
             b == ToDouble(m)
             taken == verdict = "accepted"
             TwoIn(i, j) == \E d, e \in Doubles \cap (i..j) : d # e
  <2> SUFFICES ASSUME BoundInv, verdict \in {"accepted", "constraint_failed"}, wanted \in {"signed", "unsigned"}
               PROVE  BoundsHold
    BY DEF BoundsHold
  <2>1. n \in Int /\ m \in Int /\ (taken <=> SatisfiesRule(n))
    BY DEF BoundInv, Rule
  <2>2. wanted \notin StringLike
    BY DEF StringLike
  <2>3. /\ rule.kind = "minimum" => (taken <=> a >= b)
        /\ rule.kind = "maximum" => (taken <=> a <= b)
        /\ rule.kind = "exclusive_minimum" => (taken <=> a > b)
        /\ rule.kind = "exclusive_maximum" => (taken <=> a < b)
    BY <2>1, <2>2 DEF SatisfiesRule
  <2>4. a \in Int /\ b \in Int /\ (n <= m => a <= b) /\ (m <= n => b <= a)
    BY <2>1, RoundingIsMonotone
  <2>5. ASSUME NEW i \in Int, NEW j \in Int, TwoIn(i, j)
        PROVE  ToDouble(i) < ToDouble(j)
    <3>1. PICK d, e \in Doubles \cap (i..j) : d # e
      BY <2>5
    <3>2. d \in i..j /\ e \in i..j /\ (d < e \/ e < d)
      BY <3>1
    <3>3. QED
      BY <3>1, <3>2, RoundingKeepsApart
  <2>6. (TwoIn(n, m) => a < b) /\ (TwoIn(m, n) => b < a)
    BY ONLY <2>1, <2>5
  <2> HIDE DEF n, m, a, b, taken, TwoIn
  <2>7. /\ rule.kind = "minimum" => (n >= m => taken) /\ (TwoIn(n, m) => ~taken)
        /\ rule.kind = "maximum" => (n <= m => taken) /\ (TwoIn(m, n) => ~taken)
        /\ rule.kind = "exclusive_minimum" => (taken => n > m) /\ (TwoIn(m, n) => taken)
        /\ rule.kind = "exclusive_maximum" => (taken => n < m) /\ (TwoIn(n, m) => taken)
    BY <2>1, <2>3, <2>4, <2>6
  <2>8. QED
    BY <2>7 DEF BoundsHold, n, m, taken, TwoIn
<1>2. QED
  BY <1>1, BoundAlways, PTL

-----------------------------------------------------------------------------
(* What a string means.                                                    *)

\* The characters of UTF-8 by their length.
Narrow(u) == Len(u) = 1 /\ u[1] \in 0..127
Double(u) == Len(u) = 2 /\ u[1] \in 194..223 /\ u[2] \in C
Triple(u) ==
    /\ Len(u) = 3 /\ u[1] \in 224..239 /\ u[2] \in C /\ u[3] \in C
    /\ u[1] = 224 => u[2] \in 160..191
    /\ u[1] = 237 => u[2] \in 128..159
Fourfold(u) ==
    /\ Len(u) = 4 /\ u[1] \in 240..244 /\ u[2] \in C /\ u[3] \in C /\ u[4] \in C
    /\ u[1] = 240 => u[2] \in 144..191
    /\ u[1] = 244 => u[2] \in 128..143

Fits(u, row) == Len(row) = Len(u) /\ \A i \in DOMAIN u : u[i] \in row[i]

LEMMA RowsFit ==
    ASSUME NEW u \in Seq(Byte), NEW a, NEW b, NEW c, NEW d
    PROVE  /\ Fits(u, <<a>>) <=> Len(u) = 1 /\ u[1] \in a
           /\ Fits(u, <<a, b>>) <=> Len(u) = 2 /\ u[1] \in a /\ u[2] \in b
           /\ Fits(u, <<a, b, c>>) <=> Len(u) = 3 /\ u[1] \in a /\ u[2] \in b /\ u[3] \in c
           /\ Fits(u, <<a, b, c, d>>) <=>
                 Len(u) = 4 /\ u[1] \in a /\ u[2] \in b /\ u[3] \in c /\ u[4] \in d
<1>1. Len(u) \in Nat /\ DOMAIN u = 1..Len(u)
  OBVIOUS
<1>2. /\ 1..1 = {1} /\ 1..2 = {1, 2} /\ 1..3 = {1, 2, 3} /\ 1..4 = {1, 2, 3, 4}
  OBVIOUS
<1>3. Fits(u, <<a>>) <=> Len(u) = 1 /\ u[1] \in a
  BY <1>1, <1>2 DEF Fits
<1>4. Fits(u, <<a, b>>) <=> Len(u) = 2 /\ u[1] \in a /\ u[2] \in b
  BY <1>1, <1>2 DEF Fits
<1>5. Fits(u, <<a, b, c>>) <=> Len(u) = 3 /\ u[1] \in a /\ u[2] \in b /\ u[3] \in c
  BY <1>1, <1>2 DEF Fits
<1>6. Fits(u, <<a, b, c, d>>) <=>
         Len(u) = 4 /\ u[1] \in a /\ u[2] \in b /\ u[3] \in c /\ u[4] \in d
  BY <1>1, <1>2 DEF Fits
<1>7. QED
  BY <1>3, <1>4, <1>5, <1>6

LEMMA CharactersAre ==
    ASSUME NEW u \in Seq(Byte)
    PROVE  IsCharacter(u) <=> Narrow(u) \/ Double(u) \/ Triple(u) \/ Fourfold(u)
<1> DEFINE a1 == 0..127
           a2 == 194..223
           a3 == {224}
           b3 == 160..191
           a4 == 225..236 \cup 238..239
           a5 == {237}
           b5 == 128..159
           a6 == {240}
           b6 == 144..191
           a7 == 241..243
           a8 == {244}
           b8 == 128..143
           r1 == <<a1>>
           r2 == <<a2, C>>
           r3 == <<a3, b3, C>>
           r4 == <<a4, C, C>>
           r5 == <<a5, b5, C>>
           r6 == <<a6, b6, C, C>>
           r7 == <<a7, C, C, C>>
           r8 == <<a8, b8, C, C>>
<1> HIDE DEF a1, a2, a3, b3, a4, a5, b5, a6, b6, a7, a8, b8
<1>1. Fits(u, r1) <=> Len(u) = 1 /\ u[1] \in a1
  BY RowsFit
<1>2. Fits(u, r2) <=> Len(u) = 2 /\ u[1] \in a2 /\ u[2] \in C
  BY RowsFit
<1>3. Fits(u, r3) <=> Len(u) = 3 /\ u[1] \in a3 /\ u[2] \in b3 /\ u[3] \in C
  BY RowsFit
<1>4. Fits(u, r4) <=> Len(u) = 3 /\ u[1] \in a4 /\ u[2] \in C /\ u[3] \in C
  BY RowsFit
<1>5. Fits(u, r5) <=> Len(u) = 3 /\ u[1] \in a5 /\ u[2] \in b5 /\ u[3] \in C
  BY RowsFit
<1>6. Fits(u, r6) <=> Len(u) = 4 /\ u[1] \in a6 /\ u[2] \in b6 /\ u[3] \in C /\ u[4] \in C
  BY RowsFit
<1>7. Fits(u, r7) <=> Len(u) = 4 /\ u[1] \in a7 /\ u[2] \in C /\ u[3] \in C /\ u[4] \in C
  BY RowsFit
<1>8. Fits(u, r8) <=> Len(u) = 4 /\ u[1] \in a8 /\ u[2] \in b8 /\ u[3] \in C /\ u[4] \in C
  BY RowsFit
<1>9. WellFormed = {r1, r2, r3, r4, r5, r6, r7, r8}
  BY Zenon DEF WellFormed, a1, a2, a3, b3, a4, a5, b5, a6, b6, a7, a8, b8
<1> HIDE DEF r1, r2, r3, r4, r5, r6, r7, r8
<1>10. IsCharacter(u) <=> \/ Fits(u, r1) \/ Fits(u, r2) \/ Fits(u, r3) \/ Fits(u, r4)
                          \/ Fits(u, r5) \/ Fits(u, r6) \/ Fits(u, r7) \/ Fits(u, r8)
  <2>1. IsCharacter(u) <=> \E row \in WellFormed : Fits(u, row)
    BY DEF IsCharacter, Fits
  <2>2. QED
    BY <1>9, <2>1
<1>11. \A i \in 1..Len(u) : u[i] \in 0..255
  <2>1. \A i \in 1..Len(u) : u[i] \in Byte
    OBVIOUS
  <2>2. QED
    BY <2>1 DEF Byte
<1>12. Fits(u, r1) \/ Fits(u, r2) <=> Narrow(u) \/ Double(u)
  BY ONLY <1>1, <1>2 DEF Narrow, Double, a1, a2
<1>13. Fits(u, r3) \/ Fits(u, r4) \/ Fits(u, r5) <=> Triple(u)
  <2>1. CASE Len(u) = 3
    <3> DEFINE x == u[1]
               y == u[2]
    <3>1. x \in 0..255 /\ y \in 0..255
      BY <1>11, <2>1
    <3> HIDE DEF x, y
    <3>2. (x \in a3 /\ y \in b3) \/ (x \in a4 /\ y \in C) \/ (x \in a5 /\ y \in b5)
             <=> x \in 224..239 /\ y \in C /\ (x = 224 => y \in 160..191) /\ (x = 237 => y \in 128..159)
      BY ONLY <3>1 DEF C, a3, b3, a4, a5, b5
    <3>3. QED
      BY ONLY <1>3, <1>4, <1>5, <2>1, <3>2, ZenonT(40) DEF Triple, x, y
  <2>2. CASE Len(u) # 3
    BY ONLY <1>3, <1>4, <1>5, <2>2, Zenon DEF Triple
  <2>3. QED
    BY <2>1, <2>2
<1>14. Fits(u, r6) \/ Fits(u, r7) \/ Fits(u, r8) <=> Fourfold(u)
  <2>1. CASE Len(u) = 4
    <3> DEFINE x == u[1]
               y == u[2]
    <3>1. x \in 0..255 /\ y \in 0..255
      BY <1>11, <2>1
    <3> HIDE DEF x, y
    <3>2. (x \in a6 /\ y \in b6) \/ (x \in a7 /\ y \in C) \/ (x \in a8 /\ y \in b8)
             <=> x \in 240..244 /\ y \in C /\ (x = 240 => y \in 144..191) /\ (x = 244 => y \in 128..143)
      BY ONLY <3>1 DEF C, a6, b6, a7, a8, b8
    <3>3. QED
      BY ONLY <1>6, <1>7, <1>8, <2>1, <3>2, ZenonT(40) DEF Fourfold, x, y
  <2>2. CASE Len(u) # 4
    BY ONLY <1>6, <1>7, <1>8, <2>2, Zenon DEF Fourfold
  <2>3. QED
    BY <2>1, <2>2
<1>15. QED
  BY ONLY <1>10, <1>12, <1>13, <1>14

\* The scalar value as the loop adds up its continuation bytes.
LEMMA ScalarIs ==
    ASSUME NEW s, NEW i, NEW n \in 1..3
    PROVE  \E e0, e1, e2, e3 :
              /\ e0 = LeadBits(s[i])
              /\ e1 = e0 * 64 + (s[i + 1] % 64)
              /\ n >= 2 => e2 = e1 * 64 + (s[i + 2] % 64)
              /\ n >= 3 => e3 = e2 * 64 + (s[i + 3] % 64)
              /\ Scalar(s, i, n) = (CASE n = 1 -> e1 [] n = 2 -> e2 [] OTHER -> e3)
<1> DEFINE G(f) == [k \in 0..n |-> IF k = 0 THEN LeadBits(s[i]) ELSE f[k - 1] * 64 + (s[i + k] % 64)]
           S  == CHOOSE f : f = G(f)
           e0 == LeadBits(s[i])
           e1 == e0 * 64 + (s[i + 1] % 64)
           e2 == e1 * 64 + (s[i + 2] % 64)
           e3 == e2 * 64 + (s[i + 3] % 64)
           f0 == [k \in 0..n |-> IF k = 0 THEN e0 ELSE IF k = 1 THEN e1 ELSE IF k = 2 THEN e2 ELSE e3]
<1>1. f0 = G(f0)
  <2>1. ASSUME NEW k \in 0..n PROVE f0[k] = IF k = 0 THEN LeadBits(s[i]) ELSE f0[k - 1] * 64 + (s[i + k] % 64)
    <3>1. k \in {0, 1, 2, 3}
      OBVIOUS
    <3>2. k # 0 => k - 1 \in 0..n
      BY <3>1
    <3>3. QED
      BY <3>1, <3>2
  <2> DEFINE H == [k \in 0..n |-> IF k = 0 THEN LeadBits(s[i]) ELSE f0[k - 1] * 64 + (s[i + k] % 64)]
  <2>2. f0 = [k \in 0..n |-> f0[k]]
    OBVIOUS
  <2> HIDE DEF f0
  <2>3. [k \in 0..n |-> f0[k]] = H
    BY <2>1
  <2>4. QED
    BY <2>2, <2>3
<1>2. Scalar(s, i, n) = S[n]
  BY DEF Scalar
<1>3. S = G(S)
  <2> HIDE DEF G, f0
  <2>1. QED
    BY <1>1
<1> HIDE DEF S
<1>4. ASSUME NEW k \in 0..n PROVE S[k] = IF k = 0 THEN LeadBits(s[i]) ELSE S[k - 1] * 64 + (s[i + k] % 64)
  BY <1>3
<1>5. S[0] = e0
  BY <1>4
<1>6. S[1] = e1
  BY <1>4, <1>5
<1>7. n >= 2 => S[2] = e2
  BY <1>4, <1>6
<1>8. n >= 3 => S[3] = e3
  BY <1>4, <1>7
<1> HIDE DEF e0, e1, e2, e3
<1>9. Scalar(s, i, n) = (CASE n = 1 -> e1 [] n = 2 -> e2 [] OTHER -> e3)
  BY <1>2, <1>6, <1>7, <1>8
<1>10. QED
  BY <1>9 DEF e0, e1, e2, e3

\* A part of a text.
LEMMA PartIs ==
    ASSUME NEW s \in Seq(Byte), NEW i \in 1..(Len(s) + 1), NEW j \in i..(Len(s) + 1)
    PROVE  /\ Part(s, i, j) \in Seq(Byte)
           /\ Len(Part(s, i, j)) = j - i
           /\ \A k \in 1..(j - i) : Part(s, i, j)[k] = s[i + k - 1]
<1>1. \A k \in i..(j - 1) : s[k] \in Byte
  <2>1. \A k \in i..(j - 1) : k \in 1..Len(s)
    OBVIOUS
  <2>2. QED
    BY <2>1
<1>2. i \in Int /\ j - 1 \in Int /\ (IF i <= j - 1 THEN (j - 1) - i + 1 ELSE 0) = j - i
  OBVIOUS
<1>3. QED
  BY <1>1, <1>2, SubSeqProperties DEF Part

\* The arithmetic of valid_utf8 comes to the table.
LEMMA TrailingIs ==
    ASSUME NEW x \in Int
    PROVE  /\ Trailing(x) \in 0..3
           /\ Trailing(x) = 1 <=> x \in 192..223
           /\ Trailing(x) = 2 <=> x \in 224..239
           /\ Trailing(x) = 3 <=> x \in 240..247
BY DEF Trailing

LEMMA LeadBitsAre ==
    ASSUME NEW x \in Int
    PROVE  /\ x \in 192..223 => LeadBits(x) = x - 192
           /\ x \in 224..239 => LeadBits(x) = x - 224
           /\ x \in 240..247 => LeadBits(x) = x - 240
<1> DEFINE bits == CASE Trailing(x) = 1 -> 32 [] Trailing(x) = 2 -> 16 [] OTHER -> 8
<1>1. LeadBits(x) = x % bits
  BY DEF LeadBits
<1>2. /\ x \in 192..223 => Trailing(x) = 1
      /\ x \in 224..239 => Trailing(x) = 2
      /\ x \in 240..247 => Trailing(x) = 3
  BY TrailingIs
<1>3. /\ x \in 192..223 => bits = 32
      /\ x \in 224..239 => bits = 16
      /\ x \in 240..247 => bits = 8
  BY <1>2
<1> HIDE DEF bits
<1>4. /\ x \in 192..223 => x % 32 = x - 192
      /\ x \in 224..239 => x % 16 = x - 224
      /\ x \in 240..247 => x % 8 = x - 240
  OBVIOUS
<1>5. QED
  BY ONLY <1>1, <1>3, <1>4, SMT

LEMMA SmallestAre == Smallest(1) = 128 /\ Smallest(2) = 2048 /\ Smallest(3) = 65536
<1>1. ASSUME NEW n PROVE (n = 1 => Smallest(n) = 128) /\ (n = 2 => Smallest(n) = 2048)
                         /\ (n = 3 => Smallest(n) = 65536)
  BY SMT DEF Smallest
<1>2. QED
  BY <1>1, SMT

Value2(x, y)       == LeadBits(x) * 64 + (y % 64)
Value3(x, y, z)    == Value2(x, y) * 64 + (z % 64)
Value4(x, y, z, w) == Value3(x, y, z) * 64 + (w % 64)

LEMMA LowBits == ASSUME NEW y \in C PROVE y % 64 = y - 128 /\ y - 128 \in 0..63 /\ y \in Int
BY DEF C

LEMMA SurrogateIs == ASSUME NEW value \in Int PROVE value \in Surrogate <=> 55296 <= value /\ value <= 57343
BY SMT DEF Surrogate

LEMMA TwoBytes ==
    ASSUME NEW x \in 192..223, NEW y \in C, NEW value, value = Value2(x, y)
    PROVE  x \in 194..223 <=> Proper(1, value)
<1> DEFINE b == y - 128
<1>1. LeadBits(x) = x - 192 /\ y % 64 = b /\ b \in 0..63
  BY LeadBitsAre, LowBits
<1>2. Smallest(1) = 128
  BY SmallestAre
<1> HIDE DEF b
<1>3. value = (x - 192) * 64 + b
  BY ONLY value = Value2(x, y), <1>1, SMT DEF Value2
<1>4. b \in 0..63
  BY <1>1
<1>5. value \in 0..2047 /\ (x \in 194..223 <=> 128 <= value)
  BY ONLY x \in 192..223, <1>3, <1>4, SMT
<1>6. value \notin Surrogate /\ value <= 1114111
  <2>1. value \in Int /\ value <= 2047
    BY ONLY <1>5, SMT
  <2>2. value \in Surrogate => 55296 <= value
    BY <2>1, SurrogateIs
  <2>3. QED
    BY ONLY <2>1, <2>2, SMT
<1>7. QED
  BY ONLY <1>2, <1>5, <1>6, SMT DEF Proper

LEMMA ThreeBytes ==
    ASSUME NEW x \in 224..239, NEW y \in C, NEW z \in C,
           NEW value, value = Value3(x, y, z)
    PROVE  (x = 224 => y \in 160..191) /\ (x = 237 => y \in 128..159)
              <=> Proper(2, value)
<1> DEFINE a == x - 224
           b == y - 128
           c == z - 128
<1>1. LeadBits(x) = a /\ y % 64 = b /\ z % 64 = c
  BY LeadBitsAre, LowBits
<1>2. a \in 0..15 /\ b \in 0..63 /\ c \in 0..63
  BY LowBits
<1>3. Smallest(2) = 2048
  BY SmallestAre, SMT
<1>4. (x = 224 => y \in 160..191) /\ (x = 237 => y \in 128..159) <=> (a = 0 => b >= 32) /\ (a = 13 => b < 32)
  BY LowBits
<1> HIDE DEF a, b, c
<1>5. value = (a * 64 + b) * 64 + c
  BY ONLY value = Value3(x, y, z), <1>1, Zenon DEF Value2, Value3
<1>6. (a = 0 => b >= 32) /\ (a = 13 => b < 32) <=> 2048 <= value /\ value <= 1114111 /\ value \notin Surrogate
  <2>1. value \in Int
    BY ONLY <1>2, <1>5, SMT
  <2>2. value \in Surrogate <=> 55296 <= value /\ value <= 57343
    BY <2>1, SurrogateIs, SMT
  <2>3. QED
    BY ONLY <1>2, <1>5, <2>2, SMT
<1>7. value \in Int
  BY ONLY <1>2, <1>5, SMT
<1>8. QED
  BY ONLY <1>3, <1>4, <1>6, <1>7, SMT DEF Proper

LEMMA FourBytes ==
    ASSUME NEW x \in 240..247, NEW y \in C, NEW z \in C, NEW w \in C,
           NEW value, value = Value4(x, y, z, w)
    PROVE  x \in 240..244 /\ (x = 240 => y \in 144..191) /\ (x = 244 => y \in 128..143)
              <=> Proper(3, value)
<1> DEFINE a == x - 240
           b == y - 128
           c == z - 128
           d == w - 128
<1>1. LeadBits(x) = a /\ y % 64 = b /\ z % 64 = c /\ w % 64 = d
  BY LeadBitsAre, LowBits
<1>2. a \in 0..7 /\ b \in 0..63 /\ c \in 0..63 /\ d \in 0..63
  BY LowBits
<1>3. Smallest(3) = 65536
  BY SmallestAre, SMT
<1>4. x \in 240..244 /\ (x = 240 => y \in 144..191) /\ (x = 244 => y \in 128..143)
         <=> a \in 0..4 /\ (a = 0 => b >= 16) /\ (a = 4 => b < 16)
  BY LowBits
<1> HIDE DEF a, b, c, d
<1>5. value = ((a * 64 + b) * 64 + c) * 64 + d
  BY ONLY value = Value4(x, y, z, w), <1>1, Zenon DEF Value2, Value3, Value4
<1>6. a \in 0..4 /\ (a = 0 => b >= 16) /\ (a = 4 => b < 16)
         <=> 65536 <= value /\ value <= 1114111 /\ value \notin Surrogate
  <2>1. value \in Int
    BY ONLY <1>2, <1>5, SMT
  <2>2. value \in Surrogate <=> 55296 <= value /\ value <= 57343
    BY <2>1, SurrogateIs, SMT
  <2>3. QED
    BY ONLY <1>2, <1>5, <2>2, SMT
<1>7. value \in Int
  BY ONLY <1>2, <1>5, SMT
<1>8. QED
  BY ONLY <1>3, <1>4, <1>6, <1>7, SMT DEF Proper

LEMMA MultibyteIs ==
    ASSUME NEW s \in Seq(Byte), NEW i \in 1..Len(s), NEW j \in (i + 1)..(Len(s) + 1),
           NEW n, n = Trailing(s[i])
    PROVE  IsCharacter(Part(s, i, j)) <=> (j = i + 1 /\ s[i] <= 127) \/ (j = i + n + 1 /\ Multibyte(s, i, n))
<1> DEFINE u == Part(s, i, j)
<1>1. u \in Seq(Byte) /\ Len(u) = j - i /\ \A k \in 1..(j - i) : u[k] = s[i + k - 1]
  <2>1. i \in 1..(Len(s) + 1) /\ j \in i..(Len(s) + 1)
    OBVIOUS
  <2>2. QED
    BY <2>1, PartIs
<1> DEFINE x == s[i]
<1>3. x \in 0..255 /\ x \in Int
  <2>1. x \in Byte
    OBVIOUS
  <2> HIDE DEF x
  <2>2. QED
    BY <2>1 DEF Byte
<1>2. i \in Int /\ j \in Int /\ Len(s) \in Nat /\ u[1] = x
  BY <1>1
<1>4. IsCharacter(u) <=> Narrow(u) \/ Double(u) \/ Triple(u) \/ Fourfold(u)
  BY <1>1, CharactersAre
<1>0. n = Trailing(x)
  OBVIOUS
<1> HIDE DEF u, x
<1>5. n \in 0..3 /\ (n = 1 <=> x \in 192..223) /\ (n = 2 <=> x \in 224..239) /\ (n = 3 <=> x \in 240..247)
  BY <1>0, <1>3, TrailingIs
<1>6. CASE j = i + 1
  <2>1. IsCharacter(u) <=> x \in 0..127
    BY <1>1, <1>2, <1>4, <1>6 DEF Narrow, Double, Triple, Fourfold
  <2>2. x \in 0..127 <=> x <= 127
    BY <1>3
  <2>3. ~(j = i + n + 1 /\ n > 0)
    BY <1>2, <1>5, <1>6
  <2>4. QED
    BY <1>6, <2>1, <2>2, <2>3 DEF Multibyte, u, x
<1>7. CASE j = i + 2
  <2> DEFINE y == s[i + 1]
  <2>1. u[2] = y /\ Len(u) = 2
    BY <1>1, <1>2, <1>7
  <2>2. IsCharacter(u) <=> x \in 194..223 /\ y \in C
    BY <1>2, <1>4, <2>1 DEF Narrow, Double, Triple, Fourfold
  <2>3. j = i + n + 1 <=> x \in 192..223
    <3>1. n \in Int /\ (n = 1 <=> x \in 192..223)
      BY <1>5
    <3>2. j = i + n + 1 <=> n = 1
      BY ONLY <1>2, <1>7, <3>1
    <3>3. QED
      BY ONLY <3>1, <3>2, Zenon
  <2>4. ASSUME x \in 192..223, y \in C PROVE x \in 194..223 <=> Multibyte(s, i, n)
    <3>1. n = 1 /\ i + 1 <= Len(s)
      BY <1>2, <1>5, <1>7, <2>4
    <3>2. PICK value : value = Value2(x, y) /\ Scalar(s, i, n) = value
      BY <3>1, ScalarIs DEF x, Value2
    <3>3. \A k \in 1..n : s[i + k] \in 128..191
      <4>1. 1..n = {1}
        BY ONLY <3>1
      <4>2. s[i + 1] \in C
        BY <2>4
      <4>3. QED
        BY ONLY <4>1, <4>2 DEF C
    <3>4. x \in 192..223 /\ y \in C
      BY <2>4
    <3> HIDE DEF y
    <3>5. x \in 194..223 <=> Proper(1, value)
      BY ONLY <3>2, <3>4, TwoBytes
    <3>6. QED
      BY ONLY <3>1, <3>2, <3>3, <3>5, SMT DEF Multibyte
  <2>5. Multibyte(s, i, n) /\ n = 1 => y \in C
    BY DEF Multibyte, C
  <2>6. ~(j = i + 1)
    BY <1>2, <1>7
  <2>7. x \in 194..223 => x \in 192..223
    OBVIOUS
  <2>8. j = i + n + 1 => n = 1
    <3>1. n \in Int
      BY <1>5
    <3>2. QED
      BY ONLY <1>2, <1>7, <3>1
  <2>9. QED
    BY <2>2, <2>3, <2>4, <2>5, <2>6, <2>7, <2>8, ZenonT(40) DEF u, x
<1>8. CASE j = i + 3
  <2> DEFINE y == s[i + 1]
             z == s[i + 2]
             Right == (x = 224 => y \in 160..191) /\ (x = 237 => y \in 128..159)
  <2>1. u[2] = y /\ u[3] = z /\ Len(u) = 3
    BY <1>1, <1>2, <1>8
  <2>2. IsCharacter(u) <=> x \in 224..239 /\ y \in C /\ z \in C /\ Right
    BY <1>2, <1>4, <2>1 DEF Narrow, Double, Triple, Fourfold
  <2>3. j = i + n + 1 <=> x \in 224..239
    <3>1. n \in Int /\ (n = 2 <=> x \in 224..239)
      BY <1>5
    <3>2. j = i + n + 1 <=> n = 2
      BY ONLY <1>2, <1>8, <3>1
    <3>3. QED
      BY ONLY <3>1, <3>2, Zenon
  <2>4. ASSUME x \in 224..239, y \in C, z \in C PROVE Right <=> Multibyte(s, i, n)
    <3>1. n = 2 /\ i + 2 <= Len(s)
      BY <1>2, <1>5, <1>8, <2>4
    <3>2. PICK value : value = Value3(x, y, z) /\ Scalar(s, i, n) = value
      BY <3>1, ScalarIs DEF x, Value2, Value3
    <3>3. \A k \in 1..n : s[i + k] \in 128..191
      <4>1. 1..n = {1, 2}
        BY ONLY <3>1
      <4>2. s[i + 1] \in C /\ s[i + 2] \in C
        BY <2>4
      <4>3. QED
        BY ONLY <4>1, <4>2 DEF C
    <3>4. x \in 224..239 /\ y \in C /\ z \in C
      BY <2>4
    <3> HIDE DEF y, z
    <3>5. Right <=> Proper(2, value)
      BY ONLY <3>2, <3>4, ThreeBytes DEF Right
    <3>6. QED
      BY ONLY <3>1, <3>2, <3>3, <3>5, SMT DEF Multibyte
  <2>5. Multibyte(s, i, n) /\ n = 2 => y \in C /\ z \in C
    BY DEF Multibyte, C
  <2>6. ~(j = i + 1)
    BY <1>2, <1>8
  <2>7. j = i + n + 1 => n = 2
    <3>1. n \in Int
      BY <1>5
    <3>2. QED
      BY ONLY <1>2, <1>8, <3>1
  <2> HIDE DEF Right
  <2>8. QED
    BY <2>2, <2>3, <2>4, <2>5, <2>6, <2>7, ZenonT(40) DEF u, x
<1>9. CASE j = i + 4
  <2> DEFINE y == s[i + 1]
             z == s[i + 2]
             w == s[i + 3]
             Right == x \in 240..244 /\ (x = 240 => y \in 144..191) /\ (x = 244 => y \in 128..143)
  <2>1. u[2] = y /\ u[3] = z /\ u[4] = w /\ Len(u) = 4
    BY <1>1, <1>2, <1>9, SMTT(30)
  <2>2. IsCharacter(u) <=> x \in 240..247 /\ y \in C /\ z \in C /\ w \in C /\ Right
    BY <1>2, <1>4, <2>1 DEF Narrow, Double, Triple, Fourfold
  <2>3. j = i + n + 1 <=> x \in 240..247
    <3>1. n \in Int /\ (n = 3 <=> x \in 240..247)
      BY <1>5
    <3>2. j = i + n + 1 <=> n = 3
      BY ONLY <1>2, <1>9, <3>1
    <3>3. QED
      BY ONLY <3>1, <3>2, Zenon
  <2>4. ASSUME x \in 240..247, y \in C, z \in C, w \in C PROVE Right <=> Multibyte(s, i, n)
    <3>1. n = 3 /\ i + 3 <= Len(s)
      BY <1>2, <1>5, <1>9, <2>4
    <3>2. PICK value : value = Value4(x, y, z, w) /\ Scalar(s, i, n) = value
      BY <3>1, ScalarIs DEF x, Value2, Value3, Value4
    <3>3. \A k \in 1..n : s[i + k] \in 128..191
      <4>1. 1..n = {1, 2, 3}
        BY ONLY <3>1
      <4>2. s[i + 1] \in C /\ s[i + 2] \in C /\ s[i + 3] \in C
        BY <2>4
      <4>3. QED
        BY ONLY <4>1, <4>2 DEF C
    <3>4. x \in 240..247 /\ y \in C /\ z \in C /\ w \in C
      BY <2>4
    <3> HIDE DEF y, z, w
    <3>5. Right <=> Proper(3, value)
      BY ONLY <3>2, <3>4, FourBytes, ZenonT(40) DEF Right
    <3>6. QED
      BY ONLY <3>1, <3>2, <3>3, <3>5, SMT DEF Multibyte
  <2>5. Multibyte(s, i, n) /\ n = 3 => y \in C /\ z \in C /\ w \in C
    BY DEF Multibyte, C
  <2>6. ~(j = i + 1)
    BY <1>2, <1>9
  <2>7. j = i + n + 1 => n = 3
    <3>1. n \in Int
      BY <1>5
    <3>2. QED
      BY ONLY <1>2, <1>9, <3>1
  <2> HIDE DEF Right
  <2>8. QED
    BY <2>2, <2>3, <2>4, <2>5, <2>6, <2>7, ZenonT(40) DEF u, x
<1>10. CASE j > i + 4
  <2>1. ~IsCharacter(u)
    BY <1>1, <1>2, <1>4, <1>10 DEF Narrow, Double, Triple, Fourfold
  <2>2. ~(j = i + 1) /\ ~(j = i + n + 1)
    <3>1. n \in 0..3
      BY <1>5
    <3>2. QED
      BY ONLY <1>2, <1>10, <3>1
  <2>3. QED
    BY <2>1, <2>2 DEF u
<1>11. QED
  BY <1>2, <1>6, <1>7, <1>8, <1>9, <1>10

\* valid_utf8 is the table, character by character.
LEMMA TextIs == ASSUME NEW s \in Seq(Byte) PROVE valid_utf8(s) <=> IsText(s)
<1> DEFINE A(f) == [i \in 1..(Len(s) + 1) |->
                      \/ i > Len(s)
                      \/ s[i] <= 127 /\ f[i + 1]
                      \/ Multibyte(s, i, Trailing(s[i])) /\ f[i + Trailing(s[i]) + 1]]
           B(f) == [i \in 1..(Len(s) + 1) |->
                      i = Len(s) + 1 \/ \E j \in (i + 1)..(Len(s) + 1) : IsCharacter(Part(s, i, j)) /\ f[j]]
<1>1. ASSUME NEW f PROVE A(f) = B(f)
  <2>1. ASSUME NEW i \in 1..(Len(s) + 1) PROVE A(f)[i] = B(f)[i]
    <3> DEFINE n == Trailing(s[i])
               m == i + n + 1
    <3>1. CASE i = Len(s) + 1
      <4>1. A(f)[i] = TRUE
        BY <3>1
      <4>2. B(f)[i] = TRUE
        BY <3>1
      <4>3. QED
        BY <4>1, <4>2
    <3>2. CASE i \in 1..Len(s)
      <4>1. A(f)[i] = ((s[i] <= 127 /\ f[i + 1]) \/ (Multibyte(s, i, n) /\ f[m]))
        <5>1. A(f)[i] = (\/ i > Len(s)
                         \/ s[i] <= 127 /\ f[i + 1]
                         \/ Multibyte(s, i, n) /\ f[m])
          BY Zenon
        <5>2. ~(i > Len(s))
          BY <3>2
        <5> HIDE DEF A, n, m
        <5>3. QED
          BY ONLY <5>1, <5>2, Zenon
      <4>2. B(f)[i] = (\E j \in (i + 1)..(Len(s) + 1) : IsCharacter(Part(s, i, j)) /\ f[j])
        <5>1. B(f)[i] = (i = Len(s) + 1 \/ \E j \in (i + 1)..(Len(s) + 1) : IsCharacter(Part(s, i, j)) /\ f[j])
          BY Zenon
        <5>2. ~(i = Len(s) + 1)
          BY <3>2
        <5> HIDE DEF B
        <5>3. QED
          BY ONLY <5>1, <5>2, Zenon
      <4>3. \A j \in (i + 1)..(Len(s) + 1) :
               IsCharacter(Part(s, i, j)) <=> (j = i + 1 /\ s[i] <= 127) \/ (j = m /\ Multibyte(s, i, n))
        BY <3>2, MultibyteIs
      <4>4. i + 1 \in (i + 1)..(Len(s) + 1)
        BY <3>2
      <4>5. Multibyte(s, i, n) => m \in (i + 1)..(Len(s) + 1)
        <5>1. n \in Int
          <6>1. s[i] \in Byte
            BY <3>2
          <6>2. \A b \in Byte : b \in Int
            BY DEF Byte
          <6>3. QED
            BY <6>1, <6>2, TrailingIs
        <5> HIDE DEF n
        <5>2. QED
          BY <3>2, <5>1 DEF Multibyte
      <4> HIDE DEF A, B, n, m
      <4>6. (\E j \in (i + 1)..(Len(s) + 1) : IsCharacter(Part(s, i, j)) /\ f[j])
               <=> (s[i] <= 127 /\ f[i + 1]) \/ (Multibyte(s, i, n) /\ f[m])
        BY ONLY <4>3, <4>4, <4>5, Zenon
      <4>7. QED
        BY ONLY <4>1, <4>2, <4>6, Zenon
    <3>3. i = Len(s) + 1 \/ i \in 1..Len(s)
      OBVIOUS
    <3>4. QED
      BY <3>1, <3>2, <3>3, Zenon
  <2>2. A(f) = [i \in 1..(Len(s) + 1) |-> A(f)[i]] /\ B(f) = [i \in 1..(Len(s) + 1) |-> B(f)[i]]
    BY Zenon
  <2> HIDE DEF A, B
  <2>3. QED
    BY <2>1, <2>2
<1>2. valid_utf8(s) <=> (CHOOSE f : f = A(f))[1]
  BY Zenon DEF valid_utf8
<1>3. IsText(s) <=> (CHOOSE f : f = B(f))[1]
  BY Zenon DEF IsText
<1> HIDE DEF A, B
<1>4. (CHOOSE f : f = A(f)) = (CHOOSE f : f = B(f))
  BY <1>1
<1>5. QED
  BY <1>2, <1>3, <1>4, Zenon

\* The digits of a scalar value to the base 64, and a byte's low bits put together again.
LEMMA Sextets ==
    ASSUME NEW c \in Nat
    PROVE  /\ c \div 1 = c
           /\ c = 64 * (c \div 64) + (c % 64)
           /\ c \div 64 = 64 * (c \div 4096) + ((c \div 64) % 64)
           /\ c \div 4096 = 64 * (c \div 262144) + ((c \div 4096) % 64)
           /\ c \div 64 \in Nat /\ c \div 4096 \in Nat /\ c \div 262144 \in Nat
           /\ c % 64 \in 0..63 /\ (c \div 64) % 64 \in 0..63 /\ (c \div 4096) % 64 \in 0..63
<1>1. c \div 1 = c /\ c = 64 * (c \div 64) + (c % 64)
  BY SMT
<1>2. c \div 64 = 64 * (c \div 4096) + ((c \div 64) % 64)
  BY SMT
<1>3. c \div 4096 = 64 * (c \div 262144) + ((c \div 4096) % 64)
  BY SMT
<1>4. /\ c \div 64 \in Nat /\ c \div 4096 \in Nat /\ c \div 262144 \in Nat
      /\ c % 64 \in 0..63 /\ (c \div 64) % 64 \in 0..63 /\ (c \div 4096) % 64 \in 0..63
  BY SMT
<1>5. QED
  BY <1>1, <1>2, <1>3, <1>4, SMT

LEMMA LowBitsBack ==
    ASSUME NEW r \in 0..63
    PROVE  128 + r \in C /\ (128 + r) % 64 = r
BY DEF C

IsScalar(c) == c \in Nat /\ c < 1114112 /\ c \notin Surrogate

\* What append_utf8 makes of a scalar value is the character of that value.
LEMMA AppendEncodes ==
    ASSUME NEW c \in Nat, IsScalar(c)
    PROVE  Encodes(c, append_utf8(c)) /\ append_utf8(c) \in Seq(Byte)
<1> DEFINE u == append_utf8(c)
           a == c \div 262144
           p == c \div 4096
           q == c \div 64
           d == p % 64
           e == q % 64
           r == c % 64
<1>1. /\ c \div 1 = c
      /\ c = 64 * q + r
      /\ q = 64 * p + e
      /\ p = 64 * a + d
      /\ q \in Nat /\ p \in Nat /\ a \in Nat
      /\ r \in 0..63 /\ e \in 0..63 /\ d \in 0..63
  BY Sextets, SMT
<1>2. /\ c <= 127 => u = <<c>>
      /\ ~(c <= 127) /\ c <= 2047 => u = <<192 + q, 128 + r>>
      /\ ~(c <= 2047) /\ c <= 65535 => u = <<224 + p, 128 + e, 128 + r>>
      /\ ~(c <= 65535) => u = <<240 + a, 128 + d, 128 + e, 128 + r>>
  <2>1. /\ c <= 2047 => c <= 65535
        /\ c <= 127 => c <= 2047
    BY SMT
  <2>2. QED
    BY <1>1, <2>1, SMT DEF append_utf8
<1>3. /\ 128 + r \in C /\ (128 + r) % 64 = r
      /\ 128 + e \in C /\ (128 + e) % 64 = e
      /\ 128 + d \in C /\ (128 + d) % 64 = d
  BY ONLY <1>1, LowBitsBack
<1>4. c \in Int /\ (55296 <= c => 57343 < c)
  BY SurrogateIs, SMT DEF IsScalar
<1>5. \A b \in C : b \in Byte
  BY DEF C, Byte
<1>6. c < 1114112
  BY SMT DEF IsScalar
<1> HIDE DEF u, a, p, q, d, e, r
<1>7. CASE c <= 127
  <2>1. u = <<c>> /\ c \in 0..127 /\ c \in Byte
    BY <1>2, <1>7 DEF Byte
  <2>2. u \in Seq(Byte) /\ Len(u) = 1 /\ u[1] = c
    BY <2>1
  <2>3. IsCharacter(u)
    <3>1. Narrow(u)
      BY <2>1, <2>2 DEF Narrow
    <3>2. QED
      BY ONLY <2>2, <3>1, CharactersAre, Zenon
  <2>4. PointOf(u) = c
    BY <2>2 DEF PointOf
  <2>5. QED
    BY <2>2, <2>3, <2>4 DEF Encodes, u
<1>8. CASE ~(c <= 127) /\ c <= 2047
  <2>1. q \in 2..31
    BY ONLY <1>1, <1>4, <1>8, SMT
  <2>2. 192 + q \in 194..223 /\ (192 + q) % 32 = q /\ 192 + q \in Byte
    BY ONLY <2>1 DEF Byte
  <2> DEFINE x == 192 + q
             y == 128 + r
  <2>3. u = <<x, y>>
    BY <1>2, <1>8
  <2>4. x \in 194..223 /\ x % 32 = q /\ x \in Byte /\ y \in C /\ y \in Byte /\ y % 64 = r
    BY <1>3, <1>5, <2>2
  <2> HIDE DEF x, y
  <2>5. u \in Seq(Byte) /\ Len(u) = 2 /\ u[1] = x /\ u[2] = y
    BY <2>3, <2>4
  <2>6. IsCharacter(u)
    <3>1. Double(u)
      BY <2>4, <2>5 DEF Double
    <3>2. QED
      BY ONLY <2>5, <3>1, CharactersAre, Zenon
  <2>7. PointOf(u) = 64 * (x % 32) + (y % 64)
    BY <2>5 DEF PointOf
  <2>8. PointOf(u) = c
    BY ONLY <1>1, <2>4, <2>7, Zenon
  <2>9. QED
    BY <2>5, <2>6, <2>8 DEF Encodes, u
<1>9. CASE ~(c <= 2047) /\ c <= 65535
  <2>1. p \in 0..15 /\ (p = 0 => e >= 32) /\ (p = 13 => e < 32)
    BY ONLY <1>1, <1>4, <1>9, SMT
  <2>2. /\ 224 + p \in 224..239 /\ (224 + p) % 16 = p /\ 224 + p \in Byte
        /\ 224 + p = 224 => 128 + e \in 160..191
        /\ 224 + p = 237 => 128 + e \in 128..159
    <3>1. 224 + p \in 224..239 /\ (224 + p) % 16 = p /\ 224 + p \in Byte
      BY ONLY <2>1 DEF Byte
    <3>2. e \in 0..63 /\ p \in Int
      BY <1>1
    <3>3. QED
      BY ONLY <2>1, <3>1, <3>2
  <2> DEFINE x == 224 + p
             y == 128 + e
             z == 128 + r
  <2>3. u = <<x, y, z>>
    BY <1>2, <1>9
  <2>4. /\ x \in 224..239 /\ x % 16 = p /\ x \in Byte
        /\ x = 224 => y \in 160..191
        /\ x = 237 => y \in 128..159
        /\ y \in C /\ y \in Byte /\ y % 64 = e
        /\ z \in C /\ z \in Byte /\ z % 64 = r
    BY <1>3, <1>5, <2>2
  <2> HIDE DEF x, y, z
  <2>5. u \in Seq(Byte) /\ Len(u) = 3 /\ u[1] = x /\ u[2] = y /\ u[3] = z
    BY <2>3, <2>4
  <2>6. IsCharacter(u)
    <3>1. Triple(u)
      BY <2>4, <2>5 DEF Triple
    <3>2. QED
      BY ONLY <2>5, <3>1, CharactersAre, Zenon
  <2>7. PointOf(u) = 4096 * (x % 16) + 64 * (y % 64) + (z % 64)
    BY <2>5, SMT DEF PointOf
  <2>8. PointOf(u) = 4096 * p + 64 * e + r
    BY ONLY <2>4, <2>7, SMT
  <2>9. PointOf(u) = c
    BY ONLY <1>1, <2>8, SMT
  <2>10. QED
    BY <2>5, <2>6, <2>9 DEF Encodes, u
<1>10. CASE ~(c <= 65535)
  <2>1. a \in 0..4 /\ (a = 0 => d >= 16) /\ (a = 4 => d < 16)
    BY ONLY <1>1, <1>4, <1>6, <1>10, SMT
  <2>2. /\ 240 + a \in 240..244 /\ (240 + a) % 8 = a /\ 240 + a \in Byte
        /\ 240 + a = 240 => 128 + d \in 144..191
        /\ 240 + a = 244 => 128 + d \in 128..143
    <3>1. 240 + a \in 240..244 /\ (240 + a) % 8 = a /\ 240 + a \in Byte
      BY ONLY <2>1 DEF Byte
    <3>2. d \in 0..63 /\ a \in Int
      BY <1>1
    <3>3. QED
      BY ONLY <2>1, <3>1, <3>2
  <2> DEFINE x == 240 + a
             y == 128 + d
             z == 128 + e
             w == 128 + r
  <2>3. u = <<x, y, z, w>>
    BY <1>2, <1>10
  <2>4. /\ x \in 240..244 /\ x % 8 = a /\ x \in Byte
        /\ x = 240 => y \in 144..191
        /\ x = 244 => y \in 128..143
        /\ y \in C /\ y \in Byte /\ y % 64 = d
        /\ z \in C /\ z \in Byte /\ z % 64 = e
        /\ w \in C /\ w \in Byte /\ w % 64 = r
    BY <1>3, <1>5, <2>2
  <2> HIDE DEF x, y, z, w
  <2>5. u \in Seq(Byte) /\ Len(u) = 4 /\ u[1] = x /\ u[2] = y /\ u[3] = z /\ u[4] = w
    BY <2>3, <2>4
  <2>6. IsCharacter(u)
    <3>1. Fourfold(u)
      BY <2>4, <2>5 DEF Fourfold
    <3>2. QED
      BY ONLY <2>5, <3>1, CharactersAre, Zenon
  <2>7. PointOf(u) = 262144 * (x % 8) + 4096 * (y % 64) + 64 * (z % 64) + (w % 64)
    BY <2>5, SMT DEF PointOf
  <2>8. PointOf(u) = 262144 * a + 4096 * d + 64 * e + r
    BY ONLY <2>4, <2>7, SMT
  <2>9. PointOf(u) = c
    BY ONLY <1>1, <2>8, SMT
  <2>10. QED
    BY <2>5, <2>6, <2>9 DEF Encodes, u
<1>11. QED
  BY <1>4, <1>7, <1>8, <1>9, <1>10, SMT

\* Escapes stand for scalar values.
LEMMA UnitType ==
    ASSUME NEW u \in Seq(Byte), IsUnit(u)
    PROVE  UnitOf(u) \in Nat /\ UnitOf(u) <= 65535
<1>1. \A b \in HexDigits : HexOf(b) \in 0..15
  BY DEF HexDigits, HexOf
<1>2. u[3] \in HexDigits /\ u[4] \in HexDigits /\ u[5] \in HexDigits /\ u[6] \in HexDigits
  BY DEF IsUnit
<1> DEFINE a == HexOf(u[3])
           b == HexOf(u[4])
           c == HexOf(u[5])
           d == HexOf(u[6])
<1>3. a \in 0..15 /\ b \in 0..15 /\ c \in 0..15 /\ d \in 0..15
  BY ONLY <1>1, <1>2, Zenon
<1>4. UnitOf(u) = 4096 * a + 256 * b + 16 * c + d
  BY DEF UnitOf
<1> HIDE DEF a, b, c, d
<1>5. QED
  BY ONLY <1>3, <1>4, SMT

LEMMA PairType ==
    ASSUME NEW h \in Lead, NEW l \in Trail
    PROVE  LET c == 65536 + 1024 * (h - 55296) + (l - 56320) IN c \in Nat /\ IsScalar(c)
<1> DEFINE a == h - 55296
           b == l - 56320
           c == 65536 + 1024 * a + b
<1>1. h \in Int /\ 55296 <= h /\ h <= 56319 /\ l \in Int /\ 56320 <= l /\ l <= 57343
  BY SMT DEF Lead, Trail
<1>2. a \in 0..1023 /\ b \in 0..1023
  BY <1>1, SMT
<1> HIDE DEF a, b
<1>3. c \in Nat /\ c < 1114112 /\ 57343 < c
  BY ONLY <1>2, SMT
<1>4. c \notin Surrogate
  BY <1>3, SurrogateIs, SMT
<1>5. c \in Nat /\ IsScalar(c)
  BY <1>3, <1>4, SMT DEF IsScalar
<1> HIDE DEF c
<1>6. QED
  BY ONLY <1>5, SMT DEF c, a, b

LEMMA SurrogatesAre == Surrogate = Lead \cup Trail
<1>1. ASSUME NEW c PROVE c \in Surrogate <=> c \in Lead \cup Trail
  BY SMT DEF Surrogate, Lead, Trail
<1>2. QED
  BY ONLY <1>1, Zenon

LEMMA ScalarsType == ASSUME NEW u \in Seq(Byte), NEW c \in Scalars(u) PROVE c \in Nat /\ IsScalar(c)
<1>1. CASE Len(u) = 2 /\ u[1] = 92
  <2>1. c \in {pair[2] : pair \in Named}
    BY <1>1 DEF Scalars
  <2>2. c \in {34, 92, 47, 8, 12, 10, 13, 9}
    BY <2>1 DEF Named
  <2>3. c \in Nat /\ c < 200
    BY <2>2
  <2>4. c \notin Surrogate
    BY <2>3, SurrogateIs, SMT
  <2>5. QED
    BY <2>3, <2>4, SMT DEF IsScalar
<1>2. CASE ~(Len(u) = 2 /\ u[1] = 92) /\ IsUnit(u)
  <2>1. c = UnitOf(u) /\ c \notin Surrogate
    BY <1>2, SurrogatesAre DEF Scalars
  <2>2. c \in Nat /\ c <= 65535
    BY <1>2, <2>1, UnitType
  <2>3. QED
    BY <2>1, <2>2, SMT DEF IsScalar
<1>3. CASE ~(Len(u) = 2 /\ u[1] = 92) /\ ~IsUnit(u)
  <2>1. PICK h \in Lead, l \in Trail : c = 65536 + 1024 * (h - 55296) + (l - 56320)
    BY <1>3, SMT DEF Scalars
  <2>2. QED
    BY <2>1, PairType, SMT
<1>4. QED
  BY <1>1, <1>2, <1>3, Zenon

LEMMA SpeltType == ASSUME NEW u \in Seq(Byte), NEW w \in Spelt(u) PROVE w \in Seq(Byte)
<1>1. w = u \/ \E c \in Scalars(u) : w = append_utf8(c)
  BY DEF Spelt
<1>2. QED
  BY <1>1, ScalarsType, AppendEncodes

\* Turn by turn: what Spelled says of a place, given what it says of those after it.
Turn(s, i, S) ==
    IF i = Len(s) THEN {<<>>}
    ELSE UNION {{u \o v : u \in Spelt(Part(s, i, j)), v \in S[j]} :
                   j \in {j \in (i + 1)..Len(s) : Spelt(Part(s, i, j)) # {}}}
Turns(s, S) ==
    /\ Spelled(s) = S[2]
    /\ \A i \in 2..Len(s) : S[i] = Turn(s, i, S) /\ S[i] \in SUBSET Seq(Byte)

\* The places after a place, and what a part from one to the other and the rest make.
Ahead(s, i) == (i + 1)..Len(s)
Follows(s, S, i, j, x) == \E u \in Spelt(Part(s, i, j)), v \in S[j] : x = u \o v

LEMMA LastTurn == ASSUME NEW s, NEW S PROVE Turn(s, Len(s), S) = {<<>>}
BY DEF Turn

LEMMA TurnIs ==
    ASSUME NEW s, NEW i, NEW S, i # Len(s), NEW x
    PROVE  x \in Turn(s, i, S) <=> \E j \in Ahead(s, i) : Follows(s, S, i, j, x)
<1> DEFINE J == {j \in (i + 1)..Len(s) : Spelt(Part(s, i, j)) # {}}
           X(j) == {u \o v : u \in Spelt(Part(s, i, j)), v \in S[j]}
<1>1. Turn(s, i, S) = UNION {X(j) : j \in J}
  <2>1. Turn(s, i, S) = IF i = Len(s) THEN {<<>>} ELSE UNION {X(j) : j \in J}
    BY DEF Turn
  <2>2. i # Len(s)
    OBVIOUS
  <2> HIDE DEF J, X
  <2>3. QED
    BY ONLY <2>1, <2>2, Zenon
<1>2. \A j : x \in X(j) <=> Follows(s, S, i, j, x)
  BY DEF Follows
<1>3. \A j : x \in X(j) => Spelt(Part(s, i, j)) # {}
  OBVIOUS
<1>4. \A j : j \in J <=> j \in Ahead(s, i) /\ Spelt(Part(s, i, j)) # {}
  BY Zenon DEF Ahead
<1> HIDE DEF J, X
<1>5. x \in Turn(s, i, S) <=> \E j \in J : x \in X(j)
  BY ONLY <1>1, Zenon
<1>6. QED
  BY ONLY <1>2, <1>3, <1>4, <1>5, Zenon

LEMMA SpelledTurns == ASSUME NEW s \in Seq(Byte), Len(s) >= 2 PROVE \E S : Turns(s, S)
<1> DEFINE n == Len(s)
           T == (2..n) \X Seq(Byte)
           Fed(i, x, R) == IF i = n THEN x = <<>>
                           ELSE \E j \in (i + 1)..n : \E u \in Spelt(Part(s, i, j)), v \in Seq(Byte) :
                                   <<j, v>> \in R /\ x = u \o v
           Closed(R) == R \in SUBSET T /\ \A i \in 2..n, x \in Seq(Byte) : <<i, x>> \in R => Fed(i, x, R)
           G(f) == [i \in 2..n |-> Turn(s, i, f)]
           h == [i \in 2..n |-> {x \in Seq(Byte) : \E R : Closed(R) /\ <<i, x>> \in R}]
           S == CHOOSE f : f = G(f)
<1>1. n \in Nat /\ 2 \in 2..n
  OBVIOUS
<1>2. ASSUME NEW i \in 2..n, NEW j \in (i + 1)..n, NEW u \in Spelt(Part(s, i, j)) PROVE u \in Seq(Byte) /\ j \in 2..n
  <2>1. i \in 1..(Len(s) + 1) /\ j \in i..(Len(s) + 1) /\ j \in 2..n
    OBVIOUS
  <2>2. QED
    BY <2>1, PartIs, SpeltType
<1>3. ASSUME NEW i \in 2..n PROVE h[i] = Turn(s, i, h)
  <2> HIDE DEF Closed
  <2>1. h[i] = {x \in Seq(Byte) : \E R : Closed(R) /\ <<i, x>> \in R}
    OBVIOUS
  <2>2. \A j \in 2..n : h[j] = {x \in Seq(Byte) : \E R : Closed(R) /\ <<j, x>> \in R}
    OBVIOUS
  <2> HIDE DEF h
  <2>3. ASSUME NEW x \in h[i] PROVE x \in Turn(s, i, h)
    <3>1. PICK R : Closed(R) /\ <<i, x>> \in R /\ x \in Seq(Byte)
      BY <2>1, <2>3
    <3>2. Fed(i, x, R)
      BY <3>1 DEF Closed
    <3>3. CASE i = n
      BY <3>2, <3>3, LastTurn
    <3>4. CASE i # n
      <4>1. PICK j \in (i + 1)..n : \E u \in Spelt(Part(s, i, j)), v \in Seq(Byte) : <<j, v>> \in R /\ x = u \o v
        BY <3>2, <3>4
      <4>2. PICK u \in Spelt(Part(s, i, j)), v \in Seq(Byte) : <<j, v>> \in R /\ x = u \o v
        BY <4>1
      <4>3. v \in h[j]
        BY <1>2, <2>2, <3>1, <4>2
      <4>4. Follows(s, h, i, j, x) /\ j \in Ahead(s, i)
        BY <4>2, <4>3 DEF Follows, Ahead
      <4>5. QED
        BY <3>4, <4>4, TurnIs
    <3>5. QED
      BY <3>3, <3>4
  <2>4. ASSUME NEW x \in Turn(s, i, h) PROVE x \in h[i]
    <3>1. CASE i = n
      <4> DEFINE R == {<<n, <<>> >>}
      <4>1. x = <<>> /\ x \in Seq(Byte)
        <5>1. x = <<>>
          BY <2>4, <3>1, LastTurn
        <5>2. QED
          BY <5>1
      <4>2. R \in SUBSET T
        <5>1. i \in 2..n /\ x \in Seq(Byte)
          BY <4>1
        <5>2. <<i, x>> \in T
          BY <5>1
        <5>3. R = {<<i, x>>}
          BY <3>1, <4>1
        <5>4. QED
          BY <5>2, <5>3
      <4>3. \A k \in 2..n, y \in Seq(Byte) : <<k, y>> \in R => Fed(k, y, R)
        OBVIOUS
      <4>4. Closed(R)
        BY <4>2, <4>3 DEF Closed
      <4>5. QED
        BY <2>1, <3>1, <4>1, <4>4
    <3>2. CASE i # n
      <4>1. PICK j \in (i + 1)..n : \E u \in Spelt(Part(s, i, j)), v \in h[j] : x = u \o v
        <5>1. \E j \in Ahead(s, i) : Follows(s, h, i, j, x)
          BY <2>4, <3>2, TurnIs
        <5>2. QED
          BY ONLY <5>1, Zenon DEF Ahead, Follows, n
      <4>2. PICK u \in Spelt(Part(s, i, j)), v \in h[j] : x = u \o v
        BY <4>1
      <4>3. u \in Seq(Byte) /\ j \in 2..n
        BY <1>2
      <4>4. PICK R : Closed(R) /\ <<j, v>> \in R /\ v \in Seq(Byte)
        BY <2>2, <4>2, <4>3
      <4>5. x \in Seq(Byte)
        BY <4>2, <4>3, <4>4, ConcatProperties
      <4> DEFINE Q == R \cup {<<i, x>>}
      <4>6. Q \in SUBSET T
        BY <4>4, <4>5 DEF Closed
      <4>7. ASSUME NEW k \in 2..n, NEW y \in Seq(Byte), <<k, y>> \in Q PROVE Fed(k, y, Q)
        <5>1. CASE <<k, y>> \in R
          <6>1. Fed(k, y, R)
            BY <4>4, <5>1 DEF Closed
          <6>2. QED
            BY <6>1
        <5>2. CASE k = i /\ y = x
          BY <3>2, <4>1, <4>2, <4>4, <5>2
        <5>3. QED
          BY <4>7, <5>1, <5>2
      <4>8. Closed(Q)
        BY <4>6, <4>7 DEF Closed
      <4>9. QED
        BY <2>1, <4>5, <4>8
    <3>3. QED
      BY <3>1, <3>2
  <2>5. QED
    BY <2>3, <2>4
<1>4. h = G(h)
  <2>1. h = [i \in 2..n |-> h[i]]
    OBVIOUS
  <2> HIDE DEF h
  <2>2. QED
    BY <1>3, <2>1
<1>5. S = G(S)
  <2> HIDE DEF h, G
  <2>1. QED
    BY <1>4
<1>6. Spelled(s) = S[2]
  BY DEF Spelled, Turn
<1> HIDE DEF S
<1>7. \A i \in 2..n : S[i] = Turn(s, i, S)
  BY <1>5
<1>8. \A i \in 2..n : S[i] \in SUBSET Seq(Byte)
  <2> DEFINE D == {i \in 2..n : S[i] \notin SUBSET Seq(Byte)}
  <2>1. SUFFICES ASSUME D # {} PROVE FALSE
    OBVIOUS
  <2>2. PICK i \in D : \A r \in D : r <= i
    <3>1. D \in SUBSET (0..n)
      BY <1>1
    <3> HIDE DEF D, n
    <3>2. QED
      BY <1>1, <2>1, <3>1, LastPosition
  <2>3. i \in 2..n /\ S[i] = Turn(s, i, S)
    BY <1>7
  <2>4. ASSUME NEW x \in S[i] PROVE x \in Seq(Byte)
    <3>1. CASE i = n
      <4>1. x = <<>>
        BY <2>3, <2>4, <3>1, LastTurn
      <4>2. QED
        BY <4>1
    <3>2. CASE i # n
      <4>1. PICK j \in (i + 1)..n : \E u \in Spelt(Part(s, i, j)), v \in S[j] : x = u \o v
        <5>1. x \in Turn(s, i, S)
          BY <2>3, <2>4
        <5>2. \E j \in Ahead(s, i) : Follows(s, S, i, j, x)
          BY <3>2, <5>1, TurnIs
        <5>3. QED
          BY ONLY <5>2, Zenon DEF Ahead, Follows, n
      <4>2. PICK u \in Spelt(Part(s, i, j)), v \in S[j] : x = u \o v
        BY <4>1
      <4>3. u \in Seq(Byte) /\ j \in 2..n
        BY <1>2, <2>3
      <4>4. ~(j <= i)
        BY <2>3
      <4>5. S[j] \in SUBSET Seq(Byte)
        BY <2>2, <4>3, <4>4
      <4>6. QED
        BY <4>2, <4>3, <4>5, ConcatProperties
    <3>3. QED
      BY <3>1, <3>2
  <2>5. QED
    BY <2>2, <2>4
<1>9. Turns(s, S)
  BY <1>6, <1>7, <1>8 DEF Turns
<1>10. QED
  BY <1>9

\* What may follow, after w.
Prefixed(w, V) == {w \o v : v \in V}

\* The places that something follows.
Inside(s) == 2..(Len(s) - 1)

LEMMA LaterTurn ==
    ASSUME NEW s \in Seq(Byte), NEW S, Turns(s, S), NEW i \in Inside(s)
    PROVE  \A x : x \in S[i] <=> \E j \in Ahead(s, i) : Follows(s, S, i, j, x)
<1>1. i \in 2..Len(s) /\ i # Len(s)
  BY DEF Inside
<1>2. S[i] = Turn(s, i, S)
  BY <1>1 DEF Turns
<1>3. QED
  BY <1>1, <1>2, TurnIs

\* Only the part up to next spells anything at i.
Alone(s, i, next, w) ==
    /\ next \in Ahead(s, i) /\ Spelt(Part(s, i, next)) = {w}
    /\ \A j \in Ahead(s, i) : j # next => Spelt(Part(s, i, j)) = {}

LEMMA OneTurn ==
    ASSUME NEW s \in Seq(Byte), NEW S, Turns(s, S), NEW i \in Inside(s), NEW next, NEW w, Alone(s, i, next, w)
    PROVE  S[i] = Prefixed(w, S[next])
<1>1. \A x : x \in S[i] <=> \E j \in Ahead(s, i) : Follows(s, S, i, j, x)
  BY LaterTurn
<1>2. \A x : x \in S[i] <=> \E v \in S[next] : x = w \o v
  BY <1>1, Zenon DEF Follows, Alone
<1>3. QED
  BY ONLY <1>2, Zenon DEF Prefixed

LEMMA NoTurn ==
    ASSUME NEW s \in Seq(Byte), NEW S, Turns(s, S), NEW i \in Inside(s),
           \A j \in Ahead(s, i) : Spelt(Part(s, i, j)) = {}
    PROVE  S[i] = {}
<1>1. \A x : x \in S[i] <=> \E j \in Ahead(s, i) : Follows(s, S, i, j, x)
  BY LaterTurn
<1>2. QED
  BY <1>1, Zenon DEF Follows

\* What cannot stand in a string: the controls, and the quote that ends it.
Stops == 0..31 \cup {34}

\* A byte that begins no escape stands for itself, if it may stand in a string at all.
LEMMA RawTurn ==
    ASSUME NEW s \in Seq(Byte), NEW i \in 1..Len(s), NEW j \in (i + 1)..(Len(s) + 1), s[i] # 92
    PROVE  Spelt(Part(s, i, j)) = IF j = i + 1 /\ s[i] \notin Stops THEN {<<s[i]>>} ELSE {}
<1> DEFINE u == Part(s, i, j)
<1>1. u \in Seq(Byte) /\ Len(u) = j - i /\ \A k \in 1..(j - i) : u[k] = s[i + k - 1]
  <2>1. i \in 1..(Len(s) + 1) /\ j \in i..(Len(s) + 1)
    OBVIOUS
  <2>2. QED
    BY <2>1, PartIs
<1>2. u[1] = s[i] /\ u[1] # 92 /\ (j = i + 1 <=> Len(u) = 1)
  BY <1>1
<1> HIDE DEF u
<1>3. ~IsUnit(u)
  BY <1>2 DEF IsUnit
<1>4. Len(u) = 12 => ~IsUnit(Part(u, 1, 7))
  <2>1. SUFFICES ASSUME Len(u) = 12 PROVE Part(u, 1, 7)[1] # 92
    BY DEF IsUnit
  <2>2. 1 \in 1..(Len(u) + 1) /\ 7 \in 1..(Len(u) + 1) /\ 1 \in 1..(7 - 1) /\ 1 + 1 - 1 = 1
    BY <2>1
  <2>3. Part(u, 1, 7)[1] = u[1]
    BY <1>1, <2>2, PartIs, ZenonT(40)
  <2>4. QED
    BY <1>2, <2>3
<1>5. Scalars(u) = {}
  BY <1>2, <1>3, <1>4, SMT DEF Scalars
<1>6. Spelt(u) = IF Len(u) = 1 /\ u[1] \notin 0..31 \cup {34, 92} THEN {u} ELSE {}
  <2> DEFINE kept == {c \in Scalars(u) : Encodes(c, append_utf8(c))}
  <2>1. kept = {}
    BY <1>5
  <2>2. Spelt(u) = IF Len(u) = 1 /\ u[1] \notin 0..31 \cup {34, 92} THEN {u} ELSE {append_utf8(c) : c \in kept}
    BY Zenon DEF Spelt
  <2> HIDE DEF kept
  <2>3. {append_utf8(c) : c \in kept} = {}
    BY ONLY <2>1
  <2>4. QED
    BY ONLY <2>2, <2>3
<1>7. Len(u) = 1 => u = <<u[1]>>
  <2>1. SUFFICES ASSUME Len(u) = 1 PROVE u = <<u[1]>>
    OBVIOUS
  <2>2. u[1] \in Byte /\ <<u[1]>> \in Seq(Byte) /\ Len(<<u[1]>>) = 1 /\ <<u[1]>>[1] = u[1]
    BY <1>1, <2>1
  <2>3. \A k \in 1..Len(u) : u[k] = <<u[1]>>[k]
    BY <2>1, <2>2
  <2>4. QED
    BY <1>1, <2>1, <2>2, <2>3, SeqEqual
<1>8. Spelt(u) = IF Len(u) = 1 /\ u[1] \notin Stops THEN {<<u[1]>>} ELSE {}
  BY <1>2, <1>6, <1>7 DEF Stops
<1>9. QED
  BY <1>2, <1>8 DEF u

\* The three escapes that the code understands.
Letters       == {34, 92, 47, 98, 102, 110, 114, 116}
NamedAt(p)  == p + 1 <= Len(bytes) /\ ByteAt(p + 1) \in Letters
UnitAt(p)   ==
    /\ p + 1 <= Len(bytes) /\ ByteAt(p + 1) = 117
    /\ parse_hex_quad(p + 2) # -1 /\ parse_hex_quad(p + 2) \notin Surrogate
PairAt(p)   ==
    /\ p + 1 <= Len(bytes) /\ ByteAt(p + 1) = 117
    /\ parse_hex_quad(p + 2) \in Lead
    /\ ByteAt(p + 6) = 92 /\ ByteAt(p + 7) = 117 /\ parse_hex_quad(p + 8) \in Trail
PairOf(h, l) == 65536 + (h - 55296) * 1024 + (l - 56320)

LEMMA EscapeIs ==
    ASSUME NEW p \in Nat, Len(bytes) \in Nat
    PROVE  /\ NamedAt(p) => EscapeAt(p) = Escape("none", <<Unescaped(ByteAt(p + 1))>>, p + 2)
           /\ UnitAt(p)  => EscapeAt(p) = Escape("none", append_utf8(parse_hex_quad(p + 2)), p + 6)
           /\ PairAt(p)  => EscapeAt(p) = Escape("none", append_utf8(PairOf(parse_hex_quad(p + 2), parse_hex_quad(p + 8))),
                                                 p + 12)
           /\ ~NamedAt(p) /\ ~UnitAt(p) /\ ~PairAt(p) => EscapeAt(p).code # "none"
<1> DEFINE b == ByteAt(p + 1)
           high == parse_hex_quad(p + 2)
           low == parse_hex_quad(p + 8)
           late == p + 1 > Len(bytes)
           alone == b \in {Quote, Backslash, 47, 98, 102, 110, 114, 116}
           bad == high = -1 \/ high \in 56320..57343
           single == high \notin Surrogate
           open == ByteAt(p + 6) # Backslash \/ ByteAt(p + 7) # 117 \/ low \notin 56320..57343
           good1 == Escape("none", <<Unescaped(b)>>, p + 2)
           good2 == Escape("none", append_utf8(high), p + 6)
           good3 == Escape("none", append_utf8(65536 + (high - 55296) * 1024 + (low - 56320)), p + 12)
<1>1. EscapeAt(p) = IF late THEN Escape("invalid_escape", <<>>, p)
                    ELSE IF alone THEN good1
                    ELSE IF b # 117 THEN Escape("invalid_escape", <<>>, p)
                    ELSE IF bad THEN Escape("invalid_unicode", <<>>, p)
                    ELSE IF single THEN good2
                    ELSE IF open THEN Escape("invalid_unicode", <<>>, p)
                    ELSE good3
  BY SMT DEF EscapeAt
<1>2. NamedAt(p) <=> ~late /\ alone
  BY SMT DEF NamedAt, Letters, Quote, Backslash
<1>3. alone => b # 117
  BY SMTT(30) DEF Quote, Backslash
<1>4. Surrogate = Lead \cup Trail /\ Trail = 56320..57343 /\ (\A h \in Lead : h # -1 /\ h \notin Trail)
  BY SurrogatesAre, SMT DEF Lead, Trail
<1>5. UnitAt(p) <=> ~late /\ b = 117 /\ ~bad /\ single
  <2>1. ~late <=> p + 1 <= Len(bytes)
    BY SMT
  <2> HIDE DEF late
  <2>2. QED
    BY <1>4, <2>1, SMT DEF UnitAt
<1>6. PairAt(p) <=> ~late /\ b = 117 /\ ~bad /\ ~single /\ ~open
  <2>1. ~late <=> p + 1 <= Len(bytes)
    BY SMT
  <2> HIDE DEF late
  <2>2. QED
    BY <1>4, <2>1, SMT DEF PairAt, Backslash
<1>7. good3 = Escape("none", append_utf8(PairOf(high, low)), p + 12)
  BY SMT DEF PairOf
<1>8. /\ Escape("invalid_escape", <<>>, p).code # "none"
      /\ Escape("invalid_unicode", <<>>, p).code # "none"
  BY SMT DEF Escape
<1> HIDE DEF high, low, late, alone, bad, single, open, good1, good2, good3, b
<1>9. /\ NamedAt(p) => EscapeAt(p) = good1
      /\ UnitAt(p)  => EscapeAt(p) = good2
      /\ PairAt(p)  => EscapeAt(p) = good3
      /\ ~NamedAt(p) /\ ~UnitAt(p) /\ ~PairAt(p) => EscapeAt(p).code # "none"
  BY ONLY <1>1, <1>2, <1>3, <1>5, <1>6, <1>8, SMT
<1>10. QED
  BY ONLY <1>7, <1>9, SMT DEF good1, good2, high, low, b

LEMMA HexIsRead ==
    ASSUME NEW b \in Byte
    PROVE  /\ hex_value(b) = -1 <=> b \notin HexDigits
           /\ b \in HexDigits => hex_value(b) = HexOf(b)
<1>1. b \in 0..255 /\ b \in Int
  BY DEF Byte
<1>2. b \in 48..57 => hex_value(b) = b - 48 /\ HexOf(b) = b - 48 /\ b \in HexDigits
  BY <1>1 DEF hex_value, HexOf, HexDigits, Digit
<1>3. b \in 97..102 => hex_value(b) = b - 87 /\ HexOf(b) = b - 87 /\ b \in HexDigits
  BY <1>1 DEF hex_value, HexOf, HexDigits, Digit
<1>4. b \in 65..70 => hex_value(b) = b - 55 /\ HexOf(b) = b - 55 /\ b \in HexDigits
  BY <1>1 DEF hex_value, HexOf, HexDigits, Digit
<1>5. b \notin 48..57 /\ b \notin 97..102 /\ b \notin 65..70 => hex_value(b) = -1 /\ b \notin HexDigits
  BY <1>1 DEF hex_value, HexDigits, Digit
<1>6. QED
  BY <1>1, <1>2, <1>3, <1>4, <1>5

LEMMA UnitRead ==
    ASSUME bytes \in Seq(Byte), NEW p \in 1..Len(bytes), p + 6 <= Len(bytes) + 1, NEW u, u = Part(bytes, p, p + 6)
    PROVE  /\ IsUnit(u) <=> bytes[p] = 92 /\ bytes[p + 1] = 117 /\ parse_hex_quad(p + 2) # -1
           /\ IsUnit(u) => UnitOf(u) = parse_hex_quad(p + 2)
<1>1. p \in 1..(Len(bytes) + 1) /\ p + 6 \in p..(Len(bytes) + 1) /\ Len(bytes) \in Nat /\ p \in Nat
  OBVIOUS
<1>2. u \in Seq(Byte) /\ Len(u) = (p + 6) - p /\ \A k \in 1..((p + 6) - p) : u[k] = bytes[p + k - 1]
  BY <1>1, PartIs
<1>3. Len(u) = 6 /\ \A k \in 1..6 : u[k] = bytes[p + k - 1] /\ u[k] \in Byte
  BY <1>1, <1>2, SMTT(30)
<1>4. u[1] = bytes[p] /\ u[2] = bytes[p + 1] /\ u[3] = bytes[p + 2] /\ u[4] = bytes[p + 3]
      /\ u[5] = bytes[p + 4] /\ u[6] = bytes[p + 5]
  BY <1>1, <1>3, SMTT(30)
<1>5. IsUnit(u) <=> u[1] = 92 /\ u[2] = 117 /\ u[3] \in HexDigits /\ u[4] \in HexDigits /\ u[5] \in HexDigits /\ u[6] \in HexDigits
  <2>1. 3..6 = {3, 4, 5, 6}
    OBVIOUS
  <2>2. QED
    BY <1>3, <2>1 DEF IsUnit
<1> DEFINE q == p + 2
           a == bytes[q]
           b == bytes[q + 1]
           c == bytes[q + 2]
           d == bytes[q + 3]
<1>6. u[3] = a /\ u[4] = b /\ u[5] = c /\ u[6] = d
  <2>1. q + 1 = p + 3 /\ q + 2 = p + 4 /\ q + 3 = p + 5
    BY <1>1
  <2>2. QED
    BY <1>4, <2>1
<1>7. a \in Byte /\ b \in Byte /\ c \in Byte /\ d \in Byte
  BY <1>3, <1>6, SMTT(30)
<1>8. ~(q + 3 > Len(bytes)) /\ q..(q + 3) = {q, q + 1, q + 2, q + 3}
  BY <1>1
<1> HIDE DEF q
<1>9. parse_hex_quad(q) =
         IF hex_value(a) = -1 \/ hex_value(b) = -1 \/ hex_value(c) = -1 \/ hex_value(d) = -1 THEN -1
         ELSE 4096 * hex_value(a) + 256 * hex_value(b) + 16 * hex_value(c) + hex_value(d)
  <2>1. (\E k \in {q, q + 1, q + 2, q + 3} : hex_value(bytes[k]) = -1)
           <=> hex_value(a) = -1 \/ hex_value(b) = -1 \/ hex_value(c) = -1 \/ hex_value(d) = -1
    BY Zenon
  <2>2. (q + 3 > Len(bytes) \/ \E k \in q..(q + 3) : hex_value(bytes[k]) = -1)
           <=> hex_value(a) = -1 \/ hex_value(b) = -1 \/ hex_value(c) = -1 \/ hex_value(d) = -1
    BY ONLY <1>8, <2>1, Zenon
  <2>3. parse_hex_quad(q) =
           IF q + 3 > Len(bytes) \/ \E k \in q..(q + 3) : hex_value(bytes[k]) = -1 THEN -1
           ELSE 4096 * hex_value(a) + 256 * hex_value(b) + 16 * hex_value(c) + hex_value(d)
    BY SMT DEF parse_hex_quad
  <2> HIDE DEF a, b, c, d
  <2>4. QED
    BY ONLY <2>2, <2>3, SMT
<1> HIDE DEF a, b, c, d
<1>10. /\ hex_value(a) = -1 <=> a \notin HexDigits
       /\ a \in HexDigits => hex_value(a) = HexOf(a)
       /\ hex_value(b) = -1 <=> b \notin HexDigits
       /\ b \in HexDigits => hex_value(b) = HexOf(b)
       /\ hex_value(c) = -1 <=> c \notin HexDigits
       /\ c \in HexDigits => hex_value(c) = HexOf(c)
       /\ hex_value(d) = -1 <=> d \notin HexDigits
       /\ d \in HexDigits => hex_value(d) = HexOf(d)
  BY <1>7, HexIsRead
<1>11. \A x \in HexDigits : HexOf(x) \in 0..15
  BY DEF HexDigits, HexOf
<1>12. ASSUME a \in HexDigits, b \in HexDigits, c \in HexDigits, d \in HexDigits
       PROVE  parse_hex_quad(q) = UnitOf(u) /\ parse_hex_quad(q) # -1
  <2>1. parse_hex_quad(q) = 4096 * HexOf(a) + 256 * HexOf(b) + 16 * HexOf(c) + HexOf(d)
    BY ONLY <1>9, <1>10, <1>12, SMT
  <2>2. HexOf(a) \in 0..15 /\ HexOf(b) \in 0..15 /\ HexOf(c) \in 0..15 /\ HexOf(d) \in 0..15
    BY ONLY <1>11, <1>12, Zenon
  <2>3. parse_hex_quad(q) # -1
    <3> DEFINE value == parse_hex_quad(q)
               k == HexOf(a)
               l == HexOf(b)
               m == HexOf(c)
               n == HexOf(d)
    <3>1. value = 4096 * k + 256 * l + 16 * m + n /\ k \in 0..15 /\ l \in 0..15 /\ m \in 0..15 /\ n \in 0..15
      BY <2>1, <2>2, SMT
    <3> HIDE DEF value, k, l, m, n
    <3>2. value \in Nat
      BY ONLY <3>1, SMT
    <3>3. value # -1
      BY ONLY <3>2, SMT
    <3>4. QED
      BY ONLY <3>3, Zenon DEF value
  <2>4. UnitOf(u) = 4096 * HexOf(a) + 256 * HexOf(b) + 16 * HexOf(c) + HexOf(d)
    BY <1>6, SMT DEF UnitOf
  <2>5. QED
    BY ONLY <2>1, <2>3, <2>4, SMT
<1>13. parse_hex_quad(q) # -1 => a \in HexDigits /\ b \in HexDigits /\ c \in HexDigits /\ d \in HexDigits
  BY ONLY <1>9, <1>10, SMT
<1>14. QED
  BY ONLY <1>4, <1>5, <1>6, <1>12, <1>13, ZenonT(40) DEF q

LEMMA PartOfPart ==
    ASSUME NEW s \in Seq(Byte), NEW i \in 1..(Len(s) + 1), NEW j \in i..(Len(s) + 1),
           NEW k \in 1..(j - i + 1), NEW l \in k..(j - i + 1)
    PROVE  Part(Part(s, i, j), k, l) = Part(s, i + k - 1, i + l - 1)
<1> DEFINE u == Part(s, i, j)
           v == Part(u, k, l)
           w == Part(s, i + k - 1, i + l - 1)
<1>1. u \in Seq(Byte) /\ Len(u) = j - i /\ \A m \in 1..(j - i) : u[m] = s[i + m - 1]
  BY PartIs
<1> HIDE DEF u
<1>2. k \in 1..(Len(u) + 1) /\ l \in k..(Len(u) + 1)
  BY <1>1
<1>3. v \in Seq(Byte) /\ Len(v) = l - k /\ \A m \in 1..(l - k) : v[m] = u[k + m - 1]
  BY <1>1, <1>2, PartIs
<1>4. i + k - 1 \in 1..(Len(s) + 1) /\ i + l - 1 \in (i + k - 1)..(Len(s) + 1)
  OBVIOUS
<1>5. w \in Seq(Byte) /\ Len(w) = (i + l - 1) - (i + k - 1)
      /\ \A m \in 1..((i + l - 1) - (i + k - 1)) : w[m] = s[(i + k - 1) + m - 1]
  BY <1>4, PartIs
<1>6. (i + l - 1) - (i + k - 1) = l - k
  OBVIOUS
<1> HIDE DEF v, w
<1>7. \A m \in 1..Len(v) : v[m] = w[m]
  <2>1. SUFFICES ASSUME NEW m \in 1..(l - k) PROVE v[m] = w[m]
    BY <1>3
  <2>2. k + m - 1 \in 1..(j - i) /\ i + (k + m - 1) - 1 = (i + k - 1) + m - 1
    OBVIOUS
  <2>3. v[m] = s[i + (k + m - 1) - 1]
    BY <1>1, <1>3, <2>2
  <2>4. QED
    BY <1>5, <1>6, <2>2, <2>3
<1>8. v = w
  BY <1>3, <1>5, <1>6, <1>7, SeqEqual
<1>9. QED
  BY <1>8 DEF u, v, w

\* An escape stands for what EscapeAt makes of it, and ends where EscapeAt says.
LEMMA EscapeTurn ==
    ASSUME bytes \in Seq(Byte), NEW p \in 1..Len(bytes), bytes[p] = 92, NEW j \in (p + 1)..(Len(bytes) + 1)
    PROVE  Spelt(Part(bytes, p, j)) =
              IF EscapeAt(p).code = "none" /\ j = EscapeAt(p).next THEN {EscapeAt(p).spelt} ELSE {}
<1> DEFINE u == Part(bytes, p, j)
           b == ByteAt(p + 1)
           high == parse_hex_quad(p + 2)
           low == parse_hex_quad(p + 8)
<1>1. p \in 1..(Len(bytes) + 1) /\ j \in p..(Len(bytes) + 1) /\ p \in Nat /\ j \in Nat /\ Len(bytes) \in Nat
  OBVIOUS
<1>2. u \in Seq(Byte) /\ Len(u) = j - p /\ \A k \in 1..(j - p) : u[k] = bytes[p + k - 1]
  BY <1>1, PartIs
<1>3. u[1] = 92
  BY <1>1, <1>2
<1>4. j >= p + 2 => p + 1 \in 1..Len(bytes) /\ b = bytes[p + 1] /\ u[2] = b
  BY <1>1, <1>2 DEF ByteAt
<1>5. Spelt(u) = {append_utf8(c) : c \in Scalars(u)}
  <2> HIDE DEF u
  <2> DEFINE kept == {c \in Scalars(u) : Encodes(c, append_utf8(c))}
  <2>1. kept = Scalars(u)
    BY <1>2, ScalarsType, AppendEncodes
  <2>2. Spelt(u) = IF Len(u) = 1 /\ u[1] \notin 0..31 \cup {34, 92} THEN {u} ELSE {append_utf8(c) : c \in kept}
    BY Zenon DEF Spelt
  <2>3. ~(Len(u) = 1 /\ u[1] \notin 0..31 \cup {34, 92})
    BY <1>3
  <2> HIDE DEF kept
  <2>4. QED
    BY ONLY <2>1, <2>2, <2>3, Zenon
<1>6. /\ NamedAt(p) => /\ EscapeAt(p).code = "none" /\ EscapeAt(p).spelt = <<Unescaped(b)>>
                       /\ EscapeAt(p).next = p + 2
      /\ UnitAt(p)  => /\ EscapeAt(p).code = "none" /\ EscapeAt(p).spelt = append_utf8(high)
                       /\ EscapeAt(p).next = p + 6
      /\ PairAt(p)  => /\ EscapeAt(p).code = "none" /\ EscapeAt(p).spelt = append_utf8(PairOf(high, low))
                       /\ EscapeAt(p).next = p + 12
      /\ ~NamedAt(p) /\ ~UnitAt(p) /\ ~PairAt(p) => EscapeAt(p).code # "none"
  <2>1. ASSUME NEW c, NEW w, NEW n PROVE Escape(c, w, n).code = c /\ Escape(c, w, n).spelt = w /\ Escape(c, w, n).next = n
    BY DEF Escape
  <2>2. /\ NamedAt(p) => EscapeAt(p) = Escape("none", <<Unescaped(b)>>, p + 2)
        /\ UnitAt(p)  => EscapeAt(p) = Escape("none", append_utf8(high), p + 6)
        /\ PairAt(p)  => EscapeAt(p) = Escape("none", append_utf8(PairOf(high, low)), p + 12)
        /\ ~NamedAt(p) /\ ~UnitAt(p) /\ ~PairAt(p) => EscapeAt(p).code # "none"
    BY <1>1, EscapeIs, SMT
  <2> HIDE DEF b, high, low
  <2>3. QED
    BY ONLY <2>1, <2>2, SMT
<1>7. /\ NamedAt(p) => ~UnitAt(p) /\ ~PairAt(p)
      /\ UnitAt(p) => ~PairAt(p)
  BY SurrogatesAre, SMTT(30) DEF NamedAt, UnitAt, PairAt, Letters
<1> HIDE DEF u
<1>8. CASE j = p + 2
  <2>1. Len(u) = 2 /\ (NamedAt(p) <=> b \in Letters)
    BY <1>1, <1>2, <1>4, <1>8 DEF NamedAt
  <2>2. Scalars(u) = {pair[2] : pair \in {pair \in Named : pair[1] = b}}
    BY <1>3, <1>4, <1>8, <2>1, SMT DEF Scalars
  <2>3. b \in Letters => Scalars(u) = {Unescaped(b)} /\ append_utf8(Unescaped(b)) = <<Unescaped(b)>>
    <3> HIDE DEF b
    <3>1. SUFFICES ASSUME b \in Letters
                   PROVE  Scalars(u) = {Unescaped(b)} /\ append_utf8(Unescaped(b)) = <<Unescaped(b)>>
      OBVIOUS
    <3>2. <<b, Unescaped(b)>> \in Named /\ Unescaped(b) \in Nat /\ Unescaped(b) <= 127
      BY <3>1, SMT DEF Named, Letters, Unescaped, Quote, Backslash
    <3>3. \A pair \in Named : pair[1] = b => pair[2] = Unescaped(b)
      BY SMTT(30) DEF Named, Unescaped, Quote, Backslash
    <3>4. \A c : c \in Scalars(u) <=> \E pair \in Named : pair[1] = b /\ c = pair[2]
      BY <2>2
    <3>5. \A c : c \in Scalars(u) <=> c = Unescaped(b)
      BY ONLY <3>2, <3>3, <3>4
    <3>6. \A c \in Nat : c <= 127 => append_utf8(c) = <<c>>
      BY SMT DEF append_utf8
    <3>7. QED
      BY ONLY <3>2, <3>5, <3>6
  <2>4. b \notin Letters => Scalars(u) = {}
    BY <2>2, SMT DEF Named, Letters
  <2>5. ~(j = p + 6) /\ ~(j = p + 12)
    BY <1>1, <1>8
  <2>6. QED
    BY <1>5, <1>6, <1>7, <1>8, <2>1, <2>3, <2>4, <2>5, SMTT(30) DEF u
<1>9. CASE j = p + 6
  <2>1. Len(u) = 6 /\ ~(Len(u) = 2) /\ p + 1 <= Len(bytes)
    BY <1>1, <1>2, <1>9
  <2>2. p + 6 <= Len(bytes) + 1 /\ u = Part(bytes, p, p + 6)
    BY <1>1, <1>9 DEF u
  <2>3. /\ IsUnit(u) <=> b = 117 /\ high # -1
        /\ IsUnit(u) => UnitOf(u) = high
    <3>1. j >= p + 2
      BY <1>1, <1>9
    <3>2. QED
      BY <1>4, <2>2, <3>1, UnitRead
  <2>4. IsUnit(u) => Scalars(u) = {UnitOf(u)} \ (Lead \cup Trail)
    BY <2>1, SMT DEF Scalars
  <2>5. ~IsUnit(u) => Scalars(u) = {}
    BY <2>1, SMT DEF Scalars
  <2>6. UnitAt(p) <=> IsUnit(u) /\ high \notin Surrogate
    BY <2>1, <2>3, Zenon DEF UnitAt
  <2>7. UnitAt(p) => Scalars(u) = {high}
    BY <2>3, <2>4, <2>6, SurrogatesAre
  <2>8. ~UnitAt(p) => Scalars(u) = {}
    BY <2>3, <2>4, <2>5, <2>6, SurrogatesAre
  <2>9. ~(j = p + 2) /\ ~(j = p + 12)
    BY <1>1, <1>9
  <2>10. QED
    BY <1>5, <1>6, <1>7, <1>9, <2>7, <2>8, <2>9, SMT DEF u
<1>10. CASE j = p + 12
  <2> DEFINE first == Part(u, 1, 7)
             second == Part(u, 7, 13)
  <2>1. Len(u) = 12 /\ ~(Len(u) = 2) /\ ~IsUnit(u) /\ p + 1 <= Len(bytes)
    BY <1>1, <1>2, <1>10 DEF IsUnit
  <2>2. first = Part(bytes, p, p + 6) /\ second = Part(bytes, p + 6, (p + 6) + 6)
    <3>1. /\ 1 \in 1..(j - p + 1) /\ 7 \in 1..(j - p + 1) /\ 7 \in 7..(j - p + 1) /\ 13 \in 7..(j - p + 1)
          /\ p + 1 - 1 = p /\ p + 7 - 1 = p + 6 /\ p + 13 - 1 = (p + 6) + 6
      BY <1>1, <1>10
    <3>2. Part(Part(bytes, p, j), 1, 7) = Part(bytes, p + 1 - 1, p + 7 - 1)
      BY <1>1, <3>1, PartOfPart
    <3>3. Part(Part(bytes, p, j), 7, 13) = Part(bytes, p + 7 - 1, p + 13 - 1)
      BY <1>1, <3>1, PartOfPart
    <3>4. QED
      BY <3>1, <3>2, <3>3 DEF u
  <2>3. /\ IsUnit(first) <=> b = 117 /\ high # -1
        /\ IsUnit(first) => UnitOf(first) = high
    <3>1. j >= p + 2 /\ p + 6 <= Len(bytes) + 1
      BY <1>1, <1>10
    <3>2. QED
      BY <1>4, <2>2, <3>1, UnitRead
  <2>4. /\ IsUnit(second) <=> ByteAt(p + 6) = 92 /\ ByteAt(p + 7) = 117 /\ low # -1
        /\ IsUnit(second) => UnitOf(second) = low
    <3> DEFINE q == p + 6
    <3>1. q \in 1..Len(bytes) /\ q + 6 <= Len(bytes) + 1 /\ q + 1 = p + 7 /\ q + 2 = p + 8 /\ q + 1 \in 1..Len(bytes)
      BY <1>1, <1>10
    <3>2. ByteAt(q) = bytes[q] /\ ByteAt(q + 1) = bytes[q + 1]
      BY <3>1 DEF ByteAt
    <3>3. second = Part(bytes, q, q + 6)
      BY <2>2
    <3> HIDE DEF q, second
    <3>4. /\ IsUnit(second) <=> bytes[q] = 92 /\ bytes[q + 1] = 117 /\ parse_hex_quad(q + 2) # -1
          /\ IsUnit(second) => UnitOf(second) = parse_hex_quad(q + 2)
      BY <3>1, <3>3, UnitRead
    <3>5. QED
      BY <3>1, <3>2, <3>4 DEF q
  <2>5. Scalars(u) = IF IsUnit(first) /\ IsUnit(second)
                     THEN {65536 + 1024 * (h - 55296) + (l - 56320) :
                              h \in Lead \cap {UnitOf(first)}, l \in Trail \cap {UnitOf(second)}}
                     ELSE {}
    BY <2>1, SMT DEF Scalars
  <2>6. \A h \in Lead \cup Trail : h # -1
    BY SMT DEF Lead, Trail
  <2>7. PairAt(p) <=> IsUnit(first) /\ IsUnit(second) /\ high \in Lead /\ low \in Trail
    BY <2>1, <2>3, <2>4, <2>6, ZenonT(40) DEF PairAt
  <2> HIDE DEF first, second
  <2>8. PairAt(p) => Scalars(u) = {PairOf(high, low)}
    <3>1. SUFFICES ASSUME PairAt(p) PROVE Scalars(u) = {PairOf(high, low)}
      OBVIOUS
    <3>2. Lead \cap {UnitOf(first)} = {high} /\ Trail \cap {UnitOf(second)} = {low}
      BY <2>3, <2>4, <2>7, <3>1
    <3> HIDE DEF high, low
    <3>3. \A c : c \in Scalars(u) <=> c = 65536 + 1024 * (high - 55296) + (low - 56320)
      BY <2>5, <2>7, <3>1, <3>2, SMT
    <3>4. high \in Int /\ low \in Int
      <4>1. high \in Lead /\ low \in Trail
        BY <2>7, <3>1
      <4>2. QED
        BY ONLY <4>1, SMT DEF Lead, Trail
    <3>5. 65536 + 1024 * (high - 55296) + (low - 56320) = PairOf(high, low)
      BY <3>4, SMT DEF PairOf
    <3>6. QED
      BY <3>3, <3>5, SMT
  <2>9. ~PairAt(p) => Scalars(u) = {}
    <3>1. SUFFICES ASSUME ~PairAt(p), NEW c \in Scalars(u) PROVE FALSE
      OBVIOUS
    <3>2. IsUnit(first) /\ IsUnit(second) /\ UnitOf(first) \in Lead /\ UnitOf(second) \in Trail
      BY <2>5, <3>1, SMT
    <3>3. QED
      BY <2>3, <2>4, <2>7, <3>1, <3>2
  <2>10. ~(j = p + 2) /\ ~(j = p + 6)
    BY <1>1, <1>10
  <2>11. QED
    BY <1>5, <1>6, <1>7, <1>10, <2>8, <2>9, <2>10, SMT DEF u
<1>11. CASE j # p + 2 /\ j # p + 6 /\ j # p + 12
  <2>1. Len(u) # 2 /\ Len(u) # 6 /\ Len(u) # 12
    BY <1>1, <1>2, <1>11
  <2>2. Scalars(u) = {}
    BY <2>1, SMT DEF Scalars, IsUnit
  <2>3. ~(EscapeAt(p).code = "none" /\ j = EscapeAt(p).next)
    BY <1>6, <1>11
  <2>4. QED
    BY <1>5, <2>2, <2>3, SMT DEF u
<1>12. QED
  BY <1>8, <1>9, <1>10, <1>11

\* What parse_string has of its value.
Read == owned \o Taken(position)

LEMMA PrefixedTwice ==
    ASSUME NEW w \in Seq(Byte), NEW u \in Seq(Byte), NEW D \in SUBSET Seq(Byte)
    PROVE  Prefixed(w, Prefixed(u, D)) = Prefixed(w \o u, D)
<1> DEFINE E(v) == w \o (u \o v)
           F(v) == (w \o u) \o v
<1>1. \A v \in D : E(v) = F(v)
  <2>1. TAKE v \in D
  <2>2. v \in Seq(Byte)
    OBVIOUS
  <2>3. QED
    BY <2>2, BytesJoin, Zenon
<1>2. \A x : x \in Prefixed(w, Prefixed(u, D)) <=> \E v \in D : x = E(v)
  BY DEF Prefixed
<1>3. \A x : x \in Prefixed(w \o u, D) <=> \E v \in D : x = F(v)
  BY DEF Prefixed
<1> HIDE DEF E, F
<1>4. \A x : x \in Prefixed(w, Prefixed(u, D)) <=> x \in Prefixed(w \o u, D)
  BY <1>1, <1>2, <1>3
<1>5. QED
  BY <1>4 DEF Prefixed

LEMMA PrefixedNone == ASSUME NEW A, NEW w, A = Prefixed(w, {}) PROVE A = {}
BY DEF Prefixed

\* How far it has come, in the turns that Spelled takes.
Spelling(S) ==
    /\ part = "string" =>
          /\ position \in 2..(Len(bytes) + 1) /\ bytes[1] = 34
          /\ owned \in Seq(Byte) /\ Taken(position) \in Seq(Byte)
          /\ owns_value <=> \E k \in 2..(position - 1) : bytes[k] = 92
          /\ position <= Len(bytes) => S[2] = Prefixed(Read, S[position])
          /\ position = Len(bytes) + 1 => StringsOf(bytes) = {}
    /\ part = "end" => TextMeans
SpellingInv == wanted \in StringLike /\ rule.kind = "none" => \A S : Turns(bytes, S) => Spelling(S)

LEMMA StringEnds ==
    ASSUME wanted \in StringLike, [TextNext]_textVars, part' = "end",
           Whole' <=> StringsOf(bytes) # {}, Whole' => StringsOf(bytes) = {parsed'}, NEW S
    PROVE  Spelling(S)'
<1>1. bytes' = bytes /\ wanted' = wanted
  BY GivenStays
<1>2. StringsOf(bytes)' = StringsOf(bytes)
  BY <1>1 DEF StringsOf
<1> DEFINE meanings == CASE wanted \in StringLike -> StringsOf(bytes)
                         [] wanted = "double"     -> NumbersOf(bytes)
                         [] OTHER                 -> IntegersOf(bytes)
<1>3. meanings' = StringsOf(bytes)'
  <2>1. wanted' \in StringLike
    BY <1>1 DEF StringLike
  <2>2. wanted' # "double"
    BY <2>1 DEF StringLike
  <2>3. QED
    BY <2>1, <2>2 DEF StringLike
<1>4. TextMeans'
  <2>1. TextMeans' <=> (verdict' # "reading" /\ rule'.kind = "none" =>
                          (Whole' <=> meanings' # {}) /\ (Whole' => meanings' = {parsed'}))
    BY DEF TextMeans
  <2> HIDE DEF meanings
  <2>2. QED
    BY <1>2, <1>3, <2>1
<1>5. QED
  BY <1>4 DEF Spelling

LEMMA StringRefused ==
    ASSUME wanted \in StringLike, [TextNext]_textVars, NEW code, code # "accepted", Refuse(code),
           StringsOf(bytes) = {}, NEW S
    PROVE  Spelling(S)'
<1>1. part' = "end" /\ ~Whole'
  BY DEF Refuse, Whole
<1>2. QED
  BY <1>1, StringEnds

\* A text that spells nothing, or that does not end with its quote, is no string.
LEMMA NoString ==
    ASSUME NEW S, Turns(bytes, S), S[2] = {} \/ ~IsQuoted(bytes)
    PROVE  StringsOf(bytes) = {}
<1>1. S[2] = Spelled(bytes)
  BY DEF Turns
<1>2. QED
  BY <1>1 DEF StringsOf

LEMMA SpellingOpens ==
    ASSUME TokenInv, wanted \in StringLike, OpenString, NEW S, Turns(bytes, S)
    PROVE  Spelling(S)'
<1>1. /\ position = 1 /\ owned = <<>> /\ ~owns_value /\ bytes \in Seq(Byte) /\ Len(bytes) \in Nat
  BY DEF TokenInv, TextTypeOK, OpenString
<1>2. CASE ByteAt(position) # Quote
  <2>1. ~IsQuoted(bytes)
    BY <1>1, <1>2 DEF IsQuoted, ByteAt, Quote
  <2>2. StringsOf(bytes) = {}
    BY <2>1, NoString
  <2>3. Refuse("expected_string") /\ [TextNext]_textVars
    BY <1>2 DEF OpenString, TextNext
  <2>4. QED
    BY <2>2, <2>3, StringRefused
<1>3. CASE ByteAt(position) = Quote
  <2>1. /\ part' = "string" /\ position' = 2 /\ segment_start' = 2 /\ bytes' = bytes /\ wanted' = wanted
        /\ owned' = <<>> /\ ~owns_value'
    <3>1. /\ part' = "string" /\ position' = position + 1 /\ segment_start' = position + 1
          /\ bytes' = bytes /\ wanted' = wanted /\ owned' = owned /\ owns_value' = owns_value
      BY <1>3, Zenon DEF OpenString, givenVars
    <3>2. position + 1 = 2
      BY <1>1
    <3>3. QED
      BY <1>1, <3>1, <3>2, Zenon
  <2>2. bytes[1] = 34 /\ 1 <= Len(bytes)
    BY <1>1, <1>3 DEF ByteAt, Quote
  <2>3. Taken(position)' = <<>> /\ Read' = <<>>
    <3>1. SubSeq(bytes', 2, 2 - 1) = <<>>
      BY <1>1, <2>1
    <3>2. Taken(position)' = <<>>
      BY <2>1, <3>1 DEF Taken
    <3>3. <<>> \o <<>> = <<>>
      OBVIOUS
    <3>4. QED
      BY <2>1, <3>2, <3>3 DEF Read
  <2>4. 2 <= Len(bytes) => S[2] = Prefixed(<<>>, S[2])
    <3>1. SUFFICES ASSUME 2 <= Len(bytes) PROVE S[2] = Prefixed(<<>>, S[2])
      OBVIOUS
    <3>2. S[2] \in SUBSET Seq(Byte)
      BY <1>1, <3>1 DEF Turns
    <3>3. \A v \in S[2] : <<>> \o v = v
      BY <3>2, ConcatEmptySeq
    <3>4. QED
      BY <3>3 DEF Prefixed
  <2>5. 2 = Len(bytes) + 1 => StringsOf(bytes) = {}
    <3>1. SUFFICES ASSUME 2 = Len(bytes) + 1 PROVE ~IsQuoted(bytes)
      BY NoString
    <3>2. QED
      BY <1>1, <3>1 DEF IsQuoted
  <2>6. StringsOf(bytes)' = StringsOf(bytes)
    BY <2>1 DEF StringsOf
  <2>7. <<>> \in Seq(Byte) /\ 2 \in 2..(Len(bytes) + 1) /\ ~\E k \in 2..(2 - 1) : bytes[k] = 92
    BY <1>1, <2>2
  <2>8. /\ position' \in 2..(Len(bytes') + 1) /\ bytes'[1] = 34
        /\ owned' \in Seq(Byte) /\ Taken(position)' \in Seq(Byte)
    BY <2>1, <2>2, <2>3, <2>7, ZenonT(40)
  <2>9. owns_value' <=> \E k \in 2..(position' - 1) : bytes'[k] = 92
    BY <2>1, <2>7
  <2>10. /\ position' <= Len(bytes') => S[2] = Prefixed(Read', S[position'])
         /\ position' = Len(bytes') + 1 => StringsOf(bytes)' = {}
    BY <2>1, <2>3, <2>4, <2>5, <2>6
  <2>11. part' # "end"
    BY <2>1
  <2>12. QED
    BY <2>8, <2>9, <2>10, <2>11, Zenon DEF Spelling
<1>4. QED
  BY <1>2, <1>3

\* Where it stands, in the words of the invariant.
LEMMA StringStands ==
    ASSUME TokenInv, part = "string", NEW S, Spelling(S), position <= Len(bytes)
    PROVE  /\ bytes \in Seq(Byte) /\ Len(bytes) \in Nat /\ position \in 2..Len(bytes)
           /\ ByteAt(position) = bytes[position] /\ bytes[position] \in Byte
           /\ owned \in Seq(Byte) /\ Taken(position) \in Seq(Byte) /\ Read \in Seq(Byte)
           /\ owns_value <=> \E k \in 2..(position - 1) : bytes[k] = 92
           /\ S[2] = Prefixed(Read, S[position]) /\ bytes[1] = 34
           /\ position = Len(bytes) \/ position \in 2..(Len(bytes) - 1)
<1>1. bytes \in Seq(Byte) /\ Len(bytes) \in Nat /\ position \in 2..Len(bytes)
  BY DEF TokenInv, Spelling
<1>2. ByteAt(position) = bytes[position] /\ bytes[position] \in Byte
  BY <1>1 DEF ByteAt
<1>3. owned \in Seq(Byte) /\ Taken(position) \in Seq(Byte) /\ S[2] = Prefixed(Read, S[position]) /\ bytes[1] = 34
  BY DEF Spelling
<1>4. owns_value <=> \E k \in 2..(position - 1) : bytes[k] = 92
  BY Zenon DEF Spelling
<1>5. Read \in Seq(Byte)
  BY <1>3, ConcatProperties DEF Read
<1>6. QED
  BY <1>1, <1>2, <1>3, <1>4, <1>5

\* A place where nothing can go on, and that is not the end.
LEMMA NothingFollows ==
    ASSUME TokenInv, part = "string", NEW S, Turns(bytes, S), Spelling(S), position <= Len(bytes),
           position # Len(bytes) => \A j \in Ahead(bytes, position) : Spelt(Part(bytes, position, j)) = {},
           position = Len(bytes) => bytes[position] # 34
    PROVE  StringsOf(bytes) = {}
<1>1. /\ bytes \in Seq(Byte) /\ Len(bytes) \in Nat /\ position \in 2..Len(bytes)
      /\ S[2] = Prefixed(Read, S[position]) /\ (position = Len(bytes) \/ position \in 2..(Len(bytes) - 1))
  BY StringStands
<1>2. CASE position = Len(bytes)
  <2>1. ~IsQuoted(bytes)
    BY <1>1, <1>2 DEF IsQuoted
  <2>2. QED
    BY <2>1, NoString
<1>3. CASE position \in 2..(Len(bytes) - 1)
  <2>1. S[position] = {}
    <3>1. position \in Inside(bytes) /\ \A j \in Ahead(bytes, position) : Spelt(Part(bytes, position, j)) = {}
      BY <1>1, <1>3 DEF Inside
    <3>2. QED
      BY <1>1, <3>1, NoTurn
  <2>2. S[2] = {}
    BY <1>1, <2>1, PrefixedNone
  <2>3. QED
    BY <2>2, NoString
<1>4. QED
  BY <1>1, <1>2, <1>3

LEMMA OneByteMore ==
    ASSUME NEW s \in Seq(Byte), NEW i \in 1..Len(s), NEW j \in i..Len(s)
    PROVE  SubSeq(s, i, (j + 1) - 1) = SubSeq(s, i, j - 1) \o <<s[j]>>
<1>1. (j + 1) - 1 = j
  OBVIOUS
<1>2. SubSeq(s, i, j) = SubSeq(s, i, j - 1) \o <<s[j]>>
  BY SubSeqRecursiveSecond
<1>3. QED
  BY <1>1, <1>2

\* A byte that stands for itself is the next one of the value.
LEMMA ReadMore ==
    ASSUME TokenInv, position \in 1..Len(bytes), owned \in Seq(Byte), Taken(position) \in Seq(Byte),
           NEW b \in Byte, b = bytes[position],
           bytes' = bytes, position' = position + 1, segment_start' = segment_start, owned' = owned
    PROVE  Taken(position)' \in Seq(Byte) /\ Read' = Read \o <<b>> /\ <<b>> \in Seq(Byte)
<1> DEFINE e == <<b>>
<1>1. e \in Seq(Byte)
  OBVIOUS
<1>2. segment_start \in 1..Len(bytes) /\ position \in segment_start..Len(bytes) /\ bytes \in Seq(Byte)
  <2>1. bytes \in Seq(Byte) /\ Len(bytes) \in Nat /\ segment_start \in 1..position
    BY DEF TokenInv, TextTypeOK
  <2>2. QED
    BY <2>1
<1>3. SubSeq(bytes, segment_start, (position + 1) - 1) = Taken(position) \o e
  BY <1>2, OneByteMore DEF Taken
<1> HIDE DEF e
<1>4. Taken(position)' = Taken(position) \o e
  BY <1>3 DEF Taken
<1>5. Taken(position)' \in Seq(Byte)
  BY <1>1, <1>4, ConcatProperties
<1>6. owned \o (Taken(position) \o e) = (owned \o Taken(position)) \o e
  <2> DEFINE a == owned
             c == Taken(position)
  <2>1. a \in Seq(Byte) /\ c \in Seq(Byte) /\ e \in Seq(Byte)
    BY <1>1
  <2> HIDE DEF a, c
  <2>2. a \o (c \o e) = (a \o c) \o e
    BY ONLY <2>1, BytesJoin, Zenon
  <2>3. QED
    BY <2>2 DEF a, c
<1>7. Read' = owned \o (Taken(position) \o e) /\ Read = owned \o Taken(position)
  BY <1>4 DEF Read
<1>8. Read' = Read \o e
  BY <1>6, <1>7
<1>9. QED
  BY <1>1, <1>5, <1>8 DEF e

\* What follows a byte that stands for itself.
LEMMA AfterByte ==
    ASSUME NEW s \in Seq(Byte), NEW S, Turns(s, S), NEW q, q \in 2..(Len(s) - 1), s[q] # 92, s[q] \notin Stops,
           NEW w, w = <<s[q]>>, NEW next, next = q + 1
    PROVE  S[q] = Prefixed(w, S[next]) /\ S[next] \in SUBSET Seq(Byte)
<1>1. /\ q \in 1..Len(s) /\ q \in Inside(s) /\ next \in Ahead(s, q) /\ next \in 2..Len(s)
      /\ \A j \in Ahead(s, q) : j \in (q + 1)..(Len(s) + 1)
  BY DEF Inside, Ahead
<1>2. \A j \in Ahead(s, q) : Spelt(Part(s, q, j)) = IF j = q + 1 /\ s[q] \notin Stops THEN {<<s[q]>>} ELSE {}
  BY <1>1, RawTurn
<1>3. Alone(s, q, next, w)
  BY <1>1, <1>2, Zenon DEF Alone
<1>4. S[q] = Prefixed(w, S[next])
  BY <1>1, <1>3, OneTurn
<1>5. S[next] \in SUBSET Seq(Byte)
  BY <1>1, Zenon DEF Turns
<1>6. QED
  BY <1>4, <1>5

LEMMA SpellingByte ==
    ASSUME TokenInv, wanted \in StringLike, ReadByte, NEW S, Turns(bytes, S), Spelling(S)
    PROVE  Spelling(S)'
<1>1. part = "string" /\ position <= Len(bytes) /\ GoOn("string", position + 1)
  BY DEF ReadByte, InString
<1> DEFINE q == position
           n == Len(bytes)
           b == bytes[position]
<1>2. /\ bytes \in Seq(Byte) /\ n \in Nat /\ q \in 2..n /\ bytes[1] = 34 /\ b \in Byte /\ ByteAt(q) = b
      /\ owned \in Seq(Byte) /\ Taken(q) \in Seq(Byte) /\ Read \in Seq(Byte)
      /\ owns_value <=> \E k \in 2..(q - 1) : bytes[k] = 92
      /\ S[2] = Prefixed(Read, S[q]) /\ (q = n \/ q \in 2..(n - 1))
  BY <1>1, StringStands
<1>3. b # 92 /\ b \notin Stops /\ b # 34
  BY <1>2 DEF ReadByte, Quote, Backslash, Stops
<1>4. /\ part' = "string" /\ position' = q + 1 /\ bytes' = bytes /\ wanted' = wanted
      /\ segment_start' = segment_start /\ owned' = owned /\ owns_value' = owns_value
  BY <1>1, Zenon DEF GoOn, givenVars
<1>5. q \in 1..n
  BY <1>2
<1>6. Taken(position)' \in Seq(Byte) /\ Read' = Read \o <<b>> /\ <<b>> \in Seq(Byte)
  BY <1>2, <1>4, <1>5, ReadMore, SMTT(30)
<1>7. q \in 2..(n - 1) => S[2] = Prefixed(Read \o <<b>>, S[q + 1])
  <2>1. SUFFICES ASSUME q \in 2..(n - 1) PROVE S[2] = Prefixed(Read \o <<b>>, S[q + 1])
    OBVIOUS
  <2>2. S[q] = Prefixed(<<b>>, S[q + 1]) /\ S[q + 1] \in SUBSET Seq(Byte)
    BY <1>2, <1>3, <2>1, AfterByte, ZenonT(40)
  <2>3. Prefixed(Read, Prefixed(<<b>>, S[q + 1])) = Prefixed(Read \o <<b>>, S[q + 1])
    BY <1>2, <1>6, <2>2, PrefixedTwice, ZenonT(40)
  <2>4. QED
    BY <1>2, <2>2, <2>3
<1>8. q = n => StringsOf(bytes) = {}
  <2>1. SUFFICES ASSUME q = n PROVE ~IsQuoted(bytes)
    BY NoString
  <2>2. b # 34
    BY <1>3
  <2>3. QED
    BY <2>1, <2>2 DEF IsQuoted
<1>9. StringsOf(bytes)' = StringsOf(bytes)
  BY <1>4 DEF StringsOf
<1> HIDE DEF q, n, b
<1>10. owns_value' <=> \E k \in 2..((q + 1) - 1) : bytes[k] = 92
  <2>1. (q + 1) - 1 = q /\ q \in 2..n /\ n \in Nat
    BY <1>2
  <2>2. bytes[q] # 92
    BY <1>3 DEF b, q
  <2>3. \A k : k \in 2..q /\ k # q <=> k \in 2..(q - 1)
    BY ONLY <2>1
  <2>4. (\E k \in 2..q : bytes[k] = 92) <=> \E k \in 2..(q - 1) : bytes[k] = 92
    BY ONLY <2>2, <2>3, ZenonT(40)
  <2>5. QED
    BY <1>2, <1>4, <2>1, <2>4, Zenon
<1>11. q + 1 \in 2..(n + 1) /\ (q + 1 <= n => q \in 2..(n - 1)) /\ (q + 1 = n + 1 => q = n)
  BY <1>2
<1>12. /\ position' \in 2..(Len(bytes') + 1) /\ bytes'[1] = 34
       /\ owned' \in Seq(Byte) /\ Taken(position)' \in Seq(Byte)
       /\ owns_value' <=> \E k \in 2..(position' - 1) : bytes'[k] = 92
  BY <1>2, <1>4, <1>6, <1>10, <1>11, Zenon DEF n
<1>13. /\ position' <= Len(bytes') => S[2] = Prefixed(Read', S[position'])
       /\ position' = Len(bytes') + 1 => StringsOf(bytes)' = {}
  BY <1>4, <1>6, <1>7, <1>8, <1>9, <1>11, Zenon DEF n
<1>14. part' # "end"
  BY <1>4
<1>15. QED
  BY <1>12, <1>13, <1>14, Zenon DEF Spelling

LEMMA SpellingFails ==
    ASSUME TokenInv, wanted \in StringLike, BadString, NEW S, Turns(bytes, S), Spelling(S)
    PROVE  Spelling(S)'
<1>1. part = "string" /\ bytes \in Seq(Byte) /\ Len(bytes) \in Nat /\ position \in 2..(Len(bytes) + 1)
  BY DEF BadString, InString, TokenInv, Spelling
<1>2. \E code : code # "accepted" /\ Refuse(code)
  BY DEF BadString
<1>3. StringsOf(bytes) = {}
  <2>1. CASE position > Len(bytes)
    <3>1. position = Len(bytes) + 1
      BY <1>1, <2>1
    <3>2. QED
      BY <1>1, <3>1 DEF Spelling
  <2>2. CASE position <= Len(bytes)
    <3>1. ByteAt(position) \in 0..31
      BY <1>1, <2>2 DEF BadString
    <3>2. position \in 1..Len(bytes) /\ bytes[position] \in 0..31
      <4>1. position \in DOMAIN bytes /\ position \in 1..Len(bytes)
        BY <1>1, <2>2
      <4>2. QED
        BY <3>1, <4>1, Zenon DEF ByteAt
    <3>3. bytes[position] # 92 /\ bytes[position] # 34 /\ bytes[position] \in Stops
      <4>1. \A b \in 0..31 : b # 92 /\ b # 34 /\ b \in Stops
        BY DEF Stops
      <4>2. QED
        BY <3>2, <4>1, Zenon
    <3>4. ASSUME NEW j \in Ahead(bytes, position) PROVE Spelt(Part(bytes, position, j)) = {}
      <4>1. j \in (position + 1)..(Len(bytes) + 1)
        BY <1>1 DEF Ahead
      <4>2. Spelt(Part(bytes, position, j)) =
               IF j = position + 1 /\ bytes[position] \notin Stops THEN {<<bytes[position]>>} ELSE {}
        BY <1>1, <3>2, <3>3, <4>1, RawTurn
      <4>3. QED
        BY <3>3, <4>2, Zenon
    <3>5. QED
      BY <1>1, <2>2, <3>3, <3>4, NothingFollows
  <2>3. QED
    BY <1>1, <2>1, <2>2
<1>4. [TextNext]_textVars
  BY DEF TextNext
<1>5. QED
  BY <1>2, <1>3, <1>4, StringRefused

\* What an escape that is understood stands for, and what may follow it.
LEMMA AfterEscape ==
    ASSUME TokenInv, NEW S, Turns(bytes, S), position \in 2..(Len(bytes) - 1), bytes[position] = 92,
           NEW next, NEW w, EscapeAt(position) = Escape("none", w, next)
    PROVE  /\ w \in Seq(Byte) /\ next \in (position + 2)..(Len(bytes) + 1)
           /\ next <= Len(bytes) => S[position] = Prefixed(w, S[next]) /\ S[next] \in SUBSET Seq(Byte)
           /\ next = Len(bytes) + 1 => S[position] = {}
<1> DEFINE q == position
           n == Len(bytes)
<1>1. bytes \in Seq(Byte) /\ n \in Nat /\ q \in 1..n /\ q \in 2..(n - 1)
  BY DEF TokenInv
<1>2. EscapeAt(q).code = "none" /\ EscapeAt(q).spelt = w /\ EscapeAt(q).next = next
  BY DEF Escape
<1>3. next \in (q + 2)..(n + 1)
  BY <1>2, EscapeInside
<1>4. \A j \in (q + 1)..(n + 1) : Spelt(Part(bytes, q, j)) = IF j = next THEN {w} ELSE {}
  <2>1. TAKE j \in (q + 1)..(n + 1)
  <2>2. Spelt(Part(bytes, q, j)) =
           IF EscapeAt(q).code = "none" /\ j = EscapeAt(q).next THEN {EscapeAt(q).spelt} ELSE {}
    BY <1>1, EscapeTurn
  <2>3. QED
    BY <1>2, <2>2, Zenon
<1>5. q \in 1..(n + 1) /\ next \in q..(n + 1) /\ next \in (q + 1)..(n + 1)
  BY <1>1, <1>3
<1>6. Spelt(Part(bytes, q, next)) = {w}
  BY <1>4, <1>5
<1>7. w \in Seq(Byte)
  <2>1. Part(bytes, q, next) \in Seq(Byte)
    BY <1>1, <1>5, PartIs
  <2>2. Spelt(Part(bytes, q, next)) \in SUBSET Seq(Byte)
    BY <2>1, SpeltType
  <2>3. QED
    BY <1>6, <2>2
<1>8. q \in Inside(bytes) /\ \A j \in Ahead(bytes, q) : j # next => Spelt(Part(bytes, q, j)) = {}
  <2>1. q \in Inside(bytes) /\ \A j \in Ahead(bytes, q) : j \in (q + 1)..(n + 1)
    BY <1>1 DEF Inside, Ahead
  <2>2. QED
    BY <1>4, <2>1, Zenon
<1> HIDE DEF q, n
<1>9. ASSUME next <= n PROVE S[q] = Prefixed(w, S[next]) /\ S[next] \in SUBSET Seq(Byte)
  <2>1. next \in Ahead(bytes, q) /\ next \in 2..n
    BY <1>1, <1>3, <1>9 DEF Ahead, n
  <2>2. S[q] = Prefixed(w, S[next])
    <3>1. Alone(bytes, q, next, w)
      BY <1>6, <1>8, <2>1 DEF Alone
    <3>2. QED
      BY <1>1, <1>8, <3>1, OneTurn
  <2>3. S[next] \in SUBSET Seq(Byte)
    BY <2>1, Zenon DEF Turns, n
  <2>4. QED
    BY <2>2, <2>3
<1>10. ASSUME next = n + 1 PROVE S[q] = {}
  <2>1. \A j \in Ahead(bytes, q) : j # next
    BY <1>1, <1>10 DEF Ahead, n
  <2>2. QED
    BY <1>1, <1>8, <2>1, NoTurn
<1>11. QED
  BY <1>3, <1>7, <1>9, <1>10 DEF q, n

\* A text that cannot spell less than the limit is no string.
LEMMA TooLong ==
    ASSUME NEW S, Turns(bytes, S), NEW w \in Seq(Byte), ~(Len(w) <= MaximumString),
           NEW V \in SUBSET Seq(Byte), S[2] = Prefixed(w, V)
    PROVE  StringsOf(bytes) = {}
<1>1. MaximumString \in Nat
  BY TextAssumption
<1>2. ASSUME NEW v \in Spelled(bytes) PROVE ~(Len(v) <= MaximumString)
  <2>1. PICK u \in V : v = w \o u
    BY <1>2, Zenon DEF Turns, Prefixed
  <2>2. Len(v) = Len(w) + Len(u) /\ Len(w) \in Nat /\ Len(u) \in Nat
    BY <2>1, ConcatProperties
  <2>3. QED
    BY <1>1, <2>2
<1>3. QED
  BY <1>2, Zenon DEF StringsOf

\* An escape that is understood goes on after it, if what is read is not too much.
LEMMA SpellingGoesOn ==
    ASSUME TokenInv, wanted \in StringLike, ReadEscape, NEW S, Turns(bytes, S), Spelling(S),
           NEW next, NEW w, EscapeAt(position) = Escape("none", w, next), position \in 2..(Len(bytes) - 1)
    PROVE  Spelling(S)'
<1> DEFINE q == position
           n == Len(bytes)
<1>1. part = "string" /\ q <= n
  BY DEF ReadEscape, InString
<1>2. /\ bytes \in Seq(Byte) /\ n \in Nat /\ q \in 2..n /\ bytes[1] = 34 /\ ByteAt(q) = bytes[q]
      /\ owned \in Seq(Byte) /\ Taken(q) \in Seq(Byte) /\ Read \in Seq(Byte) /\ S[2] = Prefixed(Read, S[q])
  BY <1>1, StringStands
<1>3. bytes[q] = 92
  BY <1>2 DEF ReadEscape, Backslash
<1>4. /\ w \in Seq(Byte) /\ next \in (q + 2)..(n + 1)
      /\ next <= n => S[q] = Prefixed(w, S[next]) /\ S[next] \in SUBSET Seq(Byte)
      /\ next = n + 1 => S[q] = {}
  BY <1>3, AfterEscape
<1>5. owned \o Taken(q) \o w = Read \o w /\ Read \o w \in Seq(Byte)
  BY <1>2, <1>4, ConcatProperties DEF Read
<1>6. EscapeAt(q).code = "none" /\ EscapeAt(q).spelt = w /\ EscapeAt(q).next = next
  BY DEF Escape
<1>7. next <= n => S[2] = Prefixed(Read \o w, S[next])
  <2>1. SUFFICES ASSUME next <= n PROVE S[2] = Prefixed(Read \o w, S[next])
    OBVIOUS
  <2>2. S[q] = Prefixed(w, S[next]) /\ S[next] \in SUBSET Seq(Byte)
    BY <1>4, <2>1
  <2>3. Prefixed(Read, Prefixed(w, S[next])) = Prefixed(Read \o w, S[next])
    BY <1>2, <1>4, <2>2, PrefixedTwice
  <2>4. QED
    BY <1>2, <2>2, <2>3
<1>8. next = n + 1 => StringsOf(bytes) = {}
  <2>1. SUFFICES ASSUME S[q] = {} PROVE StringsOf(bytes) = {}
    BY <1>4
  <2>2. S[2] = {}
    BY <1>2, <2>1, PrefixedNone
  <2>3. QED
    BY <2>2, NoString
<1>9. CASE ~(Len(Read \o w) <= MaximumString)
  <2>1. Refuse("string_too_large")
    BY <1>5, <1>6, <1>9, Zenon DEF ReadEscape
  <2>2. StringsOf(bytes) = {}
    <3>1. next <= n \/ next = n + 1
      <4>1. n \in Nat /\ q \in 2..n
        BY <1>2, Zenon
      <4>2. next \in (q + 2)..(n + 1)
        BY <1>4, Zenon
      <4>3. QED
        BY ONLY <4>1, <4>2
    <3>2. CASE next <= n
      <4>1. S[next] \in SUBSET Seq(Byte) /\ S[2] = Prefixed(Read \o w, S[next])
        BY <1>4, <1>7, <3>2
      <4>2. QED
        BY <1>5, <1>9, <4>1, TooLong
    <3>3. QED
      BY <1>8, <3>1, <3>2
  <2>3. [TextNext]_textVars
    BY DEF TextNext
  <2>4. QED
    BY <2>1, <2>2, <2>3, StringRefused
<1>10. CASE Len(Read \o w) <= MaximumString
  <2>1. /\ owned' = Read \o w /\ owns_value' /\ position' = next /\ segment_start' = next
        /\ bytes' = bytes /\ wanted' = wanted /\ part' = part
    BY <1>5, <1>6, <1>10, Zenon DEF ReadEscape, givenVars
  <2>2. Taken(position)' = <<>>
    <3>1. next \in Int
      BY <1>2, <1>4
    <3>2. SubSeq(bytes, next, next - 1) = <<>>
      BY <1>2, <3>1
    <3>3. QED
      BY <2>1, <3>2 DEF Taken
  <2>3. Read' = Read \o w
    <3>1. (Read \o w) \o <<>> = Read \o w
      BY <1>5, ConcatEmptySeq
    <3>2. QED
      BY <2>1, <2>2, <3>1 DEF Read
  <2>4. StringsOf(bytes)' = StringsOf(bytes)
    BY <2>1 DEF StringsOf
  <2> HIDE DEF q, n
  <2>5. q \in 2..(next - 1) /\ next \in 2..(n + 1) /\ <<>> \in Seq(Byte)
    BY <1>2, <1>4
  <2>6. \E k \in 2..(next - 1) : bytes[k] = 92
    BY <1>3, <2>5
  <2>7. /\ position' \in 2..(Len(bytes') + 1) /\ bytes'[1] = 34
        /\ owned' \in Seq(Byte) /\ Taken(position)' \in Seq(Byte)
        /\ owns_value' <=> \E k \in 2..(position' - 1) : bytes'[k] = 92
    BY <1>2, <1>5, <2>1, <2>2, <2>5, <2>6, Zenon DEF n
  <2>8. /\ position' <= Len(bytes') => S[2] = Prefixed(Read', S[position'])
        /\ position' = Len(bytes') + 1 => StringsOf(bytes)' = {}
    BY <1>7, <1>8, <2>1, <2>3, <2>4, Zenon DEF n
  <2>9. part' # "end"
    BY <1>1, <2>1
  <2>10. QED
    BY <2>7, <2>8, <2>9, Zenon DEF Spelling
<1>11. QED
  BY <1>9, <1>10

LEMMA SpellingEscape ==
    ASSUME TokenInv, wanted \in StringLike, ReadEscape, NEW S, Turns(bytes, S), Spelling(S)
    PROVE  Spelling(S)'
<1> DEFINE q == position
           n == Len(bytes)
           escape == EscapeAt(q)
<1>1. part = "string" /\ q <= n /\ ByteAt(q) = 92
  BY DEF ReadEscape, InString, Backslash
<1>2. /\ bytes \in Seq(Byte) /\ n \in Nat /\ q \in 2..n /\ ByteAt(q) = bytes[q]
      /\ (q = n \/ q \in 2..(n - 1))
  BY <1>1, StringStands
<1>3. CASE escape.code # "none"
  <2>1. escape.code # "accepted" /\ Refuse(escape.code)
    <3>1. escape.code # "accepted"
      BY DEF EscapeAt, Escape
    <3>2. QED
      BY <1>3, <3>1, Zenon DEF ReadEscape
  <2>2. ASSUME NEW j \in Ahead(bytes, q) PROVE Spelt(Part(bytes, q, j)) = {}
    <3>1. q \in 1..n /\ j \in (q + 1)..(n + 1) /\ bytes[q] = 92
      BY <1>1, <1>2 DEF Ahead
    <3>2. Spelt(Part(bytes, q, j)) =
             IF EscapeAt(q).code = "none" /\ j = EscapeAt(q).next THEN {EscapeAt(q).spelt} ELSE {}
      BY <1>2, <3>1, EscapeTurn
    <3>3. QED
      BY <1>3, <3>2, Zenon
  <2>3. bytes[q] # 34
    BY <1>1, <1>2
  <2>4. StringsOf(bytes) = {}
    BY <1>1, <2>2, <2>3, NothingFollows
  <2>5. [TextNext]_textVars
    BY DEF TextNext
  <2> HIDE DEF escape
  <2>6. QED
    BY <2>1, <2>4, <2>5, StringRefused
<1>4. CASE escape.code = "none"
  <2>1. escape = Escape("none", escape.spelt, escape.next)
    <3>1. ASSUME NEW code, NEW w, NEW p, NEW e, e = Escape(code, w, p) PROVE e = Escape(e.code, e.spelt, e.next)
      BY <3>1 DEF Escape
    <3>2. \E code, w, p : escape = Escape(code, w, p)
      <4>1. q \in Nat /\ Len(bytes) \in Nat
        BY <1>2
      <4>2. ~NamedAt(q) /\ ~UnitAt(q) /\ ~PairAt(q) => escape.code # "none"
        BY <4>1, EscapeIs
      <4>3. NamedAt(q) \/ UnitAt(q) \/ PairAt(q)
        BY <1>4, <4>2
      <4> HIDE DEF escape
      <4>4. /\ NamedAt(q) => \E w, p : EscapeAt(q) = Escape("none", w, p)
            /\ UnitAt(q) => \E w, p : EscapeAt(q) = Escape("none", w, p)
            /\ PairAt(q) => \E w, p : EscapeAt(q) = Escape("none", w, p)
        <5>1. /\ NamedAt(q) => EscapeAt(q) = Escape("none", <<Unescaped(ByteAt(q + 1))>>, q + 2)
              /\ UnitAt(q)  => EscapeAt(q) = Escape("none", append_utf8(parse_hex_quad(q + 2)), q + 6)
              /\ PairAt(q)  => EscapeAt(q) = Escape("none", append_utf8(PairOf(parse_hex_quad(q + 2), parse_hex_quad(q + 8))), q + 12)
          BY <4>1, EscapeIs
        <5>2. QED
          BY <5>1, Zenon
      <4>5. QED
        BY <4>3, <4>4, Zenon DEF escape
    <3> HIDE DEF escape
    <3>3. escape = Escape(escape.code, escape.spelt, escape.next)
      BY <3>1, <3>2
    <3>4. QED
      BY <1>4, <3>3
  <2>2. escape.next \in (q + 2)..(n + 1)
    BY <1>4, EscapeInside
  <2>3. q \in 2..(n - 1)
    BY <1>2, <2>2
  <2> HIDE DEF escape
  <2>4. EscapeAt(position) = Escape("none", escape.spelt, escape.next)
    BY <2>1 DEF escape
  <2>5. QED
    BY <2>3, <2>4, SpellingGoesOn
<1>5. QED
  BY <1>3, <1>4

LEMMA SpellingCloses ==
    ASSUME TokenInv, wanted \in StringLike, rule.kind = "none", CloseString, NEW S, Turns(bytes, S), Spelling(S)
    PROVE  Spelling(S)'
<1> DEFINE q == position
           n == Len(bytes)
           escaped == \E k \in 2..(q - 1) : bytes[k] = 92
<1>1. part = "string" /\ q <= n /\ ByteAt(q) = 34
  BY DEF CloseString, InString, Quote
<1>2. /\ bytes \in Seq(Byte) /\ n \in Nat /\ q \in 2..n /\ ByteAt(q) = bytes[q] /\ bytes[1] = 34
      /\ Read \in Seq(Byte) /\ S[2] = Prefixed(Read, S[q]) /\ (q = n \/ q \in 2..(n - 1))
      /\ owns_value <=> escaped
  BY <1>1, StringStands
<1>3. bytes' = bytes /\ wanted' = wanted /\ part' = "end" /\ [TextNext]_textVars
  BY DEF CloseString, Finish, Refuse, givenVars, TextNext
<1>4. SatisfiesRule(Read)
  BY Zenon DEF SatisfiesRule
<1>5. /\ verdict' = "accepted" <=> /\ ~(Len(Read) > MaximumString) /\ valid_utf8(Read)
                                   /\ ~(wanted = "string_view" /\ owns_value)
      /\ verdict' = "accepted" => position' = q + 1 /\ parsed' = Read
  <2> DEFINE fits == ~(Len(Read) > MaximumString) /\ valid_utf8(Read) /\ ~(wanted = "string_view" /\ owns_value)
  <2>1. CASE fits
    <3>1. Finish(Read, q + 1)
      BY <2>1, Zenon DEF CloseString, Read
    <3>2. verdict' = "accepted" /\ position' = q + 1 /\ parsed' = Read
      BY <1>4, <3>1, Zenon DEF Finish
    <3>3. QED
      BY <2>1, <3>2
  <2>2. CASE ~fits
    <3>1. \/ Refuse("string_too_large") \/ Refuse("invalid_utf8") \/ Refuse("escaped_borrowed_string")
      BY <2>2, Zenon DEF CloseString, Read
    <3>2. verdict' # "accepted"
      BY <3>1 DEF Refuse
    <3>3. QED
      BY <2>2, <3>2
  <2>3. QED
    BY <2>1, <2>2
<1>6. CASE q \in 2..(n - 1)
  <2>1. ASSUME NEW j \in Ahead(bytes, q) PROVE Spelt(Part(bytes, q, j)) = {}
    <3>1. q \in 1..n /\ j \in (q + 1)..(n + 1) /\ bytes[q] # 92 /\ bytes[q] \in Stops
      BY <1>1, <1>2 DEF Ahead, Stops
    <3>2. Spelt(Part(bytes, q, j)) = IF j = q + 1 /\ bytes[q] \notin Stops THEN {<<bytes[q]>>} ELSE {}
      BY <1>2, <3>1, RawTurn
    <3>3. QED
      BY <3>1, <3>2, Zenon
  <2>2. q # n
    BY <1>2, <1>6
  <2>3. StringsOf(bytes) = {}
    BY <1>1, <2>1, <2>2, NothingFollows
  <2>4. ~Whole'
    <3>1. q + 1 # n + 1
      BY <1>2, <1>6
    <3>2. QED
      BY <1>3, <1>5, <3>1 DEF Whole
  <2>5. QED
    BY <1>3, <2>3, <2>4, StringEnds
<1>7. CASE q = n
  <2>1. IsQuoted(bytes)
    BY <1>1, <1>2, <1>7 DEF IsQuoted
  <2>2. Spelled(bytes) = {Read}
    <3>1. S[n] = {<<>>}
      <4>1. n \in 2..n /\ n = Len(bytes)
        BY <1>2, <1>7
      <4>2. S[n] = Turn(bytes, n, S)
        BY <4>1 DEF Turns
      <4>3. QED
        BY <4>1, <4>2, LastTurn
    <3>2. Prefixed(Read, {<<>>}) = {Read}
      <4>1. Read \o <<>> = Read
        BY <1>2, ConcatEmptySeq
      <4>2. QED
        BY <4>1 DEF Prefixed
    <3>3. QED
      BY <1>2, <1>7, <3>1, <3>2 DEF Turns
  <2>3. (\E i \in DOMAIN bytes : bytes[i] = 92) <=> owns_value
    <3>1. \A i \in DOMAIN bytes : i = 1 \/ i = n \/ i \in 2..(n - 1)
      BY <1>2
    <3>2. \A k \in 2..(q - 1) : k \in DOMAIN bytes
      BY <1>2, <1>7
    <3>3. bytes[1] # 92 /\ bytes[n] # 92
      BY <1>1, <1>2, <1>7
    <3>4. owns_value <=> escaped
      BY <1>2
    <3>5. QED
      BY <1>7, <3>1, <3>2, <3>3, <3>4, SMTT(30)
  <2>4. valid_utf8(Read) <=> IsText(Read)
    BY <1>2, TextIs
  <2>5. Len(Read) <= MaximumString <=> ~(Len(Read) > MaximumString)
    <3>1. Len(Read) \in Nat /\ MaximumString \in Nat
      BY <1>2, TextAssumption
    <3>2. QED
      BY <3>1
  <2>6. Whole' <=> verdict' = "accepted"
    BY <1>3, <1>5, <1>7 DEF Whole
  <2> HIDE DEF q, n, escaped
  <2>7. StringsOf(bytes) = IF verdict' = "accepted" THEN {Read} ELSE {}
    <3>1. StringsOf(bytes) = IF wanted = "string_view" /\ owns_value THEN {}
                             ELSE {v \in {Read} : Len(v) <= MaximumString /\ IsText(v)}
      BY <2>1, <2>2, <2>3, Zenon DEF StringsOf
    <3>2. {v \in {Read} : Len(v) <= MaximumString /\ IsText(v)} =
             IF Len(Read) <= MaximumString /\ IsText(Read) THEN {Read} ELSE {}
      OBVIOUS
    <3>3. QED
      BY <1>5, <2>4, <2>5, <3>1, <3>2, Zenon
  <2>8. /\ Whole' <=> StringsOf(bytes) # {}
        /\ Whole' => StringsOf(bytes) = {parsed'}
    <3>1. CASE verdict' = "accepted"
      BY <1>5, <2>6, <2>7, <3>1
    <3>2. CASE verdict' # "accepted"
      BY <2>6, <2>7, <3>2
    <3>3. QED
      BY <3>1, <3>2
  <2>9. QED
    BY <1>3, <2>8, StringEnds
<1>8. QED
  BY <1>2, <1>6, <1>7

LEMMA SpellingStep ==
    ASSUME TokenInv, wanted \in StringLike, rule.kind = "none",
           NEW S, Turns(bytes, S), Spelling(S), [TextNext]_textVars
    PROVE  Spelling(S)'
<1>1. CASE UNCHANGED textVars
  <2>1. bytes' = bytes /\ wanted' = wanted /\ rule' = rule /\ parsed' = parsed /\ verdict' = verdict
        /\ position' = position /\ part' = part /\ owned' = owned /\ owns_value' = owns_value
        /\ segment_start' = segment_start
    BY <1>1 DEF textVars
  <2>2. Taken(position)' = Taken(position) /\ StringsOf(bytes)' = StringsOf(bytes) /\ (Whole' <=> Whole)
    BY <2>1 DEF Taken, StringsOf, Whole
  <2>3. Read' = Read
    BY <2>1, <2>2 DEF Read
  <2>4. TextMeans' <=> TextMeans
    <3>1. IntegersOf(bytes)' = IntegersOf(bytes)
      BY <2>1 DEF IntegersOf, Representable
    <3>2. QED
      BY <2>1, <2>2, <3>1, Zenon DEF TextMeans, StringLike
  <2>5. QED
    BY <2>1, <2>2, <2>3, <2>4 DEF Spelling
<1>2. CASE TextNext
  <2>1. part \in {"open", "string", "end"}
    BY DEF TokenInv
  <2>2. \/ OpenString \/ ReadByte \/ BadString \/ ReadEscape \/ CloseString
    BY <1>2, <2>1, Zenon DEF TextNext, ReadInteger, ReadFraction, ReadExponent, Convert
  <2>3. QED
    BY <2>2, SpellingOpens, SpellingByte, SpellingFails, SpellingEscape, SpellingCloses
<1>3. QED
  BY <1>1, <1>2

-----------------------------------------------------------------------------
(* What a number means.                                                    *)

\* What the code finds in a number: its digits, its fraction and its exponent, and the
\* place after it.
IntegerRead    == ByteAt(Leading) \in Digit /\ ~(ByteAt(Leading) = 48 /\ ByteAt(Leading + 1) \in Digit)
FractionRead   == ByteAt(AfterInteger) = 46 => ByteAt(AfterInteger + 1) \in Digit
ExponentRead   == HasExponent => ByteAt(Power) \in Digit
AfterExponent  == IF HasExponent THEN Digits(Power) ELSE AfterFraction

LEMMA FiguresAre ==
    ASSUME TokenInv, NEW p \in 1..(Len(bytes) + 1), NEW j \in 1..(Len(bytes) + 1), ByteAt(j) \notin Digit
    PROVE  Figures(bytes, p, j) <=> ByteAt(p) \in Digit /\ j = Digits(p)
<1> DEFINE n == Len(bytes)
           d == Digits(p)
<1>1. n \in Nat /\ p \in 1..(n + 1) /\ j \in 1..(n + 1) /\ \A k \in 1..n : ByteAt(k) = bytes[k]
  BY DEF TokenInv, ByteAt
<1>2. d \in p..(n + 1) /\ ByteAt(d) \notin Digit /\ \A k \in p..(d - 1) : ByteAt(k) \in Digit
  BY DigitsAre
<1>3. Figures(bytes, p, j) <=> p < j /\ \A k \in p..(j - 1) : ByteAt(k) \in Digit
  <2>1. \A k \in p..(j - 1) : ByteAt(k) = bytes[k]
    BY <1>1
  <2>2. QED
    BY <2>1 DEF Figures, Digit
<1> HIDE DEF n, d
<1>4. ASSUME p < j, \A k \in p..(j - 1) : ByteAt(k) \in Digit PROVE ByteAt(p) \in Digit /\ j = d
  <2>1. ~(d \in p..(j - 1)) /\ ~(j \in p..(d - 1)) /\ p \in p..(j - 1)
    BY <1>1, <1>2, <1>4
  <2>2. QED
    BY <1>1, <1>2, <1>4, <2>1
<1>5. ASSUME ByteAt(p) \in Digit, j = d PROVE p < j /\ \A k \in p..(j - 1) : ByteAt(k) \in Digit
  <2>1. p # d
    BY <1>2, <1>5
  <2>2. QED
    BY <1>1, <1>2, <1>5, <2>1
<1>6. QED
  BY <1>3, <1>4, <1>5 DEF d

\* A byte that is one of the signs of a number is no digit, and lies in the text.
LEMMA SignByte ==
    ASSUME TokenInv, NEW p \in Nat, ByteAt(p) \in {43, 45, 46, 69, 101}
    PROVE  p \in 1..Len(bytes) /\ ByteAt(p) \notin Digit
BY ByteInside, SMTT(30) DEF Digit

LEMMA LeadingIs ==
    ASSUME TokenInv
    PROVE  /\ Leading \in 1..(Len(bytes) + 1) /\ AfterSign(bytes) = Leading
           /\ Sign(bytes) = IF ByteAt(1) = 45 THEN -1 ELSE 1
<1>1. bytes \in Seq(Byte) /\ Len(bytes) \in Nat
  BY DEF TokenInv
<1>2. ByteAt(1) = 45 <=> bytes # <<>> /\ bytes[1] = 45
  BY <1>1 DEF ByteAt
<1>3. ByteAt(1) = 45 => 1 <= Len(bytes)
  BY <1>1 DEF ByteAt
<1>4. QED
  BY <1>1, <1>2, <1>3 DEF Leading, AfterSign, Sign

\* Where they are, as far as the number is well-formed.
LEMMA NumberPlaces ==
    ASSUME TokenInv
    PROVE  /\ AfterInteger \in Leading..(Len(bytes) + 1) /\ Leading \in 1..(Len(bytes) + 1)
           /\ FractionRead => AfterFraction \in AfterInteger..(Len(bytes) + 1)
           /\ FractionRead /\ ExponentRead => AfterExponent \in AfterFraction..(Len(bytes) + 1)
<1> DEFINE n == Len(bytes)
<1>1. n \in Nat /\ Leading \in 1..(n + 1)
  BY LeadingIs DEF TokenInv
<1>2. AfterInteger \in Leading..(n + 1)
  BY <1>1, DigitsType DEF AfterInteger
<1> DEFINE i == AfterInteger
           j == AfterFraction
           p == Power
<1>3. ASSUME FractionRead PROVE j \in i..(n + 1)
  <2>1. CASE ByteAt(i) = 46
    <3>1. i + 1 \in Nat /\ ByteAt(i + 1) \in Digit /\ j = Digits(i + 1)
      BY <1>1, <1>2, <1>3, <2>1 DEF FractionRead, AfterFraction
    <3>2. i + 1 \in 1..n
      BY <3>1, DigitInside
    <3>3. Digits(i + 1) \in (i + 1)..(n + 1)
      BY <1>1, <3>2, DigitsType
    <3> HIDE DEF i, j, n
    <3>4. QED
      BY <1>1, <1>2, <3>1, <3>2, <3>3 DEF i
  <2>2. CASE ByteAt(i) # 46
    BY <1>1, <1>2, <2>2 DEF AfterFraction
  <2>3. QED
    BY <2>1, <2>2
<1>4. ASSUME FractionRead, ExponentRead PROVE AfterExponent \in j..(n + 1)
  <2>1. j \in Nat /\ j \in 1..(n + 1)
    BY <1>1, <1>2, <1>3, <1>4
  <2>2. CASE HasExponent
    <3>1. p \in Nat /\ j < p
      BY <2>1 DEF Power
    <3>2. ByteAt(p) \in Digit /\ AfterExponent = Digits(p)
      BY <1>4, <2>2 DEF ExponentRead, AfterExponent
    <3>3. p \in 1..n
      BY <3>1, <3>2, DigitInside
    <3>4. Digits(p) \in p..(n + 1)
      BY <1>1, <3>3, DigitsType
    <3> HIDE DEF j, p, n
    <3>5. QED
      BY <1>1, <2>1, <3>1, <3>2, <3>3, <3>4
  <2>3. CASE ~HasExponent
    BY <2>1, <2>3 DEF AfterExponent
  <2>4. QED
    BY <2>2, <2>3
<1>5. QED
  BY <1>1, <1>2, <1>3, <1>4

LEMMA IntegerIs ==
    ASSUME TokenInv, NEW j \in 1..(Len(bytes) + 1), ByteAt(j) \notin Digit
    PROVE  IsInteger(bytes, AfterSign(bytes), j) <=> IntegerRead /\ j = AfterInteger
<1> DEFINE p == Leading
           d == Digits(p)
           n == Len(bytes)
<1>1. n \in Nat /\ p \in 1..(n + 1) /\ AfterSign(bytes) = p
  BY LeadingIs DEF TokenInv
<1>2. Figures(bytes, p, j) <=> ByteAt(p) \in Digit /\ j = d
  BY <1>1, FiguresAre
<1>3. d \in p..(n + 1) /\ ByteAt(d) \notin Digit /\ \A k \in p..(d - 1) : ByteAt(k) \in Digit
  BY <1>1, DigitsAre
<1>4. ASSUME ByteAt(p) \in Digit PROVE (bytes[p] = 48 => d = p + 1) <=> ~(ByteAt(p) = 48 /\ ByteAt(p + 1) \in Digit)
  <2>1. p \in 1..n
    BY <1>1, <1>4, DigitInside
  <2>2. ByteAt(p) = bytes[p]
    BY <2>1 DEF ByteAt, TokenInv
  <2> HIDE DEF p, d, n
  <2>3. d # p /\ (d = p + 1 \/ p + 1 \in p..(d - 1))
    <3>1. d # p
      BY <1>3, <1>4
    <3>2. QED
      BY <1>1, <1>3, <2>1, <3>1
  <2>4. d = p + 1 <=> ByteAt(p + 1) \notin Digit
    BY <1>3, <2>3
  <2>5. QED
    BY <2>2, <2>4
<1>5. QED
  BY <1>1, <1>2, <1>4 DEF IsInteger, IntegerRead, AfterInteger

\* What ends a fraction is the end of the text, or the letter of an exponent.
LEMMA FractionIs ==
    ASSUME TokenInv, NEW j \in AfterInteger..(Len(bytes) + 1), j = Len(bytes) + 1 \/ ByteAt(j) \in {69, 101}
    PROVE  IsFraction(bytes, AfterInteger, j) <=> FractionRead /\ j = AfterFraction
<1> DEFINE i == AfterInteger
           n == Len(bytes)
<1>1. n \in Nat /\ i \in 1..(n + 1) /\ i \in Nat /\ j \in 1..(n + 1) /\ j \in i..(n + 1)
  BY NumberPlaces DEF TokenInv
<1>2. (\A k \in 1..n : ByteAt(k) = bytes[k]) /\ ByteAt(n + 1) = 0
  BY <1>1 DEF ByteAt, TokenInv
<1>3. ByteAt(j) \notin Digit
  BY <1>2 DEF Digit
<1>4. CASE ByteAt(i) = 46
  <2>1. i \in 1..n
    BY <1>1, <1>4, SignByte
  <2>2. i + 1 \in 1..(n + 1) /\ bytes[i] = 46
    BY <1>1, <1>2, <1>4, <2>1
  <2>3. Figures(bytes, i + 1, j) <=> ByteAt(i + 1) \in Digit /\ j = Digits(i + 1)
    BY <1>1, <1>3, <2>2, FiguresAre
  <2>4. i # j
    <3>1. n + 1 # i
      BY <1>1, <2>1
    <3>2. QED
      BY <1>4, <3>1
  <2>5. (FractionRead <=> ByteAt(i + 1) \in Digit) /\ AfterFraction = Digits(i + 1)
    BY <1>4 DEF FractionRead, AfterFraction
  <2>6. QED
    BY <2>2, <2>3, <2>4, <2>5, Zenon DEF IsFraction
<1>5. CASE ByteAt(i) # 46
  <2>1. FractionRead /\ AfterFraction = i
    BY <1>5 DEF FractionRead, AfterFraction
  <2>2. i = j \/ i \in 1..n
    BY <1>1
  <2>3. i = j \/ bytes[i] # 46
    BY <1>2, <1>5, <2>2
  <2>4. IsFraction(bytes, i, j) <=> i = j
    BY <2>3, Zenon DEF IsFraction
  <2>5. QED
    BY <2>1, <2>4
<1>6. QED
  BY <1>4, <1>5

LEMMA ExponentIs ==
    ASSUME TokenInv, FractionRead
    PROVE  IsExponent(bytes, AfterFraction, Len(bytes) + 1) <=> ExponentRead /\ AfterExponent = Len(bytes) + 1
<1> DEFINE j == AfterFraction
           n == Len(bytes)
<1>1. n \in Nat /\ j \in 1..(n + 1) /\ j \in Nat /\ n + 1 \in 1..(n + 1)
  <2>1. n \in Nat
    BY DEF TokenInv
  <2>2. AfterInteger \in 1..(n + 1) /\ j \in AfterInteger..(n + 1)
    BY <2>1, NumberPlaces
  <2> HIDE DEF j, n
  <2>3. QED
    BY <2>1, <2>2
<1>2. (\A k \in 1..n : ByteAt(k) = bytes[k]) /\ ByteAt(n + 1) = 0 /\ ByteAt(n + 1) \notin Digit
  BY <1>1 DEF ByteAt, TokenInv, Digit
<1>3. IsExponent(bytes, j, n + 1) <=>
         \/ j = n + 1
         \/ bytes[j] \in {69, 101} /\ (Figures(bytes, j + 1, n + 1) \/ (Figures(bytes, j + 2, n + 1) /\ bytes[j + 1] \in {43, 45}))
  BY Zenon DEF IsExponent
<1>4. CASE HasExponent
  <2>1. j \in 1..n
    BY <1>1, <1>4, SignByte DEF HasExponent
  <2>2. j + 1 \in 1..(n + 1) /\ j + 1 \in Nat /\ bytes[j] \in {69, 101} /\ j # n + 1
    BY <1>1, <1>2, <1>4, <2>1 DEF HasExponent
  <2>3. Figures(bytes, j + 1, n + 1) <=> ByteAt(j + 1) \in Digit /\ n + 1 = Digits(j + 1)
    BY <1>1, <1>2, <2>2, FiguresAre
  <2>4. (ExponentRead <=> ByteAt(Power) \in Digit) /\ AfterExponent = Digits(Power)
    BY <1>4 DEF ExponentRead, AfterExponent
  <2>5. CASE ByteAt(j + 1) \in {43, 45}
    <3>1. j + 1 \in 1..n /\ ByteAt(j + 1) \notin Digit
      BY <2>2, <2>5, SignByte
    <3>2. j + 2 \in 1..(n + 1) /\ bytes[j + 1] \in {43, 45} /\ Power = j + 2
      BY <1>1, <1>2, <2>5, <3>1 DEF Power
    <3>3. Figures(bytes, j + 2, n + 1) <=> ByteAt(j + 2) \in Digit /\ n + 1 = Digits(j + 2)
      BY <1>1, <1>2, <3>2, FiguresAre
    <3>4. IsExponent(bytes, j, n + 1) <=> ByteAt(Power) \in Digit /\ n + 1 = Digits(Power)
      BY <1>3, <2>2, <2>3, <3>1, <3>2, <3>3, Zenon
    <3>5. QED
      BY <2>4, <3>4
  <2>6. CASE ByteAt(j + 1) \notin {43, 45}
    <3>1. Power = j + 1
      BY <2>6 DEF Power
    <3>2. j + 1 = n + 1 \/ j + 1 \in 1..n
      BY <1>1, <2>2
    <3>3. j + 1 = n + 1 => ~Figures(bytes, j + 2, n + 1)
      BY <1>1 DEF Figures
    <3>4. ~(Figures(bytes, j + 2, n + 1) /\ bytes[j + 1] \in {43, 45})
      BY <1>2, <2>6, <3>2, <3>3
    <3>5. IsExponent(bytes, j, n + 1) <=> ByteAt(Power) \in Digit /\ n + 1 = Digits(Power)
      BY <1>3, <2>2, <2>3, <3>1, <3>4, Zenon
    <3>6. QED
      BY <2>4, <3>5
  <2>7. QED
    BY <2>5, <2>6
<1>5. CASE ~HasExponent
  <2>1. ExponentRead /\ AfterExponent = j
    BY <1>5 DEF ExponentRead, AfterExponent
  <2>2. j = n + 1 \/ j \in 1..n
    BY <1>1
  <2>3. j = n + 1 \/ bytes[j] \notin {69, 101}
    BY <1>2, <1>5, <2>2 DEF HasExponent
  <2>4. QED
    BY <1>3, <2>1, <2>3, Zenon
<1>6. QED
  BY <1>4, <1>5

NumberRead == IntegerRead /\ FractionRead /\ ExponentRead /\ AfterExponent = Len(bytes) + 1
NumberHeld == NumberRead /\ Held(Significand, Scale)

\* The code and the grammar mean the same number.
LEMMA FiguresAndPowerAre ==
    ASSUME TokenInv, NumberRead
    PROVE  /\ FiguresOf(bytes, AfterInteger, AfterFraction) = Significand
           /\ PowerOf(bytes, AfterInteger, AfterFraction) = Scale
<1> DEFINE n == Len(bytes)
           j == AfterFraction
           e == IF HasExponent THEN Exponent ELSE 0
<1>1. FractionRead /\ ExponentRead /\ AfterExponent = n + 1
  BY DEF NumberRead
<1>2. n \in Nat /\ AfterInteger \in 1..(n + 1) /\ j \in AfterInteger..(n + 1)
  <2>1. n \in Nat
    BY DEF TokenInv
  <2>2. AfterInteger \in 1..(n + 1) /\ j \in AfterInteger..(n + 1)
    BY <1>1, <2>1, NumberPlaces
  <2>3. QED
    BY <2>1, <2>2
<1>3. j \in Nat
  <2> HIDE DEF j, n
  <2>1. QED
    BY <1>2
<1>4. FiguresOf(bytes, AfterInteger, AfterFraction) = Significand
  BY LeadingIs, Zenon DEF FiguresOf, Significand, Part
<1>5. ExponentOf(bytes, j) = e
  <2>1. CASE HasExponent
    <3>1. j \in 1..n
      BY <1>3, <2>1, SignByte DEF HasExponent
    <3>2. ByteAt(Power) \in Digit /\ Digits(Power) = n + 1
      BY <1>1, <2>1 DEF ExponentRead, AfterExponent
    <3>3. Power \in Nat /\ j + 1 <= Power
      BY <1>3 DEF Power
    <3>4. Power \in 1..n
      BY <3>2, <3>3, DigitInside
    <3>5. j + 1 \in 1..n
      <4> HIDE DEF j, n
      <4>1. QED
        BY <1>2, <1>3, <3>3, <3>4
    <3>6. bytes[j + 1] = ByteAt(j + 1)
      BY <3>5 DEF ByteAt, TokenInv
    <3>7. j # n + 1
      <4> HIDE DEF j, n
      <4>1. QED
        BY <1>2, <3>1
    <3> DEFINE digits == SubSeq(bytes, Power, (n + 1) - 1)
    <3>8. Exponent = (IF ByteAt(j + 1) = 45 THEN -1 ELSE 1) * Decimal(digits)
      BY <3>2, Zenon DEF Exponent
    <3>9. ExponentOf(bytes, j) =
            IF ByteAt(j + 1) = 45 THEN -Decimal(digits) ELSE Decimal(digits)
      <4>1. CASE ByteAt(j + 1) = 45
        <5>1. Power = j + 2
          BY <4>1 DEF Power
        <5>2. QED
          BY <3>6, <3>7, <4>1, <5>1, Zenon DEF ExponentOf, Part
      <4>2. CASE ByteAt(j + 1) # 45 /\ ByteAt(j + 1) = 43
        <5>1. Power = j + 2
          BY <4>2 DEF Power
        <5>2. QED
          BY <3>6, <3>7, <4>2, <5>1, Zenon DEF ExponentOf, Part
      <4>3. CASE ByteAt(j + 1) # 45 /\ ByteAt(j + 1) # 43
        <5>1. Power = j + 1
          BY <4>3 DEF Power
        <5>2. QED
          BY <3>6, <3>7, <4>3, <5>1, Zenon DEF ExponentOf, Part
      <4>4. QED
        BY <4>1, <4>2, <4>3
    <3>10. Decimal(digits) \in Int
      <4> DEFINE last == (n + 1) - 1
      <4>1. bytes \in Seq(Byte) /\ last = n
        BY <1>2 DEF TokenInv
      <4>2. Power \in Int /\ last \in Int /\ \A i \in Power..last : i \in 1..n
        <5> HIDE DEF n
        <5>1. QED
          BY <1>2, <3>4, <4>1
      <4>3. \A i \in Power..last : bytes[i] \in Byte
        BY <4>1, <4>2
      <4> HIDE DEF last
      <4>4. SubSeq(bytes, Power, last) \in Seq(Byte)
        BY <4>2, <4>3, SubSeqProperties
      <4>5. QED
        BY <4>4, DecimalType DEF last
    <3> HIDE DEF digits, j
    <3>11. QED
      BY <2>1, <3>8, <3>9, <3>10
  <2>2. CASE ~HasExponent
    <3>1. j = n + 1
      BY <1>1, <2>2 DEF AfterExponent
    <3>2. QED
      BY <2>2, <3>1 DEF ExponentOf
  <2>3. QED
    BY <2>1, <2>2
<1>6. AfterInteger = j <=> j = AfterInteger
  OBVIOUS
<1>7. PowerOf(bytes, AfterInteger, AfterFraction) = Scale
  BY <1>5, <1>6, Zenon DEF PowerOf, Scale
<1>8. QED
  BY <1>4, <1>7

LEMMA NumbersAre ==
    ASSUME TokenInv
    PROVE  NumbersOf(bytes) = IF NumberHeld THEN {bytes} ELSE {}
<1> DEFINE n == Len(bytes)
           Grammar(i, j) == IsNumber(bytes, i, j)
           InRange(i, j) == Held(FiguresOf(bytes, i, j), PowerOf(bytes, i, j))
<1>1. n \in Nat /\ (\A k \in 1..n : ByteAt(k) = bytes[k]) /\ ByteAt(n + 1) = 0
  BY DEF ByteAt, TokenInv
<1>2. AfterInteger \in 1..(n + 1)
  BY <1>1, NumberPlaces
<1>3. ASSUME NEW i \in 1..(n + 1), NEW j \in 1..(n + 1), Grammar(i, j)
      PROVE  NumberRead /\ i = AfterInteger /\ j = AfterFraction
  <2>0. IsInteger(bytes, AfterSign(bytes), i) /\ i <= j /\ IsFraction(bytes, i, j) /\ IsExponent(bytes, j, n + 1)
    BY <1>3 DEF IsNumber
  <2>1. j = n + 1 \/ ByteAt(j) \in {69, 101}
    <3>1. j = n + 1 \/ bytes[j] \in {69, 101}
      BY <2>0, Zenon DEF IsExponent
    <3>2. j = n + 1 \/ j \in 1..n
      BY <1>1
    <3>3. QED
      BY <1>1, <3>1, <3>2
  <2>2. ByteAt(i) \in {0, 46, 69, 101}
    <3>1. i = j \/ bytes[i] = 46
      BY <2>0, Zenon DEF IsFraction
    <3>2. i = n + 1 \/ i \in 1..n
      BY <1>1
    <3>3. QED
      BY <1>1, <2>1, <3>1, <3>2
  <2>3. ByteAt(i) \notin Digit
    BY <2>2, SMTT(30) DEF Digit
  <2>4. IntegerRead /\ i = AfterInteger
    BY <2>0, <2>3, IntegerIs
  <2>5. j \in AfterInteger..(n + 1)
    <3>1. i <= j
      BY <2>0
    <3>2. QED
      BY <1>1, <2>4, <3>1
  <2>6. FractionRead /\ j = AfterFraction
    BY <2>0, <2>1, <2>4, <2>5, FractionIs
  <2>7. ExponentRead /\ AfterExponent = n + 1
    BY <2>0, <2>6, ExponentIs
  <2>8. QED
    BY <2>4, <2>6, <2>7 DEF NumberRead
<1>4. ASSUME NumberRead PROVE AfterInteger \in 1..(n + 1) /\ AfterFraction \in 1..(n + 1) /\ Grammar(AfterInteger, AfterFraction)
  <2> DEFINE i == AfterInteger
             j == AfterFraction
  <2>1. IntegerRead /\ FractionRead /\ ExponentRead /\ AfterExponent = n + 1
    BY <1>4 DEF NumberRead
  <2>2. j \in i..(n + 1) /\ i <= j /\ j \in 1..(n + 1)
    <3>1. j \in i..(n + 1)
      BY <2>1, NumberPlaces
    <3> HIDE DEF i, j
    <3>2. i \in 1..(n + 1)
      BY <1>2 DEF i
    <3>3. QED
      BY <1>1, <3>1, <3>2
  <2>3. ByteAt(i) \notin Digit
    BY LeadingIs, DigitsAre DEF AfterInteger
  <2>4. IsInteger(bytes, AfterSign(bytes), i)
    BY <1>2, <2>1, <2>3, IntegerIs
  <2>5. j = n + 1 \/ ByteAt(j) \in {69, 101}
    BY <2>1 DEF HasExponent, AfterExponent
  <2>6. IsFraction(bytes, i, j)
    BY <2>1, <2>2, <2>5, FractionIs
  <2>7. IsExponent(bytes, j, n + 1)
    BY <2>1, ExponentIs
  <2>8. Grammar(i, j)
    BY <2>2, <2>4, <2>6, <2>7, Zenon DEF IsNumber
  <2>9. QED
    BY <1>2, <2>2, <2>8
<1>5. NumberRead => (InRange(AfterInteger, AfterFraction) <=> Held(Significand, Scale))
  BY FiguresAndPowerAre, Zenon
<1>6. NumbersOf(bytes) = {t \in {bytes} : \E i, j \in 1..(n + 1) : Grammar(i, j) /\ InRange(i, j)}
  BY Zenon DEF NumbersOf
<1> HIDE DEF Grammar, InRange, n
<1>7. NumberHeld <=> \E i, j \in 1..(n + 1) : Grammar(i, j) /\ InRange(i, j)
  BY <1>3, <1>4, <1>5, Zenon DEF NumberHeld
<1>8. QED
  BY <1>6, <1>7

IntegerWhole ==
    /\ IntegerRead /\ AfterInteger = Len(bytes) + 1
    /\ ~(wanted = "unsigned" /\ ByteAt(1) = 45) /\ Number \in Representable

LEMMA IntegersAre ==
    ASSUME TokenInv
    PROVE  IntegersOf(bytes) = IF IntegerWhole THEN {Number} ELSE {}
<1> DEFINE n == Len(bytes)
           value == Sign(bytes) * Decimal(Part(bytes, AfterSign(bytes), n + 1))
<1>1. n \in Nat /\ n + 1 \in 1..(n + 1) /\ ByteAt(n + 1) \notin Digit
  BY DEF ByteAt, TokenInv, Digit
<1>2. IsInteger(bytes, AfterSign(bytes), n + 1) <=> IntegerRead /\ n + 1 = AfterInteger
  BY <1>1, IntegerIs
<1>3. AfterSign(bytes) = Leading /\ Sign(bytes) = (IF ByteAt(1) = 45 THEN -1 ELSE 1)
  BY LeadingIs
<1>4. Sign(bytes) = -1 <=> ByteAt(1) = 45
  BY <1>3
<1>5. AfterInteger = n + 1 => Number = value
  BY <1>3, Zenon DEF Number, Part, AfterInteger
<1>6. IntegersOf(bytes) = IF ~IsInteger(bytes, AfterSign(bytes), n + 1) \/ (wanted = "unsigned" /\ Sign(bytes) = -1)
                          THEN {} ELSE {value} \cap Representable
  BY Zenon DEF IntegersOf
<1> HIDE DEF n, value
<1>7. IntegersOf(bytes) = IF IntegerRead /\ AfterInteger = n + 1 /\ ~(wanted = "unsigned" /\ ByteAt(1) = 45)
                          THEN {Number} \cap Representable ELSE {}
  BY <1>2, <1>4, <1>5, <1>6, Zenon
<1>8. IntegerWhole <=> /\ IntegerRead /\ AfterInteger = n + 1 /\ ~(wanted = "unsigned" /\ ByteAt(1) = 45)
                       /\ Number \in Representable
  BY Zenon DEF IntegerWhole, n
<1>9. QED
  BY <1>7, <1>8

\* How far the cursor has come in a number.
Numeral ==
    /\ part = "integer"  => position = 1
    /\ part = "fraction" => IntegerRead /\ position = AfterInteger
    /\ part = "exponent" => IntegerRead /\ FractionRead /\ position = AfterFraction
    /\ part = "convert"  => IntegerRead /\ FractionRead /\ ExponentRead /\ position = AfterExponent
    /\ part = "end"      => TextMeans
NumeralInv == wanted \notin StringLike /\ rule.kind = "none" => Numeral

LEMMA ReadingStays ==
    ASSUME [TextNext]_textVars
    PROVE  /\ bytes' = bytes /\ wanted' = wanted /\ rule' = rule
           /\ AfterInteger' = AfterInteger /\ AfterFraction' = AfterFraction /\ AfterExponent' = AfterExponent
           /\ (IntegerRead' <=> IntegerRead) /\ (FractionRead' <=> FractionRead) /\ (ExponentRead' <=> ExponentRead)
           /\ NumbersOf(bytes)' = NumbersOf(bytes) /\ IntegersOf(bytes)' = IntegersOf(bytes)
           /\ StringsOf(bytes)' = StringsOf(bytes)
<1>1. bytes' = bytes /\ wanted' = wanted /\ rule' = rule
  BY GivenStays
<1>2. Leading' = Leading
  BY <1>1 DEF Leading, ByteAt
<1>3. AfterInteger' = AfterInteger
  BY <1>1 DEF AfterInteger, Leading, Digits, ByteAt
<1>4. (IntegerRead' <=> IntegerRead) /\ (FractionRead' <=> FractionRead)
  BY <1>1, <1>2, <1>3 DEF IntegerRead, FractionRead, ByteAt
<1>5. AfterFraction' = AfterFraction
  <2>1. Digits(AfterInteger + 1)' = Digits(AfterInteger + 1)
    BY <1>1, <1>3 DEF Digits, ByteAt
  <2>2. QED
    BY <1>1, <1>3, <2>1 DEF AfterFraction, ByteAt
<1>6. Power' = Power /\ (HasExponent' <=> HasExponent)
  BY <1>1, <1>5 DEF Power, HasExponent, ByteAt
<1>7. AfterExponent' = AfterExponent /\ (ExponentRead' <=> ExponentRead)
  <2>1. Digits(Power)' = Digits(Power)
    BY <1>1, <1>6 DEF Digits, ByteAt
  <2>2. QED
    BY <1>1, <1>5, <1>6, <2>1 DEF AfterExponent, ExponentRead, ByteAt
<1>8. NumbersOf(bytes)' = NumbersOf(bytes)
  BY <1>1
<1>9. IntegersOf(bytes)' = IntegersOf(bytes) /\ StringsOf(bytes)' = StringsOf(bytes)
  BY <1>1 DEF IntegersOf, Representable, StringsOf
<1>10. QED
  BY <1>1, <1>3, <1>4, <1>5, <1>7, <1>8, <1>9

NumberMeanings == IF wanted = "double" THEN NumbersOf(bytes) ELSE IntegersOf(bytes)

LEMMA NumberEnds ==
    ASSUME wanted \notin StringLike, [TextNext]_textVars, part' = "end",
           Whole' <=> NumberMeanings # {}, Whole' => NumberMeanings = {parsed'}
    PROVE  Numeral'
<1> DEFINE meanings == CASE wanted \in StringLike -> StringsOf(bytes)
                         [] wanted = "double"     -> NumbersOf(bytes)
                         [] OTHER                 -> IntegersOf(bytes)
<1>1. wanted' = wanted /\ NumbersOf(bytes)' = NumbersOf(bytes) /\ IntegersOf(bytes)' = IntegersOf(bytes)
  BY ReadingStays
<1>2. wanted' \notin StringLike
  BY <1>1
<1>3. meanings' = NumberMeanings
  BY <1>1, <1>2 DEF NumberMeanings, StringLike
<1>4. TextMeans'
  <2>1. TextMeans' <=> (verdict' # "reading" /\ rule'.kind = "none" =>
                          (Whole' <=> meanings' # {}) /\ (Whole' => meanings' = {parsed'}))
    BY DEF TextMeans
  <2> HIDE DEF meanings
  <2>2. QED
    BY <1>3, <2>1
<1>5. QED
  BY <1>4 DEF Numeral

LEMMA NumberRefused ==
    ASSUME wanted \notin StringLike, [TextNext]_textVars, NEW code, code # "accepted", Refuse(code),
           NumberMeanings = {}
    PROVE  Numeral'
<1>1. part' = "end" /\ ~Whole'
  BY DEF Refuse, Whole
<1>2. QED
  BY <1>1, NumberEnds

\* A number that is not read has no meaning, and no integer ends before the text does.
LEMMA NoNumber ==
    ASSUME TokenInv, ~IntegerRead \/ (AfterInteger # Len(bytes) + 1 /\ ~(FractionRead /\ ExponentRead))
    PROVE  NumberMeanings = {}
<1>1. ~NumberHeld /\ ~IntegerWhole
  BY DEF NumberHeld, NumberRead, IntegerWhole
<1>2. QED
  BY <1>1, NumbersAre, IntegersAre DEF NumberMeanings

LEMMA NumeralInteger ==
    ASSUME TokenInv, wanted \notin StringLike, ReadInteger, Numeral
    PROVE  Numeral'
<1>1. [TextNext]_textVars /\ position = 1
  BY DEF TextNext, ReadInteger, Numeral
<1>2. CASE IntegerRead
  <2>1. GoOn("fraction", AfterInteger)
    BY <1>1, <1>2 DEF ReadInteger, IntegerRead, AfterInteger, Leading
  <2>2. part' = "fraction" /\ position' = AfterInteger
    BY <2>1 DEF GoOn
  <2>3. QED
    BY <1>1, <1>2, <2>2, ReadingStays DEF Numeral
<1>3. CASE ~IntegerRead
  <2>1. Refuse("invalid_number")
    BY <1>1, <1>3 DEF ReadInteger, IntegerRead, Leading
  <2>2. NumberMeanings = {}
    BY <1>3, NoNumber
  <2>3. QED
    BY <1>1, <2>1, <2>2, NumberRefused
<1>4. QED
  BY <1>2, <1>3

LEMMA NumeralFraction ==
    ASSUME TokenInv, wanted \notin StringLike, ReadFraction, Numeral
    PROVE  Numeral'
<1>1. [TextNext]_textVars /\ IntegerRead /\ position = AfterInteger
  BY DEF TextNext, ReadFraction, Numeral
<1>2. CASE FractionRead
  <2>1. GoOn("exponent", AfterFraction)
    BY <1>1, <1>2 DEF ReadFraction, FractionRead, AfterFraction
  <2>2. part' = "exponent" /\ position' = AfterFraction
    BY <2>1 DEF GoOn
  <2>3. QED
    BY <1>1, <1>2, <2>2, ReadingStays DEF Numeral
<1>3. CASE ~FractionRead
  <2>1. Refuse("invalid_number")
    BY <1>1, <1>3 DEF ReadFraction, FractionRead
  <2>2. AfterInteger # Len(bytes) + 1
    BY <1>3, <1>1, SignByte DEF FractionRead, TokenInv, TextTypeOK
  <2>3. NumberMeanings = {}
    BY <1>3, <2>2, NoNumber
  <2>4. QED
    BY <1>1, <2>1, <2>3, NumberRefused
<1>4. QED
  BY <1>2, <1>3

LEMMA NumeralExponent ==
    ASSUME TokenInv, wanted \notin StringLike, ReadExponent, Numeral
    PROVE  Numeral'
<1>1. [TextNext]_textVars /\ IntegerRead /\ FractionRead /\ position = AfterFraction
  BY DEF TextNext, ReadExponent, Numeral
<1>2. CASE ExponentRead
  <2>1. GoOn("convert", AfterExponent)
    BY <1>1, <1>2 DEF ReadExponent, ExponentRead, AfterExponent, HasExponent, Power
  <2>2. part' = "convert" /\ position' = AfterExponent
    BY <2>1 DEF GoOn
  <2>3. QED
    BY <1>1, <1>2, <2>2, ReadingStays DEF Numeral
<1>3. CASE ~ExponentRead
  <2>1. Refuse("invalid_number")
    BY <1>1, <1>3 DEF ReadExponent, ExponentRead, HasExponent, Power
  <2>2. AfterInteger # Len(bytes) + 1
    <3>1. AfterFraction \in 1..Len(bytes) /\ Len(bytes) \in Nat
      BY <1>1, <1>3, SignByte DEF ExponentRead, HasExponent, TokenInv, TextTypeOK
    <3>2. AfterFraction \in AfterInteger..(Len(bytes) + 1) /\ AfterInteger \in Leading..(Len(bytes) + 1)
      BY <1>1, NumberPlaces
    <3>3. QED
      BY <3>1, <3>2
  <2>3. NumberMeanings = {}
    BY <1>3, <2>2, NoNumber
  <2>4. QED
    BY <1>1, <2>1, <2>3, NumberRefused
<1>4. QED
  BY <1>2, <1>3

LEMMA NumeralConverted ==
    ASSUME TokenInv, wanted \notin StringLike, rule.kind = "none", Convert, Numeral
    PROVE  Numeral'
<1> DEFINE n == Len(bytes)
<1>1. /\ [TextNext]_textVars /\ IntegerRead /\ FractionRead /\ ExponentRead /\ position = AfterExponent
      /\ bytes \in Seq(Byte) /\ n \in Nat
  BY DEF TextNext, Convert, Numeral, TokenInv
<1>2. \A value : SatisfiesRule(value)
  BY Zenon DEF SatisfiesRule
<1>3. ASSUME NEW value, Finish(value, position)
      PROVE  part' = "end" /\ parsed' = value /\ (Whole' <=> position = n + 1)
  BY <1>2, <1>3 DEF Finish, Whole, givenVars
<1>4. CASE wanted = "double" /\ Held(Significand, Scale)
  <2>1. Finish(SubSeq(bytes, 1, position - 1), position)
    BY <1>4 DEF Convert
  <2>2. part' = "end" /\ parsed' = SubSeq(bytes, 1, position - 1) /\ (Whole' <=> position = n + 1)
    BY <1>3, <2>1
  <2>3. position = n + 1 => SubSeq(bytes, 1, position - 1) = bytes
    <3>1. (n + 1) - 1 = n /\ SubSeq(bytes, 1, n) = bytes
      BY <1>1, SubSeqFull
    <3>2. QED
      BY <3>1
  <2>4. NumberMeanings = IF position = n + 1 THEN {bytes} ELSE {}
    BY <1>1, <1>4, NumbersAre DEF NumberMeanings, NumberRead, NumberHeld
  <2>5. QED
    BY <1>1, <2>2, <2>3, <2>4, NumberEnds
<1>6. CASE wanted = "double" /\ ~Held(Significand, Scale)
  <2>1. Refuse("number_out_of_range")
    BY <1>6 DEF Convert
  <2>2. NumberMeanings = {}
    BY <1>6, NumbersAre DEF NumberMeanings, NumberHeld
  <2>3. QED
    BY <1>1, <2>1, <2>2, NumberRefused
<1>5. CASE wanted # "double"
  <2>1. NumberMeanings = IF IntegerWhole THEN {Number} ELSE {}
    BY <1>5, IntegersAre DEF NumberMeanings
  <2>2. AfterInteger = n + 1 => position = n + 1
    <3>1. SUFFICES ASSUME AfterInteger = n + 1 PROVE AfterExponent = n + 1
      BY <1>1
    <3>2. AfterFraction \in AfterInteger..(n + 1) /\ AfterExponent \in AfterFraction..(n + 1)
      BY <1>1, NumberPlaces
    <3>3. QED
      BY <1>1, <3>1, <3>2
  <2>3. CASE \/ wanted = "unsigned" /\ ByteAt(1) = 45
             \/ Number \notin Representable
             \/ AfterInteger # position
    <3>1. ~IntegerWhole
      BY <2>2, <2>3 DEF IntegerWhole
    <3>2. Refuse("invalid_number") \/ Refuse("number_out_of_range")
      BY <1>5, <2>3, Zenon DEF Convert, AfterInteger
    <3>3. NumberMeanings = {}
      BY <2>1, <3>1
    <3>4. QED
      BY <1>1, <3>2, <3>3, NumberRefused
  <2>4. CASE /\ ~(wanted = "unsigned" /\ ByteAt(1) = 45)
             /\ Number \in Representable
             /\ AfterInteger = position
    <3>1. Finish(Number, position)
      BY <1>5, <2>4, Zenon DEF Convert, AfterInteger
    <3>2. part' = "end" /\ parsed' = Number /\ (Whole' <=> position = n + 1)
      BY <1>3, <3>1
    <3>3. IntegerWhole <=> position = n + 1
      BY <1>1, <2>4, Zenon DEF IntegerWhole
    <3>4. QED
      BY <1>1, <2>1, <3>2, <3>3, NumberEnds
  <2>5. QED
    BY <2>3, <2>4
<1>7. QED
  BY <1>4, <1>5, <1>6

LEMMA NumeralStep ==
    ASSUME TokenInv, BoundInv, wanted \notin StringLike, rule.kind = "none", Numeral, [TextNext]_textVars
    PROVE  Numeral'
<1>1. CASE UNCHANGED textVars
  <2>1. wanted' = wanted /\ rule' = rule /\ bytes' = bytes /\ part' = part /\ position' = position
        /\ verdict' = verdict /\ parsed' = parsed
    BY <1>1 DEF textVars
  <2>2. TextMeans' <=> TextMeans
    <3>1. /\ NumbersOf(bytes)' = NumbersOf(bytes) /\ IntegersOf(bytes)' = IntegersOf(bytes)
          /\ StringsOf(bytes)' = StringsOf(bytes) /\ (Whole' <=> Whole)
      BY <2>1, ReadingStays DEF Whole
    <3>2. QED
      BY <2>1, <3>1, Zenon DEF TextMeans, StringLike
  <2>3. QED
    BY <2>1, <2>2, ReadingStays DEF Numeral
<1>2. CASE TextNext
  <2>1. part \notin {"open", "string"}
    BY DEF BoundInv
  <2>2. ReadInteger \/ ReadFraction \/ ReadExponent \/ Convert
    BY <1>2, <2>1, Zenon DEF TextNext, OpenString, ReadByte, BadString, ReadEscape, CloseString, InString
  <2>3. QED
    BY <2>2, NumeralInteger, NumeralFraction, NumeralExponent, NumeralConverted
<1>3. QED
  BY <1>1, <1>2

LEMMA AlwaysRead == TextSpec => [](TokenInv /\ SpellingInv /\ NumeralInv)
<1>1. TextInit => SpellingInv /\ NumeralInv
  BY DEF TextInit, TextStart, SpellingInv, NumeralInv, Spelling, Numeral
<1>2. TokenInv /\ BoundInv /\ SpellingInv /\ NumeralInv /\ [TextNext]_textVars => SpellingInv' /\ NumeralInv'
  <2> SUFFICES ASSUME TokenInv, BoundInv, SpellingInv, NumeralInv, [TextNext]_textVars
               PROVE  SpellingInv' /\ NumeralInv'
    OBVIOUS
  <2>1. bytes' = bytes /\ wanted' = wanted /\ rule' = rule
    BY GivenStays
  <2>2. SpellingInv'
    <3>1. SUFFICES ASSUME wanted \in StringLike, rule.kind = "none", NEW S, Turns(bytes, S) PROVE Spelling(S)'
      BY <2>1 DEF SpellingInv
    <3>2. Spelling(S)
      BY <3>1 DEF SpellingInv
    <3>3. QED
      BY <3>1, <3>2, SpellingStep
  <2>3. NumeralInv'
    <3>1. SUFFICES ASSUME wanted \notin StringLike, rule.kind = "none" PROVE Numeral'
      BY <2>1 DEF NumeralInv
    <3>2. Numeral
      BY <3>1 DEF NumeralInv
    <3>3. QED
      BY <3>1, <3>2, NumeralStep
  <2>4. QED
    BY <2>2, <2>3
<1>3. QED
  BY <1>1, <1>2, BoundAlways, PTL DEF TextSpec

\* Whatever the text and the type: parse_string takes the whole of it exactly when it is
\* one string in quotes, of well-formed UTF-8 once unescaped, within its limit, and gives
\* the string that its characters and escapes spell; parse_number and the conversion take
\* the whole exactly when it is a number of the grammar in the range of the floating-point
\* type, or an integer that the integer type holds, and give that.
THEOREM TextIsMeant == TextSpec => []TextMeans
<1>1. TokenInv /\ SpellingInv /\ NumeralInv => TextMeans
  <2> SUFFICES ASSUME TokenInv, SpellingInv, NumeralInv, verdict # "reading", rule.kind = "none" PROVE TextMeans
    BY DEF TextMeans
  <2>1. part = "end"
    BY DEF TokenInv
  <2>2. CASE wanted \notin StringLike
    BY <2>1, <2>2 DEF NumeralInv, Numeral
  <2>3. CASE wanted \in StringLike
    <3>1. \E S : Turns(bytes, S)
      <4>1. bytes \in Seq(Byte) /\ Len(bytes) \in Nat
        BY DEF TokenInv
      <4>2. CASE Len(bytes) >= 2
        BY <4>1, <4>2, SpelledTurns
      <4>3. CASE ~(Len(bytes) >= 2)
        <5> DEFINE S == [i \in {2} |-> Spelled(bytes)]
        <5>1. S[2] = Spelled(bytes)
          OBVIOUS
        <5>2. 2..Len(bytes) = {}
          BY <4>1, <4>3
        <5> HIDE DEF S
        <5>3. Turns(bytes, S)
          BY <5>1, <5>2 DEF Turns
        <5>4. QED
          BY <5>3
      <4>4. QED
        BY <4>2, <4>3
    <3>2. PICK S : Turns(bytes, S)
      BY <3>1
    <3>3. Spelling(S)
      BY <2>3, <3>2 DEF SpellingInv
    <3>4. QED
      BY <2>1, <3>3 DEF Spelling
  <2>4. QED
    BY <2>2, <2>3
<1>2. QED
  BY <1>1, AlwaysRead, PTL

=============================================================================
