------------------------- MODULE ApplicationProofs --------------------------
(***************************************************************************)
(* The middleware stack, for every list of the built-in layers and any     *)
(* number of concurrent requests.                                          *)
(*                                                                         *)
(* The inductive invariant says of a request on its way out that its ID no *)
(* longer changes, that header, problem document and log name no other,    *)
(* and that an exception on its way counts as the 500 it will become.      *)
(***************************************************************************)
EXTENDS Application, TLAPS

Entry == [status : {200, 204, 400, 404, 405, 500}, id : RequestId]

\* Generated IDs are below the counter and different requests have different ones.
FreshInv ==
    /\ \A r \in Request : id[r].from = "generator" => id[r].number < sequence
    /\ GeneratedIdsDiffer

\* What holds of one request between the layers.
OnTheWay(r) ==
    /\ going[r] \in {"new", "in"} => response[r] = Nothing /\ log[r] = <<>>
    /\ response[r].header \in {NoId, id[r]}
    /\ response[r].inBody \in {NoId, id[r]}
    /\ response[r].thrown => response[r].status = 500
    /\ \A i \in DOMAIN log[r] : /\ log[r][i].id = id[r]
                                /\ log[r][i].status = response[r].status

\* An answer of the final handler: no header yet, and no ID but the request's.
Own(answer, r) ==
    /\ answer \in Response
    /\ answer.header = NoId
    /\ answer.inBody \in {NoId, id[r]}
    /\ answer.thrown => answer.status = 500

\* A response that keeps OnTheWay true of the request.
Sound(answer, r) ==
    /\ answer \in Response
    /\ answer.status = response[r].status
    /\ answer.header \in {NoId, id[r]}
    /\ answer.inBody \in {NoId, id[r]}
    /\ answer.thrown => answer.status = 500

ApplicationInv ==
    /\ ApplicationTypeOK
    /\ FreshInv
    /\ \A r \in Request : OnTheWay(r)

-----------------------------------------------------------------------------

\* The constructors of responses make such answers.
LEMMA AnswersAreOwn ==
    ASSUME NEW r \in Request, id[r] \in RequestId
    PROVE  /\ \A status \in {200, 204, 400} : Own(Plain(status, "empty"), r)
           /\ Own(Plain(200, "payload"), r)
           /\ \A status \in {400, 404, 405, 500}, i \in {NoId, id[r]} :
                  Own(Problem(status, i), r)
           /\ Own(Nothing, r) /\ Own(Exception, r)
<1>1. NoId \in RequestId
  BY DEF RequestId
<1>2. /\ \A status \in {200, 204, 400} : Own(Plain(status, "empty"), r)
      /\ Own(Plain(200, "payload"), r)
  BY <1>1 DEF Own, Plain, Response
<1>3. \A status \in {400, 404, 405, 500}, i \in {NoId, id[r]} : Own(Problem(status, i), r)
  BY <1>1 DEF Own, Problem, Plain, Response
<1>4. Own(Nothing, r)
  BY <1>2 DEF Nothing
<1>5. Own(Exception, r)
  BY <1>1, ZenonT(40) DEF Own, Exception, Plain, Response
<1>6. QED
  BY <1>2, <1>3, <1>4, <1>5

\* No request has an ID, a response or a log entry at the start.
LEMMA InitApplicationInv == ApplicationInit => ApplicationInv
<1> SUFFICES ASSUME ApplicationInit PROVE ApplicationInv
  OBVIOUS
<1> USE DEF ApplicationInit
<1>1. NoId \in RequestId /\ NoId.from = "nobody"
  BY DEF RequestId, NoId
<1>2. ApplicationTypeOK
  <2>1. Len(stack) \in Nat
    BY ApplicationAssumption
  <2>2. depth \in [Request -> 0..Len(stack)]
    BY <2>1
  <2>3. Nothing \in Response
    BY <1>1 DEF Nothing, Plain, Response
  <2>4. QED
    BY <1>1, <2>2, <2>3 DEF ApplicationTypeOK
<1>3. FreshInv
  BY <1>1 DEF FreshInv, GeneratedIdsDiffer
<1>4. ASSUME NEW r \in Request PROVE OnTheWay(r)
  <2>1. response[r] = Nothing /\ log[r] = <<>> /\ id[r] = NoId
    OBVIOUS
  <2>2. Nothing.header = NoId /\ Nothing.inBody = NoId /\ ~Nothing.thrown
    BY DEF Nothing, Plain
  <2>3. QED
    BY ONLY <2>1, <2>2 DEF OnTheWay
<1>5. QED
  BY <1>2, <1>3, <1>4 DEF ApplicationInv

\* A request that arrives has an ID yet to come.
LEMMA ArriveInv ==
    ASSUME ApplicationInv, NEW r \in Request, Arrive(r)
    PROVE  ApplicationInv'
<1>1. ApplicationTypeOK'
  <2>1. ApplicationTypeOK
    BY DEF ApplicationInv
  <2>2. going' \in [Request -> {"new", "in", "out", "sent", "dropped"}]
    BY <2>1 DEF ApplicationTypeOK, Arrive
  <2>3. head' \in [Request -> BOOLEAN]
    BY <2>1 DEF ApplicationTypeOK, Arrive
  <2>4. incoming' \in [Request -> ClientId \cup {NoId}]
    BY <2>1 DEF ApplicationTypeOK, Arrive
  <2>5. QED
    BY <2>1, <2>2, <2>3, <2>4, ZenonT(40) DEF ApplicationTypeOK, Arrive
<1>2. FreshInv'
  BY DEF ApplicationInv, FreshInv, GeneratedIdsDiffer, Arrive
<1>3. ASSUME NEW t \in Request PROVE OnTheWay(t)'
  BY DEF ApplicationInv, ApplicationTypeOK, OnTheWay, Arrive
<1>4. QED
  BY <1>1, <1>2, <1>3 DEF ApplicationInv

\* request_id, going in, gives the request the client's ID or a new one.
LEMMA EnterInv ==
    ASSUME ApplicationInv, NEW r \in Request, Enter(r)
    PROVE  ApplicationInv'
<1>1. /\ UNCHANGED <<stack, going, head, incoming, found, response, log>>
      /\ going[r] = "in" /\ depth[r] < Len(stack)
      /\ depth' = [depth EXCEPT ![r] = @ + 1]
      /\ ApplicationTypeOK /\ FreshInv /\ OnTheWay(r)
      /\ Len(stack) \in Nat /\ sequence \in Nat
  <2>1. ApplicationTypeOK /\ FreshInv /\ OnTheWay(r)
    BY DEF ApplicationInv
  <2>2. Len(stack) \in Nat /\ sequence \in Nat
    BY <2>1, ApplicationAssumption DEF ApplicationTypeOK
  <2>3. QED
    BY <2>1, <2>2 DEF Enter
<1>2. depth' \in [Request -> 0..Len(stack)]
  BY <1>1 DEF ApplicationTypeOK
<1>3. CASE UNCHANGED <<id, sequence>>
  <2>1. ApplicationTypeOK'
    BY <1>1, <1>2, <1>3, ZenonT(40) DEF ApplicationTypeOK
  <2>2. FreshInv'
    BY <1>1, <1>3 DEF FreshInv, GeneratedIdsDiffer
  <2>3. ASSUME NEW t \in Request PROVE OnTheWay(t)'
    BY <1>1, <1>3 DEF OnTheWay, ApplicationInv
  <2>4. QED
    BY <2>1, <2>2, <2>3 DEF ApplicationInv
<1>4. CASE AssignId(r)
  <2>1. PICK new \in RequestId :
            /\ id' = [id EXCEPT ![r] = new]
            /\ \/ new.from # "generator" /\ sequence' = sequence
               \/ /\ new = [from |-> "generator", number |-> sequence]
                  /\ sequence' = sequence + 1
    <3>1. CASE incoming[r] # NoId
      <4>1. incoming[r] \in ClientId
        BY <1>1, <3>1 DEF ApplicationTypeOK
      <4>2. incoming[r] \in RequestId /\ incoming[r].from # "generator"
        BY <4>1 DEF ClientId, RequestId
      <4>3. QED
        BY <1>4, <3>1, <4>2 DEF AssignId
    <3>2. CASE incoming[r] = NoId
      <4>1. [from |-> "generator", number |-> sequence] \in RequestId
        BY <1>1 DEF RequestId
      <4>2. QED
        BY <1>4, <3>2, <4>1 DEF AssignId
    <3>3. QED
      BY <3>1, <3>2
  <2>2. id' \in [Request -> RequestId] /\ sequence' \in Nat /\ id'[r] = new
    BY <1>1, <2>1 DEF ApplicationTypeOK
  <2>3. ApplicationTypeOK'
    BY <1>1, <1>2, <2>2, ZenonT(40) DEF ApplicationTypeOK
  <2>4. \A t \in Request : t # r => id'[t] = id[t]
    BY <1>1, <2>1 DEF ApplicationTypeOK
  <2>5. \A t \in Request : id'[t].from = "generator" => id'[t].number < sequence'
    <3>1. SUFFICES ASSUME NEW t \in Request, id'[t].from = "generator"
                   PROVE  id'[t].number < sequence'
      OBVIOUS
    <3>2. CASE t = r
      BY <1>1, <2>1, <2>2, <3>1, <3>2
    <3>3. CASE t # r
      <4>1. id[t].number < sequence /\ id[t] \in RequestId
        BY <1>1, <2>4, <3>1, <3>3 DEF FreshInv, ApplicationTypeOK
      <4>2. id[t].number \in Nat
        BY <1>1, <2>4, <3>1, <3>3, <4>1 DEF RequestId, ClientId, NoId
      <4>3. sequence' = sequence \/ sequence' = sequence + 1
        BY <2>1
      <4>4. QED
        BY <1>1, <2>4, <3>3, <4>1, <4>2, <4>3
    <3>4. QED
      BY <3>2, <3>3
  <2>6. GeneratedIdsDiffer'
    <3>1. ASSUME NEW t \in Request, t # r, new.from = "generator"
          PROVE  id[t] # new
      <4>1. new.number = sequence
        BY <2>1, <3>1
      <4>2. id[t].from = "generator" => id[t].number < sequence
        BY <1>1 DEF FreshInv
      <4>3. QED
        BY <1>1, <3>1, <4>1, <4>2
    <3>2. \A t, u \in Request : t # u /\ id'[t].from = "generator" => id'[u] # id'[t]
      BY <1>1, <2>2, <2>4, <3>1 DEF FreshInv, GeneratedIdsDiffer
    <3>3. QED
      BY <3>2 DEF GeneratedIdsDiffer
  <2>7. ASSUME NEW t \in Request PROVE OnTheWay(t)'
    <3>1. CASE t = r
      BY <1>1, <3>1 DEF OnTheWay, Nothing, Plain
    <3>2. CASE t # r
      BY <1>1, <2>4, <3>2 DEF OnTheWay, ApplicationInv
    <3>3. QED
      BY <3>1, <3>2
  <2>8. QED
    BY <2>3, <2>5, <2>6, <2>7 DEF ApplicationInv, FreshInv
<1>5. QED
  BY <1>3, <1>4 DEF Enter

\* The final handler answers, with the request's own ID if with any, or throws.
LEMMA TurnBackInv ==
    ASSUME ApplicationInv, NEW r \in Request, AtFinal(r),
           NEW answer, Own(answer, r), NEW dispatched \in BOOLEAN,
           TurnBack(r, answer, dispatched)
    PROVE  ApplicationInv'
<1>1. ApplicationTypeOK'
  BY ZenonT(40) DEF ApplicationInv, ApplicationTypeOK, TurnBack, Own
<1>2. FreshInv'
  BY DEF ApplicationInv, FreshInv, GeneratedIdsDiffer, TurnBack
<1>3. ASSUME NEW t \in Request PROVE OnTheWay(t)'
  <2>1. CASE t = r
    <3>1. log[r] = <<>> /\ response'[r] = answer /\ going'[r] = "out"
      BY DEF ApplicationInv, ApplicationTypeOK, OnTheWay, AtFinal, TurnBack
    <3>2. log'[r] = <<>> /\ id'[r] = id[r]
      BY <3>1 DEF TurnBack
    <3>3. QED
      BY <2>1, <3>1, <3>2 DEF OnTheWay, Own
  <2>2. CASE t # r
    BY <2>2 DEF ApplicationInv, ApplicationTypeOK, OnTheWay, TurnBack
  <2>3. QED
    BY <2>1, <2>2
<1>4. QED
  BY <1>1, <1>2, <1>3 DEF ApplicationInv

\* Every way the final handler ends is one of those.
LEMMA FinalInv ==
    ASSUME ApplicationInv, NEW r \in Request,
           Document(r) \/ Reject(r) \/ Serve(r) \/ Throw(r)
    PROVE  ApplicationInv'
<1>1. id[r] \in RequestId
  BY DEF ApplicationInv, ApplicationTypeOK
<1>2. AtFinal(r)
  BY DEF Document, Reject, Serve, Throw
<1>3. ASSUME NEW answer, NEW dispatched \in BOOLEAN,
             TurnBack(r, answer, dispatched), Own(answer, r)
      PROVE  ApplicationInv'
  BY <1>2, <1>3, TurnBackInv
<1>4. Own(Nothing, r) /\ Own(Exception, r) /\ Own(Plain(200, "payload"), r)
  BY <1>1, AnswersAreOwn
<1>5. \A status \in {200, 204, 400} : Own(Plain(status, "empty"), r)
  BY <1>1, AnswersAreOwn
<1>6. /\ Own(Problem(400, id[r]), r) /\ Own(Problem(404, id[r]), r)
      /\ Own(Problem(405, id[r]), r) /\ Own(Problem(405, NoId), r)
  BY <1>1, AnswersAreOwn
<1>7. CASE Document(r)
  <2>1. CASE TurnBack(r, Plain(200, "empty"), FALSE)
    BY <1>3, <1>5, <2>1, ZenonT(40)
  <2>2. ASSUME NEW answer \in {Plain(200, "payload"), Nothing, Problem(405, NoId)},
               TurnBack(r, answer, FALSE)
        PROVE  ApplicationInv'
    <3>1. Own(answer, r)
      BY <1>4, <1>6, <2>2
    <3>2. QED
      BY <1>3, <2>2, <3>1
  <2>3. QED
    BY <1>7, <2>1, <2>2, ZenonT(40) DEF Document
<1>8. CASE Reject(r)
  <2>1. CASE TurnBack(r, Nothing, FALSE)
    BY <1>3, <1>4, <2>1
  <2>2. ASSUME NEW status \in {404, 405}, TurnBack(r, Problem(status, id[r]), FALSE)
        PROVE  ApplicationInv'
    <3>1. Own(Problem(status, id[r]), r)
      BY <1>6, <2>2
    <3>2. QED
      BY <1>3, <2>2, <3>1
  <2>3. TurnBack(r, Nothing, FALSE)
        \/ TurnBack(r, Problem(404, id[r]), FALSE) \/ TurnBack(r, Problem(405, id[r]), FALSE)
    BY <1>8, ZenonT(40) DEF Reject
  <2>4. QED
    BY <2>1, <2>2, <2>3, ZenonT(40)
<1>9. CASE Serve(r)
  <2>1. PICK answer \in {Problem(400, id[r]), Plain(200, "payload"), Nothing} :
            TurnBack(r, IF head[r] THEN Plain(answer.status, "empty") ELSE answer, TRUE)
    BY <1>9 DEF Serve
  <2>2. answer.status \in {200, 204, 400}
    BY <2>1 DEF Problem, Plain, Nothing
  <2>3. Own(answer, r) /\ Own(Plain(answer.status, "empty"), r)
    BY <1>4, <1>5, <1>6, <2>1, <2>2
  <2>4. QED
    BY <1>3, <2>1, <2>3
<1>10. CASE Throw(r)
  BY <1>3, <1>4, <1>10 DEF Throw
<1>11. QED
  BY <1>7, <1>8, <1>9, <1>10

\* A layer, or the session, that puts another response of the same status in the
\* place of the response, and logs nothing.
LEMMA PassInv ==
    ASSUME ApplicationInv, NEW r \in Request, NEW answer, Sound(answer, r),
           response' = [response EXCEPT ![r] = answer], log' = log,
           UNCHANGED <<stack, sequence, head, incoming, id, found>>,
           depth' \in [Request -> 0..Len(stack)],
           going[r] = "out",
           going' \in [Request -> {"new", "in", "out", "sent", "dropped"}],
           going'[r] \notin {"new", "in"},
           \A t \in Request : t # r => going'[t] = going[t]
    PROVE  ApplicationInv'
<1>1. ApplicationTypeOK'
  BY ZenonT(40) DEF ApplicationInv, ApplicationTypeOK, Sound
<1>2. FreshInv'
  BY DEF ApplicationInv, FreshInv, GeneratedIdsDiffer
<1>3. response'[r] = answer /\ \A t \in Request : t # r => response'[t] = response[t]
  BY DEF ApplicationInv, ApplicationTypeOK
<1>4. ASSUME NEW t \in Request PROVE OnTheWay(t)'
  <2>1. OnTheWay(t)
    BY DEF ApplicationInv
  <2>2. CASE t = r
    BY <1>3, <2>1, <2>2 DEF OnTheWay, Sound
  <2>3. CASE t # r
    BY <1>3, <2>1, <2>3 DEF OnTheWay
  <2>4. QED
    BY <2>2, <2>3
<1>5. QED
  BY <1>1, <1>2, <1>4 DEF ApplicationInv

\* access_log writes its entry.
LEMMA RecordInv ==
    ASSUME ApplicationInv, NEW r \in Request, Record(r), going[r] = "out",
           UNCHANGED <<stack, sequence, going, head, incoming, id, found>>,
           depth' \in [Request -> 0..Len(stack)]
    PROVE  ApplicationInv'
<1> DEFINE entry == [status |-> response[r].status, id |-> id[r]]
<1>1. log' = [log EXCEPT ![r] = Append(log[r], entry)] /\ response' = response
  BY DEF Record
<1>2. entry \in Entry
  <2>1. id[r] \in RequestId /\ response[r] \in Response
    BY DEF ApplicationInv, ApplicationTypeOK
  <2>2. QED
    BY <2>1 DEF Entry, Response
<1>3. log \in [Request -> Seq(Entry)]
  BY ZenonT(40) DEF ApplicationInv, ApplicationTypeOK, Entry
<1>4. entry.id = id[r] /\ entry.status = response[r].status
  OBVIOUS
<1> HIDE DEF entry
<1>5. log' \in [Request -> Seq(Entry)] /\ log'[r] = Append(log[r], entry)
  BY <1>1, <1>2, <1>3
<1>6. ApplicationTypeOK'
  BY <1>1, <1>5, ZenonT(40) DEF ApplicationInv, ApplicationTypeOK, Entry
<1>7. FreshInv'
  BY DEF ApplicationInv, FreshInv, GeneratedIdsDiffer
<1>8. \A i \in DOMAIN log'[r] :
         log'[r][i] = entry \/ (i \in DOMAIN log[r] /\ log'[r][i] = log[r][i])
  BY <1>2, <1>3, <1>5
<1>9. ASSUME NEW t \in Request PROVE OnTheWay(t)'
  <2>1. OnTheWay(t)
    BY DEF ApplicationInv
  <2>2. CASE t = r
    <3>1. \A i \in DOMAIN log'[r] : /\ log'[r][i].id = id[r]
                                    /\ log'[r][i].status = response[r].status
      BY <1>4, <1>8, <2>1, <2>2 DEF OnTheWay
    <3>2. response' = response
      BY <1>1
    <3>3. QED
      BY <2>1, <2>2, <3>1, <3>2 DEF OnTheWay
  <2>3. CASE t # r
    <3>1. log'[t] = log[t]
      BY <1>1, <1>3, <2>3
    <3>2. response' = response
      BY <1>1
    <3>3. QED
      BY <2>1, <3>1, <3>2 DEF OnTheWay
  <2>4. QED
    BY <2>2, <2>3
<1>10. QED
  BY <1>6, <1>7, <1>9 DEF ApplicationInv

\* One layer on the way out.
LEMMA LeaveInv ==
    ASSUME ApplicationInv, NEW r \in Request, Leave(r)
    PROVE  ApplicationInv'
<1>1. /\ UNCHANGED <<stack, sequence, going, head, incoming, id, found>>
      /\ going[r] = "out" /\ depth[r] > 0
      /\ depth' = [depth EXCEPT ![r] = @ - 1]
      /\ Stamp(r) \/ Record(r) \/ Recover(r)
  BY DEF Leave
<1>2. ApplicationTypeOK /\ OnTheWay(r) /\ id[r] \in RequestId /\ response[r] \in Response
  <2>1. ApplicationTypeOK /\ OnTheWay(r)
    BY DEF ApplicationInv
  <2>2. id \in [Request -> RequestId]
    BY <2>1 DEF ApplicationTypeOK
  <2>3. response \in [Request -> Response]
    BY <2>1 DEF ApplicationTypeOK
  <2>4. QED
    BY <2>1, <2>2, <2>3
<1>3. depth' \in [Request -> 0..Len(stack)]
  <2>1. depth \in [Request -> 0..Len(stack)] /\ Len(stack) \in Nat
    BY <1>2, ApplicationAssumption DEF ApplicationTypeOK
  <2>2. depth[r] - 1 \in 0..Len(stack)
    BY <1>1, <2>1
  <2>3. QED
    BY <1>1, <2>1, <2>2
<1>4. going' \in [Request -> {"new", "in", "out", "sent", "dropped"}]
  BY <1>1, <1>2 DEF ApplicationTypeOK
<1>5. CASE Record(r)
  BY <1>1, <1>3, <1>5, RecordInv
<1>6. CASE Stamp(r)
  <2> DEFINE answer == [response[r] EXCEPT !.header =
                            IF response[r].thrown THEN @ ELSE id[r]]
  <2>1. response' = [response EXCEPT ![r] = answer] /\ log' = log
    BY <1>6 DEF Stamp
  <2>2. Sound(answer, r)
    BY <1>2 DEF Sound, Response, OnTheWay
  <2> HIDE DEF answer
  <2>3. QED
    BY <1>1, <1>3, <1>4, <2>1, <2>2, PassInv
<1>7. CASE Recover(r)
  <2> DEFINE answer == IF response[r].thrown THEN Problem(500, id[r]) ELSE response[r]
  <2>1. response' = [response EXCEPT ![r] = answer] /\ log' = log
    BY <1>7 DEF Recover
  <2>2. Sound(answer, r)
    <3>1. CASE response[r].thrown
      <4>1. Own(Problem(500, id[r]), r) /\ Problem(500, id[r]).status = 500
        <5>1. Own(Problem(500, id[r]), r)
          BY <1>2, AnswersAreOwn
        <5>2. QED
          BY <5>1 DEF Problem
      <4>2. QED
        BY <1>2, <3>1, <4>1 DEF Sound, Own, OnTheWay
    <3>2. CASE ~response[r].thrown
      BY <1>2, <3>2 DEF Sound, OnTheWay
    <3>3. QED
      BY <3>1, <3>2
  <2> HIDE DEF answer
  <2>3. QED
    BY <1>1, <1>3, <1>4, <2>1, <2>2, PassInv
<1>8. QED
  BY <1>1, <1>5, <1>6, <1>7

\* The session sends a response, or nothing.
LEMMA SendInv ==
    ASSUME ApplicationInv, NEW r \in Request, Send(r) \/ Drop(r)
    PROVE  ApplicationInv'
<1>1. /\ UNCHANGED <<stack, sequence, depth, head, incoming, id, found, log>>
      /\ going[r] = "out"
      /\ \E next \in {"sent", "dropped"} : going' = [going EXCEPT ![r] = next]
  BY DEF Send, Drop
<1>2. ApplicationTypeOK /\ OnTheWay(r) /\ id[r] \in RequestId /\ response[r] \in Response
  <2>1. ApplicationTypeOK /\ OnTheWay(r)
    BY DEF ApplicationInv
  <2>2. id \in [Request -> RequestId]
    BY <2>1 DEF ApplicationTypeOK
  <2>3. response \in [Request -> Response]
    BY <2>1 DEF ApplicationTypeOK
  <2>4. QED
    BY <2>1, <2>2, <2>3
<1>3. /\ going' \in [Request -> {"new", "in", "out", "sent", "dropped"}]
      /\ going'[r] \notin {"new", "in"}
      /\ \A t \in Request : t # r => going'[t] = going[t]
      /\ depth' \in [Request -> 0..Len(stack)]
  BY <1>1, <1>2 DEF ApplicationTypeOK
<1>4. Sound(response[r], r)
  BY <1>2 DEF Sound, OnTheWay
<1>5. response[r].thrown => Sound(Problem(500, NoId), r)
  <2>1. Own(Problem(500, NoId), r) /\ Problem(500, NoId).status = 500
    <3>1. Own(Problem(500, NoId), r)
      BY <1>2, AnswersAreOwn
    <3>2. QED
      BY <3>1 DEF Problem
  <2>2. QED
    BY <1>2, <2>1 DEF Sound, Own, OnTheWay
<1>6. \E answer : Sound(answer, r) /\ response' = [response EXCEPT ![r] = answer]
  <2>1. response = [response EXCEPT ![r] = response[r]]
    BY <1>2 DEF ApplicationTypeOK
  <2>2. QED
    BY <1>4, <1>5, <2>1 DEF Send, Drop
<1>7. QED
  BY <1>1, <1>3, <1>6, PassInv

-----------------------------------------------------------------------------

\* The invariant of the middleware stack.
LEMMA ApplicationInvHolds == ApplicationSpec => []ApplicationInv
<1>1. ApplicationInv /\ [ApplicationNext]_appVars => ApplicationInv'
  <2> SUFFICES ASSUME ApplicationInv, [ApplicationNext]_appVars PROVE ApplicationInv'
    OBVIOUS
  <2>1. CASE ApplicationNext
    <3>1. PICK r \in Request :
              \/ Arrive(r) \/ Enter(r)
              \/ Document(r) \/ Reject(r) \/ Serve(r) \/ Throw(r)
              \/ Leave(r) \/ Send(r) \/ Drop(r)
      BY <2>1 DEF ApplicationNext
    <3>2. QED
      BY <3>1, ArriveInv, EnterInv, FinalInv, LeaveInv, SendInv
  <2>2. CASE UNCHANGED appVars
    <3>1. ApplicationTypeOK' /\ FreshInv'
      BY <2>2, ZenonT(40) DEF appVars, ApplicationInv, ApplicationTypeOK, FreshInv, GeneratedIdsDiffer
    <3>2. \A r \in Request : OnTheWay(r)'
      BY <2>2 DEF appVars, ApplicationInv, OnTheWay
    <3>3. QED
      BY <3>1, <3>2 DEF ApplicationInv
  <2>3. QED
    BY <2>1, <2>2
<1>2. QED
  BY <1>1, InitApplicationInv, PTL DEF ApplicationSpec

\* The variables of the middleware stack keep their types: every exception ends
\* as a response with a status.
THEOREM ApplicationTypeCorrect == ApplicationSpec => []ApplicationTypeOK
<1>1. ApplicationInv => ApplicationTypeOK
  BY DEF ApplicationInv
<1>2. QED
  BY <1>1, ApplicationInvHolds, PTL

\* However the layers are ordered, the access log reports the status that is sent.
THEOREM LogIsTrue == ApplicationSpec => []LogTellsStatus
<1>1. ApplicationInv => LogTellsStatus
  BY DEF ApplicationInv, OnTheWay, LogTellsStatus, Entries
<1>2. QED
  BY <1>1, ApplicationInvHolds, PTL

\* However the layers are ordered, a request goes by one ID.
THEOREM OneIdOnly == ApplicationSpec => []OneIdPerRequest
<1>1. ApplicationInv => OneIdPerRequest
  BY DEF ApplicationInv, OnTheWay, OneIdPerRequest, Entries
<1>2. QED
  BY <1>1, ApplicationInvHolds, PTL

\* Concurrent requests never share a generated ID.
THEOREM GeneratedIdsAreUnique == ApplicationSpec => []GeneratedIdsDiffer
<1>1. ApplicationInv => GeneratedIdsDiffer
  BY DEF ApplicationInv, FreshInv
<1>2. QED
  BY <1>1, ApplicationInvHolds, PTL

-----------------------------------------------------------------------------
(* Recovery inside request_id.                                             *)

Identified(r) ==
    /\ going[r] \in {"new", "in"} =>
           \A k \in 1..depth[r] : stack[k] = "request_id" => id[r] # NoId
    /\ going[r] \notin {"new", "in"} =>
           \A k \in DOMAIN stack : stack[k] = "request_id" => id[r] # NoId

Recovered(r) ==
    \A i, j \in DOMAIN stack :
        i < j /\ stack[i] = "request_id" /\ stack[j] = "recover_exceptions" =>
            /\ going[r] = "out" => /\ depth[r] < j => ~response[r].thrown
                                   /\ depth[r] < i => response[r].header # NoId
            /\ going[r] = "sent" => response[r].header # NoId

\* What is known of the request a step is about, and of its stack.
LEMMA StackFacts ==
    ASSUME ApplicationTypeOK, NEW r \in Request
    PROVE  /\ Len(stack) \in Nat /\ DOMAIN stack = 1..Len(stack)
           /\ depth[r] \in 0..Len(stack) /\ id[r] \in RequestId
           /\ response[r] \in Response
<1>1. stack \in Seq(Layer)
  BY ApplicationAssumption DEF ApplicationTypeOK
<1>2. QED
  BY <1>1 DEF ApplicationTypeOK

\* The step of one request leaves the others alone.
LEMMA OthersStay ==
    ASSUME ApplicationTypeOK, NEW r \in Request, NEW t \in Request \ {r},
           \/ Arrive(r) \/ Enter(r)
           \/ Document(r) \/ Reject(r) \/ Serve(r) \/ Throw(r)
           \/ Leave(r) \/ Send(r) \/ Drop(r)
    PROVE  UNCHANGED <<stack, going[t], depth[t], id[t], response[t]>>
<1>1. CASE Arrive(r) \/ Leave(r) \/ Send(r) \/ Drop(r)
  BY <1>1 DEF Arrive, Leave, Stamp, Record, Recover, Send, Drop, ApplicationTypeOK
<1>2. CASE Enter(r)
  BY <1>2 DEF Enter, AssignId, ApplicationTypeOK
<1>3. CASE Document(r) \/ Reject(r) \/ Serve(r) \/ Throw(r)
  BY <1>3 DEF Document, Reject, Serve, Throw, TurnBack, ApplicationTypeOK
<1>4. QED
  BY <1>1, <1>2, <1>3

\* request_id gives an ID.
LEMMA EnterIdentifies ==
    ASSUME ApplicationTypeOK, NEW r \in Request, Identified(r), Enter(r)
    PROVE  Identified(r)' /\ (Recovered(r) => Recovered(r)')
<1>1. /\ UNCHANGED <<stack, going, response>> /\ going[r] = "in"
      /\ depth' = [depth EXCEPT ![r] = @ + 1]
  BY DEF Enter
<1>2. depth'[r] = depth[r] + 1 /\ depth[r] \in Nat
  BY <1>1, StackFacts DEF ApplicationTypeOK
<1>3. CASE stack[depth[r] + 1] = "request_id"
  <2>1. id'[r] # NoId
    BY <1>3 DEF Enter, AssignId, ApplicationTypeOK, NoId
  <2>2. QED
    BY <1>1, <2>1 DEF Identified, Recovered
<1>4. CASE stack[depth[r] + 1] # "request_id"
  <2>1. id' = id
    BY <1>4 DEF Enter
  <2>2. ASSUME NEW k \in 1..depth'[r], stack[k] = "request_id" PROVE id[r] # NoId
    <3>1. k \in 1..depth[r]
      BY <1>2, <1>4, <2>2
    <3>2. QED
      BY <1>1, <2>2, <3>1 DEF Identified
  <2>3. QED
    BY <1>1, <2>1, <2>2 DEF Identified, Recovered
<1>5. QED
  BY <1>3, <1>4

LEMMA FinalIdentifies ==
    ASSUME ApplicationTypeOK, NEW r \in Request, Identified(r),
           Document(r) \/ Reject(r) \/ Serve(r) \/ Throw(r)
    PROVE  Identified(r)' /\ Recovered(r)'
<1>1. /\ going[r] = "in" /\ depth[r] = Len(stack) /\ going'[r] = "out"
      /\ UNCHANGED <<stack, depth, id>>
  BY DEF Document, Reject, Serve, Throw, AtFinal, TurnBack, ApplicationTypeOK
<1>2. Len(stack) \in Nat /\ DOMAIN stack = 1..Len(stack)
  BY StackFacts
<1>3. Identified(r)'
  BY <1>1, <1>2 DEF Identified
<1>4. QED
  BY <1>1, <1>2, <1>3 DEF Recovered

LEMMA LeaveIdentifies ==
    ASSUME ApplicationTypeOK, NEW r \in Request, Identified(r), Recovered(r), Leave(r)
    PROVE  Identified(r)' /\ Recovered(r)'
<1>1. /\ UNCHANGED <<stack, going, id>> /\ going[r] = "out"
      /\ depth[r] > 0 /\ depth'[r] = depth[r] - 1
  BY DEF Leave, ApplicationTypeOK
<1>2. /\ Len(stack) \in Nat /\ DOMAIN stack = 1..Len(stack)
      /\ depth[r] \in 1..Len(stack)
  BY <1>1, StackFacts
<1>3. Identified(r)'
  BY <1>1 DEF Identified
<1>4. ASSUME NEW i \in DOMAIN stack, NEW j \in DOMAIN stack,
             i < j, stack[i] = "request_id", stack[j] = "recover_exceptions"
      PROVE  /\ depth'[r] < j => ~response'[r].thrown
             /\ depth'[r] < i => response'[r].header # NoId
  <2>1. /\ depth[r] < j => ~response[r].thrown
        /\ depth[r] < i => response[r].header # NoId
    BY <1>1, <1>4 DEF Recovered
  <2>2. id[r] # NoId
    BY <1>1, <1>4 DEF Identified
  <2>3. CASE stack[depth[r]] = "request_id"
    <3>1. /\ response'[r].thrown = response[r].thrown
          /\ response'[r].header = IF response[r].thrown THEN response[r].header ELSE id[r]
      BY <2>3, StackFacts DEF Leave, Stamp, ApplicationTypeOK, Response
    <3>2. depth[r] # j
      BY <1>4, <2>3
    <3>3. QED
      BY <1>1, <1>2, <1>4, <2>1, <2>2, <3>1, <3>2
  <2>4. CASE stack[depth[r]] = "access_log"
    <3>1. response'[r] = response[r]
      BY <2>4 DEF Leave, Record
    <3>2. depth[r] # i /\ depth[r] # j
      BY <1>4, <2>4
    <3>3. QED
      BY <1>1, <1>2, <1>4, <2>1, <3>1, <3>2
  <2>5. CASE stack[depth[r]] = "recover_exceptions"
    <3>1. response'[r] = IF response[r].thrown THEN Problem(500, id[r]) ELSE response[r]
      BY <2>5 DEF Leave, Recover, ApplicationTypeOK
    <3>2. ~response'[r].thrown
      BY <3>1 DEF Problem, Plain
    <3>3. depth[r] # i
      BY <1>4, <2>5
    <3>4. ASSUME depth'[r] < i PROVE response'[r].header # NoId
      <4>1. depth[r] < i
        BY <1>1, <1>2, <3>3, <3>4
      <4>2. QED
        BY <1>2, <1>4, <2>1, <3>1, <4>1
    <3>5. QED
      BY <3>2, <3>4
  <2>6. QED
    BY <2>3, <2>4, <2>5 DEF Leave
<1>5. QED
  BY <1>1, <1>3, <1>4 DEF Recovered

LEMMA SendIdentifies ==
    ASSUME ApplicationTypeOK, NEW r \in Request, Identified(r), Recovered(r), Send(r) \/ Drop(r)
    PROVE  Identified(r)' /\ Recovered(r)'
<1>1. /\ UNCHANGED <<stack, depth, id>> /\ going[r] = "out" /\ depth[r] = 0
      /\ going'[r] \in {"sent", "dropped"}
      /\ ~response[r].thrown => response'[r] = response[r]
  BY DEF Send, Drop, ApplicationTypeOK
<1>2. DOMAIN stack \in SUBSET (Nat \ {0})
  BY StackFacts
<1>3. QED
  BY <1>1, <1>2 DEF Identified, Recovered

\* With recovery inside request_id every response carries the ID, for every stack.
THEOREM RecoveryKeepsTheId == ApplicationSpec => []RecoveredKeepsId
<1> DEFINE Inv == \A r \in Request : Identified(r) /\ Recovered(r)
<1>1. ASSUME ApplicationInit PROVE Inv
  <2>1. ASSUME NEW r \in Request PROVE going[r] = "new" /\ depth[r] = 0
    BY <1>1 DEF ApplicationInit
  <2>2. 1..0 = {}
    OBVIOUS
  <2>3. QED
    BY <2>1, <2>2 DEF Identified, Recovered
<1>2. ASSUME ApplicationTypeOK, Inv, [ApplicationNext]_appVars PROVE Inv'
  <2>1. CASE UNCHANGED appVars
    BY <1>2, <2>1 DEF appVars, Identified, Recovered
  <2>2. CASE ApplicationNext
    <3>1. PICK r \in Request : \/ Arrive(r) \/ Enter(r)
                               \/ Document(r) \/ Reject(r) \/ Serve(r) \/ Throw(r)
                               \/ Leave(r) \/ Send(r) \/ Drop(r)
      BY <2>2 DEF ApplicationNext
    <3>2. ASSUME NEW t \in Request \ {r} PROVE Identified(t)' /\ Recovered(t)'
      <4>1. UNCHANGED <<stack, going[t], depth[t], id[t], response[t]>>
        BY <1>2, <3>1, OthersStay
      <4>2. QED
        BY <1>2, <4>1 DEF Identified, Recovered
    <3>3. CASE Arrive(r)
      <4>1. /\ UNCHANGED <<stack, depth, id, response>>
            /\ going[r] = "new" /\ going'[r] = "in"
        BY <1>2, <3>3 DEF Arrive, ApplicationTypeOK
      <4>2. QED
        BY <1>2, <3>2, <4>1 DEF Identified, Recovered
    <3>4. CASE ~Arrive(r)
      <4>1. Identified(r)' /\ Recovered(r)'
        BY <1>2, <3>1, <3>4, EnterIdentifies, FinalIdentifies, LeaveIdentifies, SendIdentifies
      <4>2. QED
        BY <3>2, <4>1
    <3>5. QED
      BY <3>3, <3>4
  <2>3. QED
    BY <1>2, <2>1, <2>2
<1>3. Inv => RecoveredKeepsId
  BY DEF Recovered, RecoveredKeepsId
<1>4. QED
  BY <1>1, <1>2, <1>3, ApplicationTypeCorrect, PTL DEF ApplicationSpec

=============================================================================
