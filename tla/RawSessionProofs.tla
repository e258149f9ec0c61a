-------------------------- MODULE RawSessionProofs --------------------------
(* Facts about one session's steps, for RawServerProofs. *)
EXTENDS RawSession, TLAPS

\* What a job of a session's strand, its I/O or its timer can do: everything a
\* session does by itself.
SessionStep(s) ==
    \/ Resume(s) \/ HandlerDone(s) \/ Io(s) \/ Timeout(s)
    \/ \E kind \in Stop : Deliver(s, kind)

\* Told by force to leave: the lambda is on its way or has run.
Forced(s) == cancelled[s] \/ "forced" \in inbox[s]

-----------------------------------------------------------------------------
\* A session that ends has values of its type.
LEMMA EndType ==
    ASSUME TypeOK, NEW s \in Session,
           NEW ph \in {"reading", "handling", "writing", "finished"},
           End(s, ph), UNCHANGED stopVars
    PROVE  TypeOK'
BY DEF TypeOK, End, stopVars, Place, Result, Wire, Parked

\* A response has values of its type.
LEMMA AnswerType ==
    ASSUME TypeOK, NEW s \in Session, NEW status \in Status, NEW keep \in BOOLEAN,
           Answer(s, status, keep), UNCHANGED stopVars
    PROVE  TypeOK'
<1>1. CASE End(s, "writing")
  BY <1>1, EndType
<1>2. CASE /\ Await(s, "write", "writing", "write")
           /\ wire' = [wire EXCEPT ![s] = [status |-> status, keep |-> keep]]
           /\ UNCHANGED late
  <2>1. [status |-> status, keep |-> keep] \in Wire
    BY DEF Wire
  <2>2. wire' \in [Session -> Wire]
    BY <1>2, <2>1 DEF TypeOK
  <2> QED
    BY <1>2, <2>2 DEF TypeOK, Await, stopVars, Place, Parked
<1> QED
  BY <1>1, <1>2 DEF Answer

\* So has a header read.
LEMMA LoopTopType ==
    ASSUME TypeOK, NEW s \in Session, NEW limit \in {"header", "idle"},
           LoopTop(s, limit), UNCHANGED stopVars
    PROVE  TypeOK'
<1>1. CASE Finish(s)
  BY <1>1, EndType DEF Finish
<1>2. CASE StartHeaderRead(s, limit)
  <2>1. NoWire \in Wire
    BY DEF Wire
  <2>2. wire' \in [Session -> Wire]
    BY <1>2, <2>1 DEF TypeOK, StartHeaderRead
  <2> QED
    BY <1>2, <2>2 DEF TypeOK, StartHeaderRead, Await, stopVars, Place, Parked
<1> QED
  BY <1>1, <1>2 DEF LoopTop

\* A refusal closes the connection.
LEMMA RefusalType ==
    ASSUME TypeOK, NEW s \in Session, NEW status \in {400, 413},
           Refuse(s, status), UNCHANGED stopVars
    PROVE  TypeOK'
<1>1. status \in Status
  BY DEF Status
<1>2. FALSE \in BOOLEAN
  OBVIOUS
<1> QED
  BY <1>1, <1>2, AnswerType DEF Refuse

\* A reply is an answer whose connection may survive.
LEMMA ReplyType ==
    ASSUME TypeOK, NEW s \in Session, NEW status \in Status,
           Reply(s, status), UNCHANGED stopVars
    PROVE  TypeOK'
<1>1. PICK agreed \in BOOLEAN : Answer(s, status, agreed /\ ~stopRequested[s])
  BY DEF Reply
<1>2. (agreed /\ ~stopRequested[s]) \in BOOLEAN
  OBVIOUS
<1> QED
  BY <1>1, <1>2, AnswerType

\* Calling the handler keeps the types; the history counter saturates.
LEMMA InvokeType ==
    ASSUME TypeOK, NEW s \in Session, NEW kind \in {"sync", "async"},
           Invoke(s, kind), UNCHANGED stopVars
    PROVE  TypeOK'
<1>1. CASE End(s, "writing")
  BY <1>1, EndType
<1>2. CASE ~End(s, "writing")
  <2>1. late[s] \in 0..2
    BY DEF TypeOK
  <2>2. late' \in [Session -> 0..2]
    BY <1>2, <2>1 DEF Invoke, TypeOK
  <2> QED
    BY <1>2, <2>2 DEF Invoke, TypeOK, stopVars, Place
<1> QED
  BY <1>1, <1>2

\* Every step of a session keeps the types.
LEMMA SessionStepType ==
    ASSUME TypeOK, NEW s \in Session, SessionStep(s)
    PROVE  TypeOK'
<1>1. CASE Begin(s)
  BY <1>1, LoopTopType DEF Begin
<1>2. CASE ReadAgain(s)
  BY <1>2 DEF ReadAgain, TypeOK, stopVars, Result
<1>3. CASE HeaderRead(s)
  <2>1. CASE Finish(s)
    BY <1>3, <2>1, EndType DEF HeaderRead, Finish
  <2>2. CASE Refuse(s, 413) \/ Refuse(s, 400)
    BY <1>3, <2>2, RefusalType DEF HeaderRead
  <2>3. CASE StartBodyRead(s)
    <3>1. CASE End(s, "reading")
      BY <1>3, <3>1, EndType DEF HeaderRead
    <3>2. CASE ~End(s, "reading")
      BY <1>3, <2>3, <3>2, ZenonT(40)
         DEF HeaderRead, StartBodyRead, Await, TypeOK, stopVars, Place, Parked
    <3> QED
      BY <3>1, <3>2
  <2> QED
    BY <1>3, <2>1, <2>2, <2>3 DEF HeaderRead
<1>4. CASE BodyRead(s)
  <2>1. CASE Finish(s)
    BY <1>4, <2>1, EndType DEF BodyRead, Finish
  <2>2. CASE Refuse(s, 413) \/ Refuse(s, 400)
    BY <1>4, <2>2, RefusalType DEF BodyRead
  <2>3. CASE Reply(s, 405)
    BY <1>4, <2>3, ReplyType DEF BodyRead, Status
  <2>4. CASE \E kind \in {"sync", "async"} : Invoke(s, kind)
    BY <1>4, <2>4, InvokeType DEF BodyRead
  <2> QED
    BY <1>4, <2>1, <2>2, <2>3, <2>4 DEF BodyRead
<1>5. CASE WriteDone(s)
  BY <1>5, LoopTopType, EndType DEF WriteDone, Finish
<1>6. CASE HandlerDone(s)
  BY <1>6, ReplyType DEF HandlerDone, Status
<1>7. CASE Io(s)
  <2>1. PICK result \in Outcome(s) : Complete(s, result)
    BY <1>7 DEF Io
  <2>2. result \in Result
    BY <2>1 DEF Outcome, Result
  <2> QED
    BY <2>1, <2>2 DEF Complete, TypeOK, stopVars
<1>8. CASE Timeout(s)
  BY <1>8 DEF Timeout, Complete, TypeOK, stopVars, Result
<1>9. ASSUME NEW kind \in Stop, Deliver(s, kind)
      PROVE  TypeOK'
  <2>1. inbox' \in [Session -> SUBSET Stop]
    BY <1>9 DEF Deliver, TypeOK
  <2> QED
    BY <1>9, <2>1 DEF Deliver, TypeOK, Result
<1> QED
  BY <1>1, <1>2, <1>3, <1>4, <1>5, <1>6, <1>7, <1>8, <1>9 DEF SessionStep, Resume

\* So do the server's steps on a session.
LEMMA SpawnType ==
    ASSUME TypeOK, NEW s \in Session, Spawn(s) \/ Retire(s)
    PROVE  TypeOK'
BY DEF TypeOK, Spawn, Retire, stopVars, Place

\* request_session_stop writes the stop source and the strand's queue only.
LEMMA RequestStopType ==
    ASSUME TypeOK, NEW S, NEW kind \in Stop, RequestStop(S, kind)
    PROVE  TypeOK'
<1>1. inbox' \in [Session -> SUBSET Stop]
  BY DEF RequestStop, TypeOK
<1> QED
  BY <1>1 DEF RequestStop, TypeOK

-----------------------------------------------------------------------------
\* A session neither appears nor vanishes by its own step, and does not take
\* back that it was asked, or forced, to stop.
LEMMA SessionStepFrame ==
    ASSUME TypeOK, NEW s \in Session, SessionStep(s)
    PROVE  /\ \A t \in Session : Live(t)' = Live(t)
           /\ stopRequested' = stopRequested
           /\ asked' = asked
           /\ \A t \in Session : Forced(t)' <=> Forced(t)
           /\ \A t \in Session \ {s} : pc'[t] = pc[t] /\ call'[t] = call[t]
<1> DEFINE Goal == /\ \A t \in Session : Live(t)' = Live(t)
                   /\ stopRequested' = stopRequested
                   /\ asked' = asked
                   /\ \A t \in Session : Forced(t)' <=> Forced(t)
                   /\ \A t \in Session \ {s} : pc'[t] = pc[t] /\ call'[t] = call[t]
<1>1. ASSUME NEW where \in Place \ {"unborn", "gone"}, UNCHANGED stopVars,
             pc[s] \notin {"unborn", "gone"},
             pc' = [pc EXCEPT ![s] = where],
             \A t \in Session \ {s} : call'[t] = call[t]
      PROVE  Goal
  BY <1>1 DEF TypeOK, stopVars, Live, Forced
<1>2. ASSUME UNCHANGED stopVars, UNCHANGED <<pc, call>>
      PROVE  Goal
  BY <1>2 DEF stopVars, Live, Forced
<1>3. ASSUME NEW ph, End(s, ph), UNCHANGED stopVars, pc[s] \notin {"unborn", "gone"}
      PROVE  Goal
  BY <1>3, <1>1 DEF End, TypeOK, Place
<1>4. ASSUME NEW where \in Parked, NEW ph, NEW limit, Await(s, where, ph, limit),
             UNCHANGED stopVars, pc[s] \notin {"unborn", "gone"}
      PROVE  Goal
  BY <1>4, <1>1 DEF Await, TypeOK, Place, Parked
<1>5. ASSUME NEW status, NEW keep, Answer(s, status, keep),
             UNCHANGED stopVars, pc[s] \notin {"unborn", "gone"}
      PROVE  Goal
  BY <1>5, <1>3, <1>4 DEF Answer, Parked
<1>6. ASSUME NEW limit, LoopTop(s, limit),
             UNCHANGED stopVars, pc[s] \notin {"unborn", "gone"}
      PROVE  Goal
  BY <1>6, <1>3, <1>4 DEF LoopTop, Finish, StartHeaderRead, Parked
<1>7. CASE Begin(s)
  BY <1>7, <1>6 DEF Begin
<1>8. CASE ReadAgain(s) \/ Io(s) \/ Timeout(s)
  BY <1>8, <1>2 DEF ReadAgain, Io, Timeout, Complete
<1>9. CASE HeaderRead(s)
  BY <1>9, <1>3, <1>4, <1>5, ZenonT(40) DEF HeaderRead, Finish, Refuse, StartBodyRead, Parked
<1>10. CASE BodyRead(s)
  <2>1. pc[s] \notin {"unborn", "gone"} /\ UNCHANGED stopVars
    BY <1>10 DEF BodyRead
  <2>2. CASE Finish(s) \/ Refuse(s, 413) \/ Refuse(s, 400) \/ Reply(s, 405)
    BY <2>1, <2>2, <1>3, <1>5, ZenonT(40) DEF Finish, Refuse, Reply
  <2>3. CASE \E kind \in {"sync", "async"} : Invoke(s, kind)
    BY <2>1, <2>3, <1>3, <1>1 DEF Invoke, TypeOK, Place
  <2> QED
    BY <1>10, <2>2, <2>3 DEF BodyRead
<1>11. CASE HandlerDone(s)
  BY <1>11, <1>5 DEF HandlerDone, Reply
<1>12. CASE WriteDone(s)
  BY <1>12, <1>3, <1>6 DEF WriteDone, Finish
<1>13. ASSUME NEW kind \in Stop, Deliver(s, kind)
       PROVE  Goal
  BY <1>13, ZenonT(40) DEF Deliver, TypeOK, Live, Forced, Stop
<1> QED
  BY <1>7, <1>8, <1>9, <1>10, <1>11, <1>12, <1>13 DEF SessionStep, Resume

-----------------------------------------------------------------------------
(* What a session's control state says of its history: an inductive        *)
(* strengthening of AtMostOneLateRequest, NoIdleReadAfterStop and          *)
(* GracefulSparesResponses.                                                *)

SessionFacts(s) ==
    /\ asked[s] = stopRequested[s]
    /\ cancelled[s] \/ inbox[s] # {} => asked[s]
    /\ asked[s] => pc[s] # "unborn"
    /\ pc[s] = "header" => phase[s] = "reading"
    /\ pc[s] = "write" => phase[s] = "writing"
    /\ pc[s] = "write" /\ op[s] = "aborted" => cancelled[s]
    /\ late[s] < 2
    /\ late[s] = 1 => /\ asked[s]
                      /\ \/ pc[s] \in {"handler", "ended", "gone"}
                         \/ pc[s] = "write" /\ ~wire[s].keep
    /\ pc[s] = "header" /\ op[s] = "pending" /\ asked[s] /\ inbox[s] = {} => partial[s]

SessionInv == \A s \in Session : SessionFacts(s)

\* A session's step leaves the variables of the other sessions as they are.
LEMMA OthersUntouched ==
    ASSUME TypeOK, NEW s \in Session, SessionStep(s), NEW t \in Session \ {s}
    PROVE  /\ UNCHANGED <<pc[t], op[t], phase[t], partial[t]>>
           /\ UNCHANGED <<stopRequested[t], inbox[t], cancelled[t], wire[t],
                           asked[t], late[t]>>
<1> DEFINE Same == /\ UNCHANGED <<pc[t], op[t], phase[t], partial[t]>>
                   /\ UNCHANGED <<stopRequested[t], inbox[t], cancelled[t], wire[t],
                           asked[t], late[t]>>
<1>1. ASSUME NEW ph, End(s, ph), UNCHANGED stopVars
      PROVE  Same
  BY <1>1 DEF End, stopVars, TypeOK
<1>2. ASSUME NEW status, NEW keep, Answer(s, status, keep), UNCHANGED stopVars
      PROVE  Same
  BY <1>1, <1>2 DEF Answer, Await, stopVars, TypeOK
<1>3. ASSUME NEW limit, LoopTop(s, limit), UNCHANGED stopVars
      PROVE  Same
  BY <1>1, <1>3 DEF LoopTop, Finish, StartHeaderRead, Await, stopVars, TypeOK
<1>4. CASE Begin(s) \/ WriteDone(s)
  BY <1>1, <1>3, <1>4 DEF Begin, WriteDone, Finish
<1>5. CASE ReadAgain(s) \/ Io(s) \/ Timeout(s)
  BY <1>5 DEF ReadAgain, Io, Timeout, Complete, stopVars, TypeOK
<1>6. CASE HeaderRead(s)
  <2>1. CASE StartBodyRead(s)
    BY <1>6, <2>1, <1>1 DEF HeaderRead, StartBodyRead, Await, stopVars, TypeOK
  <2> QED
    BY <1>6, <2>1, <1>1, <1>2, ZenonT(40) DEF HeaderRead, Finish, Refuse
<1>7. CASE BodyRead(s)
  <2>1. UNCHANGED stopVars
    BY <1>7 DEF BodyRead
  <2>2. ASSUME NEW kind, Invoke(s, kind)
        PROVE  Same
    BY <2>1, <2>2, <1>1 DEF Invoke, stopVars, TypeOK
  <2>3. CASE Finish(s)
    BY <1>1, <2>1, <2>3 DEF Finish
  <2>4. CASE Refuse(s, 413) \/ Refuse(s, 400)
    BY <1>2, <2>1, <2>4 DEF Refuse
  <2>5. CASE Reply(s, 405)
    BY <1>2, <2>1, <2>5 DEF Reply
  <2> QED
    BY <1>7, <2>2, <2>3, <2>4, <2>5 DEF BodyRead
<1>8. CASE HandlerDone(s)
  BY <1>8, <1>2 DEF HandlerDone, Reply
<1>9. ASSUME NEW kind \in Stop, Deliver(s, kind)
      PROVE  Same
  BY <1>9 DEF Deliver, TypeOK
<1> QED
  BY <1>4, <1>5, <1>6, <1>7, <1>8, <1>9 DEF SessionStep, Resume

\* The facts of the session that steps.
LEMMA OwnStepFacts ==
    ASSUME TypeOK, NEW s \in Session, SessionStep(s), SessionFacts(s)
    PROVE  SessionFacts(s)'
<1>1. ASSUME NEW ph, End(s, ph), UNCHANGED stopVars
      PROVE  SessionFacts(s)'
  BY <1>1 DEF End, stopVars, TypeOK, SessionFacts
<1>2. ASSUME NEW status, NEW keep, Answer(s, status, keep), UNCHANGED stopVars,
             late[s] = 1 => ~keep
      PROVE  SessionFacts(s)'
  <2>1. CASE End(s, "writing")
    BY <1>1, <1>2, <2>1
  <2>2. CASE ~End(s, "writing")
    <3>1. /\ pc'[s] = "write" /\ op'[s] = "pending" /\ phase'[s] = "writing"
          /\ wire'[s].keep = keep
      BY <1>2, <2>2 DEF Answer, Await, TypeOK
    <3> QED
      BY <1>2, <2>2, <3>1 DEF Answer, stopVars, TypeOK, SessionFacts
  <2> QED
    BY <2>1, <2>2
<1>3. ASSUME NEW status, NEW keep \in BOOLEAN, UNCHANGED stopVars,
             Answer(s, status, keep /\ ~stopRequested[s])
      PROVE  SessionFacts(s)'
  BY <1>2, <1>3 DEF SessionFacts
<1>4. ASSUME NEW limit, LoopTop(s, limit), UNCHANGED stopVars,
             late[s] = 1 => asked[s]
      PROVE  SessionFacts(s)'
  <2>1. CASE Finish(s)
    BY <1>1, <1>4, <2>1 DEF Finish
  <2>2. CASE ~stopRequested[s] /\ StartHeaderRead(s, limit)
    BY <1>4, <2>2 DEF StartHeaderRead, Await, stopVars, TypeOK, SessionFacts
  <2> QED
    BY <1>4, <2>1, <2>2 DEF LoopTop
<1>5. CASE Begin(s) \/ WriteDone(s)
  BY <1>1, <1>4, <1>5 DEF Begin, WriteDone, Finish, SessionFacts
<1>6. CASE ReadAgain(s)
  BY <1>6 DEF ReadAgain, stopVars, TypeOK, SessionFacts
<1>7. CASE Io(s)
  BY <1>7 DEF Io, Complete, Outcome, stopVars, TypeOK, SessionFacts
<1>8. CASE Timeout(s)
  BY <1>8 DEF Timeout, Complete, stopVars, TypeOK, SessionFacts
<1>9. CASE HeaderRead(s)
  <2>1. CASE StartBodyRead(s)
    BY <1>9, <2>1, <1>1 DEF HeaderRead, StartBodyRead, Await, stopVars, TypeOK, SessionFacts
  <2>2. CASE \E status : Refuse(s, status)
    BY <1>9, <2>2, <1>2 DEF HeaderRead, Refuse
  <2> QED
    BY <1>9, <2>1, <2>2, <1>1 DEF HeaderRead, Finish
<1>10. CASE BodyRead(s)
  <2>1. ASSUME NEW kind, Invoke(s, kind)
        PROVE  SessionFacts(s)'
    BY <1>10, <2>1, <1>1 DEF BodyRead, Invoke, stopVars, TypeOK, SessionFacts
  <2>2. CASE \E status : Refuse(s, status)
    BY <1>10, <2>2, <1>2 DEF BodyRead, Refuse
  <2> QED
    BY <1>10, <2>1, <2>2, <1>1, <1>3 DEF BodyRead, Finish, Reply
<1>11. CASE HandlerDone(s)
  BY <1>11, <1>3 DEF HandlerDone, Reply
<1>12. ASSUME NEW kind \in Stop, Deliver(s, kind)
       PROVE  SessionFacts(s)'
  BY <1>12 DEF Deliver, TypeOK, SessionFacts
<1> QED
  BY <1>5, <1>6, <1>7, <1>8, <1>9, <1>10, <1>11, <1>12 DEF SessionStep, Resume

\* Every step of a session keeps the facts of all sessions.
LEMMA SessionStepInv ==
    ASSUME TypeOK, SessionInv, NEW s \in Session, SessionStep(s)
    PROVE  SessionInv'
<1>1. SessionFacts(s)'
  BY OwnStepFacts DEF SessionInv
<1>2. ASSUME NEW t \in Session \ {s}
      PROVE  SessionFacts(t)'
  BY <1>2, OthersUntouched DEF SessionInv, SessionFacts
<1> QED
  BY <1>1, <1>2 DEF SessionInv

\* A session that is spawned or retired is in no I/O operation.
LEMMA SpawnInv ==
    ASSUME TypeOK, SessionInv, NEW s \in Session, Spawn(s) \/ Retire(s)
    PROVE  SessionInv'
BY DEF TypeOK, SessionInv, SessionFacts, Spawn, Retire, stopVars

\* A stop request sets the stop source of every session it is posted to.
LEMMA RequestStopInv ==
    ASSUME TypeOK, SessionInv, NEW S, NEW kind \in Stop, RequestStop(S, kind),
           \A s \in S : Live(s)
    PROVE  SessionInv'
BY DEF TypeOK, SessionInv, SessionFacts, RequestStop, Live

-----------------------------------------------------------------------------
\* The facts hold initially and are kept by every step.
LEMMA SessionInitInv == InitSession => TypeOK /\ SessionInv
BY DEF InitSession, TypeOK, SessionInv, SessionFacts, Place, Wire

\* Every step of a session on its own keeps the facts.
LEMMA SessionNextInv ==
    TypeOK /\ SessionInv /\ [SessionNext]_sessionVars => TypeOK' /\ SessionInv'
<1> SUFFICES ASSUME TypeOK, SessionInv, [SessionNext]_sessionVars
             PROVE  TypeOK' /\ SessionInv'
  OBVIOUS
<1>1. CASE UNCHANGED sessionVars
  BY <1>1 DEF sessionVars, TypeOK, SessionInv, SessionFacts
<1>2. ASSUME NEW s \in Session, Spawn(s) \/ Retire(s)
      PROVE  TypeOK' /\ SessionInv'
  BY <1>2, SpawnType, SpawnInv
<1>3. ASSUME NEW s \in Session, Ask(s)
      PROVE  TypeOK' /\ SessionInv'
  BY <1>3, RequestStopType, RequestStopInv DEF Ask, Stop
<1>4. ASSUME NEW s \in Session, SessionStep(s)
      PROVE  TypeOK' /\ SessionInv'
  BY <1>4, SessionStepType, SessionStepInv
<1> QED
  BY <1>1, <1>2, <1>3, <1>4 DEF SessionNext, SessionStep

\* The facts give the three safety properties.
LEMMA SessionInvSafe ==
    TypeOK /\ SessionInv =>
        AtMostOneLateRequest /\ NoIdleReadAfterStop /\ GracefulSparesResponses
BY DEF TypeOK, SessionInv, SessionFacts, AtMostOneLateRequest, NoIdleReadAfterStop,
       GracefulSparesResponses

\* Asio throws at every suspension of a cancelled coroutine.
LEMMA CancelledStep ==
    ASSUME TypeOK, NEW s \in Session, SessionStep(s), cancelled[s], stopRequested[s],
           pc'[s] # pc[s]
    PROVE  pc'[s] = "ended"
<1>1. ASSUME NEW ph, End(s, ph)
      PROVE  pc'[s] = "ended"
  BY <1>1 DEF End, TypeOK
<1>2. CASE Begin(s) \/ WriteDone(s)
  BY <1>1, <1>2 DEF Begin, WriteDone, LoopTop, Finish
<1>3. CASE ReadAgain(s) \/ Io(s) \/ Timeout(s) \/ \E kind \in Stop : Deliver(s, kind)
  BY <1>3 DEF ReadAgain, Io, Timeout, Complete, Deliver
<1>4. CASE HeaderRead(s)
  BY <1>1, <1>4 DEF HeaderRead, Finish, Refuse, Answer, StartBodyRead
<1>5. CASE BodyRead(s)
  BY <1>1, <1>5 DEF BodyRead, Finish, Refuse, Reply, Answer, Invoke
<1>6. CASE HandlerDone(s)
  BY <1>1, <1>6 DEF HandlerDone, Reply, Answer
<1> QED
  BY <1>2, <1>3, <1>4, <1>5, <1>6 DEF SessionStep, Resume

\* The action of ForcedStartsNothing.
ForcedStep ==
    \A s \in Session : cancelled[s] /\ pc'[s] # pc[s] => pc'[s] \in {"ended", "gone"}

\* A session on its own, under stop requests at any moment: the types, at most
\* one late request, no idle read once the graceful lambda ran, and no response
\* cut off but by force.
THEOREM SessionIsSafe ==
    SessionSpec => [](/\ TypeOK /\ AtMostOneLateRequest
                      /\ NoIdleReadAfterStop /\ GracefulSparesResponses)
<1> QED
  BY SessionInitInv, SessionNextInv, SessionInvSafe, PTL DEF SessionSpec

\* A session that was told by force starts nothing more.
THEOREM ForceIsFinal == SessionSpec => ForcedStartsNothing
<1>1. ASSUME TypeOK, SessionInv, [SessionNext]_sessionVars
      PROVE  [ForcedStep]_sessionVars
  <2>1. ASSUME NEW s \in Session, cancelled[s], pc'[s] # pc[s]
        PROVE  pc'[s] \in {"ended", "gone"}
    <3>1. stopRequested[s] /\ pc[s] # "unborn"
      BY <1>1, <2>1 DEF SessionInv, SessionFacts
    <3>2. pc' # pc /\ ~UNCHANGED sessionVars
      BY <2>1 DEF sessionVars
    <3>3. ASSUME NEW t \in Session, Ask(t)
          PROVE  FALSE
      BY <3>2, <3>3 DEF Ask, RequestStop
    <3>4. ASSUME NEW t \in Session, Spawn(t) \/ Retire(t)
          PROVE  pc'[s] \in {"ended", "gone"}
      BY <1>1, <2>1, <3>1, <3>4 DEF Spawn, Retire, TypeOK
    <3>5. ASSUME NEW t \in Session, SessionStep(t)
          PROVE  pc'[s] = "ended"
      <4>1. s = t
        BY <1>1, <2>1, <3>5, OthersUntouched
      <4> QED
        BY <1>1, <2>1, <3>1, <3>5, <4>1, CancelledStep
    <3> QED
      BY <1>1, <3>2, <3>3, <3>4, <3>5 DEF SessionNext, SessionStep
  <2> QED
    BY <2>1 DEF ForcedStep
<1> QED
  BY <1>1, SessionInitInv, SessionNextInv, PTL
     DEF SessionSpec, ForcedStartsNothing, ForcedStep

\* Each of the invariants on its own.
THEOREM OneLateRequest == SessionSpec => []AtMostOneLateRequest
BY SessionIsSafe, PTL

THEOREM NoneIsIdleAfterStop == SessionSpec => []NoIdleReadAfterStop
BY SessionIsSafe, PTL

THEOREM ResponsesAreSpared == SessionSpec => []GracefulSparesResponses
BY SessionIsSafe, PTL

-----------------------------------------------------------------------------
(* A session implements Connection.                                        *)

\* What a step of session s is for Connection.
MapsTo(s) ==
    \/ Protocol!Accept(s) \/ Protocol!Serve(s) \/ Protocol!AnswerAndKeep(s)
    \/ Protocol!AnswerAndClose(s) \/ Protocol!ReceiveNext(s) \/ Protocol!Close(s)
    \/ Protocol!Abandon(s) \/ Protocol!Force(s)
    \/ UNCHANGED <<[t \in Session |-> TurnOf(t)], [t \in Session |-> StopOf(t)]>>

\* Nothing but pc, wire, cancelled and asked shows.
LEMMA OthersShowNothing ==
    ASSUME TypeOK, NEW s \in Session, SessionStep(s)
    PROVE  /\ \A t \in Session \ {s} : TurnOf(t)' = TurnOf(t)
           /\ \A t \in Session \ {s} : StopOf(t)' = StopOf(t)
BY OthersUntouched DEF TurnOf, StopOf

\* A session that moves alone, and is not being told to stop, moves as Connection's turn does.
LEMMA TurnMoves ==
    ASSUME NEW s \in Session, NEW from, NEW to,
           \A t \in Session \ {s} : TurnOf(t)' = TurnOf(t),
           \A t \in Session : StopOf(t)' = StopOf(t),
           TurnOf(s) \in from, TurnOf(s)' = to
    PROVE  Protocol!Turn(s, from, to)
BY DEF Protocol!Turn

\* The turns of a session's own segments.
LEMMA SegmentMaps ==
    ASSUME TypeOK, SessionInv, NEW s \in Session, SessionStep(s), UNCHANGED stopVars
    PROVE  MapsTo(s)
<1>1. /\ \A t \in Session \ {s} : TurnOf(t)' = TurnOf(t)
      /\ \A t \in Session : StopOf(t)' = StopOf(t)
  BY OthersShowNothing DEF StopOf, stopVars
<1>2. asked[s] = stopRequested[s] /\ (cancelled[s] => asked[s])
  BY DEF SessionInv, SessionFacts
<1>3. ASSUME TurnOf(s)' = TurnOf(s) PROVE MapsTo(s)
  BY <1>1, <1>3 DEF MapsTo
<1>4. ASSUME NEW ph, End(s, ph), cancelled[s] \/ pc[s] \in {"spawned", "header", "body", "write"},
             pc[s] \in Place \ {"unborn", "ended", "gone"}
      PROVE  MapsTo(s)
  <2>1. TurnOf(s)' = "closed"
    BY <1>4 DEF End, TurnOf, TypeOK
  <2>2. CASE pc[s] = "handler"
    <3>1. TurnOf(s) = "serving" /\ StopOf(s) = "forced"
      BY <1>4, <2>2 DEF TurnOf, StopOf
    <3>2. QED
      BY <1>1, <2>1, <3>1, TurnMoves DEF MapsTo, Protocol!Abandon
  <2>3. CASE pc[s] # "handler"
    <3>1. TurnOf(s) \in {"receiving", "keeping", "closing"}
      BY <1>4, <2>3 DEF TurnOf, Place, Parked
    <3>2. QED
      BY <1>1, <2>1, <3>1, TurnMoves DEF MapsTo, Protocol!Close
  <2>4. QED
    BY <2>2, <2>3
<1>5. ASSUME NEW status, NEW keep \in BOOLEAN, Answer(s, status, keep), keep => ~stopRequested[s],
             pc[s] \in {"header", "body", "handler"}
      PROVE  MapsTo(s)
  <2>1. CASE cancelled[s] /\ End(s, "writing")
    BY <1>4, <1>5, <2>1 DEF Place, Parked
  <2>2. CASE /\ ~cancelled[s]
             /\ Await(s, "write", "writing", "write")
             /\ wire' = [wire EXCEPT ![s] = [status |-> status, keep |-> keep]]
    <3>1. /\ pc'[s] = "write" /\ op'[s] = "pending" /\ phase'[s] = "writing"
          /\ wire'[s].keep = keep
      BY <2>2 DEF Await, TypeOK
    <3>2. TurnOf(s)' = IF keep THEN "keeping" ELSE "closing"
      BY <3>1 DEF TurnOf
    <3>3. TurnOf(s) \in {"receiving", "serving"}
      BY <1>5 DEF TurnOf
    <3>4. StopOf(s) # "forced" /\ (keep => StopOf(s) = "none")
      BY <1>2, <1>5, <2>2 DEF StopOf
    <3>5. CASE keep
      BY <1>1, <3>2, <3>3, <3>4, <3>5, TurnMoves DEF MapsTo, Protocol!AnswerAndKeep
    <3>6. CASE ~keep
      BY <1>1, <3>2, <3>3, <3>4, <3>6, TurnMoves DEF MapsTo, Protocol!AnswerAndClose
    <3>7. QED
      BY <3>5, <3>6
  <2>3. QED
    BY <1>5, <2>1, <2>2 DEF Answer
<1>6. ASSUME NEW status, Reply(s, status), pc[s] \in {"header", "body", "handler"}
      PROVE  MapsTo(s)
  <2>1. PICK agreed \in BOOLEAN : Answer(s, status, agreed /\ ~stopRequested[s])
    BY <1>6 DEF Reply
  <2>2. (agreed /\ ~stopRequested[s]) \in BOOLEAN /\ (agreed /\ ~stopRequested[s] => ~stopRequested[s])
    OBVIOUS
  <2>3. QED
    BY <1>5, <1>6, <2>1, <2>2
<1>7. ASSUME NEW status, Refuse(s, status), pc[s] \in {"header", "body"}
      PROVE  MapsTo(s)
  <2>1. Answer(s, status, FALSE) /\ FALSE \in BOOLEAN
    BY <1>7 DEF Refuse
  <2>2. QED
    BY <1>5, <1>7, <2>1
<1>8. ASSUME NEW limit, LoopTop(s, limit),
             pc[s] = "spawned" \/ (pc[s] = "write" /\ wire[s].keep)
      PROVE  MapsTo(s)
  <2>1. CASE Finish(s)
    BY <1>4, <1>8, <2>1 DEF Finish, Place, Parked
  <2>2. CASE ~stopRequested[s] /\ StartHeaderRead(s, limit)
    <3>1. TurnOf(s)' = "receiving"
      BY <2>2 DEF StartHeaderRead, Await, TurnOf, TypeOK
    <3>2. CASE pc[s] = "spawned"
      BY <1>3, <3>1, <3>2 DEF TurnOf
    <3>3. CASE pc[s] = "write" /\ wire[s].keep
      <4>1. TurnOf(s) = "keeping" /\ StopOf(s) = "none"
        BY <1>2, <2>2, <3>3 DEF TurnOf, StopOf
      <4>2. QED
        BY <1>1, <3>1, <4>1, TurnMoves DEF MapsTo, Protocol!ReceiveNext
    <3>4. QED
      BY <1>8, <3>2, <3>3
  <2>3. QED
    BY <1>8, <2>1, <2>2 DEF LoopTop
<1>9. CASE Begin(s)
  BY <1>8, <1>9 DEF Begin
<1>10. CASE ReadAgain(s) \/ Io(s) \/ Timeout(s)
  <2>1. UNCHANGED <<pc, wire>>
    BY <1>10 DEF ReadAgain, Io, Timeout, Complete
  <2>2. QED
    BY <1>3, <2>1 DEF TurnOf
<1>11. CASE HeaderRead(s)
  <2>1. pc[s] = "header"
    BY <1>11 DEF HeaderRead
  <2>2. CASE Finish(s)
    BY <1>4, <2>1, <2>2 DEF Finish, Place, Parked
  <2>3. CASE \E status : Refuse(s, status)
    BY <1>7, <2>1, <2>3
  <2>4. CASE StartBodyRead(s)
    <3>1. CASE End(s, "reading")
      BY <1>4, <2>1, <3>1 DEF Place, Parked
    <3>2. CASE Await(s, "body", "reading", "body")
      <4>1. TurnOf(s)' = TurnOf(s)
        BY <2>1, <3>2 DEF Await, TurnOf, TypeOK
      <4>2. QED
        BY <1>3, <4>1
    <3>3. QED
      BY <2>4, <3>1, <3>2 DEF StartBodyRead
  <2>5. QED
    BY <1>11, <2>2, <2>3, <2>4 DEF HeaderRead
<1>12. CASE BodyRead(s)
  <2>1. pc[s] = "body"
    BY <1>12 DEF BodyRead
  <2>2. CASE Finish(s)
    BY <1>4, <2>1, <2>2 DEF Finish, Place, Parked
  <2>3. CASE \E status : Refuse(s, status) \/ Reply(s, status)
    BY <1>6, <1>7, <2>1, <2>3
  <2>4. ASSUME NEW kind, Invoke(s, kind) PROVE MapsTo(s)
    <3>1. CASE End(s, "writing")
      BY <1>4, <2>1, <3>1 DEF Place, Parked
    <3>2. CASE ~cancelled[s] /\ pc' = [pc EXCEPT ![s] = "handler"]
      <4>1. TurnOf(s) = "receiving" /\ TurnOf(s)' = "serving" /\ StopOf(s) # "forced"
        BY <2>1, <3>2 DEF TurnOf, StopOf, TypeOK
      <4>2. QED
        BY <1>1, <4>1, TurnMoves DEF MapsTo, Protocol!Serve
    <3>3. QED
      BY <2>4, <3>1, <3>2 DEF Invoke
  <2>5. QED
    BY <1>12, <2>2, <2>3, <2>4 DEF BodyRead
<1>13. CASE HandlerDone(s)
  BY <1>6, <1>13 DEF HandlerDone
<1>14. CASE WriteDone(s)
  <2>1. CASE Finish(s)
    BY <1>4, <1>14, <2>1 DEF WriteDone, Finish, Place, Parked
  <2>2. CASE wire[s].keep /\ LoopTop(s, "idle")
    BY <1>8, <1>14, <2>2 DEF WriteDone
  <2>3. QED
    BY <1>14, <2>1, <2>2 DEF WriteDone
<1>15. ASSUME NEW kind \in Stop, Deliver(s, kind) PROVE MapsTo(s)
  BY <1>3, <1>15 DEF Deliver, TurnOf
<1>16. QED
  BY <1>9, <1>10, <1>11, <1>12, <1>13, <1>14, <1>15 DEF SessionStep, Resume

\* The forced lambda is Connection's force, the graceful one shows nothing.
LEMMA DeliverMaps ==
    ASSUME TypeOK, SessionInv, NEW s \in Session, NEW kind \in Stop, Deliver(s, kind)
    PROVE  MapsTo(s)
<1>1. /\ kind \in inbox[s] /\ asked[s]
      /\ UNCHANGED <<pc, wire, asked>>
      /\ cancelled' = [cancelled EXCEPT ![s] = @ \/ kind = "forced"]
  BY DEF Deliver, SessionInv, SessionFacts
<1>2. \A t \in Session : TurnOf(t)' = TurnOf(t)
  BY <1>1 DEF TurnOf
<1>3. \A t \in Session \ {s} : StopOf(t)' = StopOf(t)
  BY <1>1 DEF StopOf, TypeOK
<1>4. CASE StopOf(s)' = StopOf(s)
  BY <1>2, <1>3, <1>4 DEF MapsTo
<1>5. CASE StopOf(s)' # StopOf(s)
  <2>1. StopOf(s) = "graceful" /\ StopOf(s)' = "forced"
    BY <1>1, <1>5 DEF StopOf, TypeOK
  <2>2. QED
    BY <1>2, <1>3, <2>1 DEF MapsTo, Protocol!Force
<1>6. QED
  BY <1>4, <1>5

\* Asking any sessions to stop.
LEMMA RequestMaps ==
    ASSUME TypeOK, SessionInv, NEW S \in SUBSET Session, NEW kind \in Stop, RequestStop(S, kind)
    PROVE  Protocol!Stop(S)
<1>1. UNCHANGED <<pc, wire, cancelled>> /\ asked' = [s \in Session |-> asked[s] \/ s \in S]
  BY DEF RequestStop
<1>2. \A s \in Session : TurnOf(s)' = TurnOf(s)
  BY <1>1 DEF TurnOf
<1>3. \A s \in Session :
         StopOf(s)' = IF s \in S /\ StopOf(s) = "none" THEN "graceful" ELSE StopOf(s)
  BY <1>1 DEF StopOf
<1>4. QED
  BY <1>2, <1>3 DEF Protocol!Stop

\* Every step a session takes by itself.
LEMMA StepMaps ==
    ASSUME TypeOK, SessionInv, NEW s \in Session, SessionStep(s) PROVE MapsTo(s)
<1>1. CASE \E kind \in Stop : Deliver(s, kind)
  BY <1>1, DeliverMaps
<1>2. CASE ~ \E kind \in Stop : Deliver(s, kind)
  <2>1. UNCHANGED stopVars
    BY <1>2 DEF SessionStep, Resume, Begin, ReadAgain, HeaderRead, BodyRead, HandlerDone,
                WriteDone, Io, Timeout, Complete
  <2>2. QED
    BY <2>1, SegmentMaps
<1>3. QED
  BY <1>1, <1>2

\* A session appears as a connection that is accepted; when it goes nothing shows.
LEMMA SpawnMaps ==
    ASSUME TypeOK, NEW s \in Session, Spawn(s) \/ Retire(s) PROVE MapsTo(s)
<1>1. CASE Spawn(s)
  <2>1. /\ \A t \in Session \ {s} : TurnOf(t)' = TurnOf(t)
        /\ \A t \in Session : StopOf(t)' = StopOf(t)
        /\ TurnOf(s) = "new" /\ TurnOf(s)' = "receiving"
    BY <1>1 DEF Spawn, TurnOf, StopOf, stopVars, TypeOK
  <2>2. QED
    BY <2>1, TurnMoves DEF MapsTo, Protocol!Accept
<1>2. CASE Retire(s)
  <2>1. \A t \in Session : TurnOf(t)' = TurnOf(t) /\ StopOf(t)' = StopOf(t)
    BY <1>2 DEF Retire, TurnOf, StopOf, stopVars, TypeOK
  <2>2. QED
    BY <2>1 DEF MapsTo
<1>3. QED
  BY <1>1, <1>2

ConnectionStep == [Protocol!ConnectionNext]_(Protocol!connectionVars)

LEMMA MapsToStep == ASSUME NEW s \in Session, MapsTo(s) PROVE ConnectionStep
BY DEF MapsTo, ConnectionStep, Protocol!ConnectionNext, Protocol!connectionVars

LEMMA NothingShows == ASSUME UNCHANGED sessionVars PROVE ConnectionStep
<1>1. \A t \in Session : TurnOf(t)' = TurnOf(t) /\ StopOf(t)' = StopOf(t)
  BY DEF sessionVars, TurnOf, StopOf
<1>2. QED
  BY <1>1 DEF ConnectionStep, Protocol!connectionVars

\* Every step of the sessions is one of Connection or shows nothing.
LEMMA NextMaps ==
    ASSUME TypeOK, SessionInv, [SessionNext]_sessionVars
    PROVE  ConnectionStep
<1>1. CASE UNCHANGED sessionVars
  BY <1>1, NothingShows
<1>2. ASSUME NEW s \in Session, Ask(s)
      PROVE  ConnectionStep
  <2>1. Protocol!Stop({s})
    BY <1>2, RequestMaps DEF Ask, Stop
  <2>2. QED
    BY <2>1 DEF ConnectionStep, Protocol!ConnectionNext
<1>3. CASE SessionNext
  <2>1. PICK s \in Session : Spawn(s) \/ Retire(s) \/ Ask(s) \/ SessionStep(s)
    BY <1>3 DEF SessionNext, SessionStep
  <2>2. QED
    BY <1>2, <2>1, SpawnMaps, StepMaps, MapsToStep
<1>4. QED
  BY <1>1, <1>3

\* A session implements Connection: answers alternate with requests, and stop requests let at
\* most the request being received through.
THEOREM SessionImplementsConnection == SessionSpec => KeepsConnection
<1>1. InitSession => Protocol!ConnectionInit
  BY DEF InitSession, Protocol!ConnectionInit, TurnOf, StopOf
<1>2. TypeOK /\ SessionInv /\ [SessionNext]_sessionVars
          => ConnectionStep
  BY NextMaps
<1>3. QED
  BY <1>1, <1>2, SessionInitInv, SessionNextInv, PTL
     DEF SessionSpec, KeepsConnection, Protocol!Promise, ConnectionStep

=============================================================================
