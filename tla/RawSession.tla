----------------------------- MODULE RawSession -----------------------------
(***************************************************************************)
(* The connection coroutine raw_session of include/flash/server.hpp, and   *)
(* the stop requests it receives.                                          *)
(*                                                                         *)
(* A session runs on a strand of its own.  One action of this module is    *)
(* one job of that strand (a segment of the coroutine between two          *)
(* suspensions, or a lambda posted by request_session_stop), one           *)
(* completion of an I/O operation by the operating system, or one write of *)
(* the stop source by the control strand.  An operation that completed     *)
(* still waits for its strand to resume the coroutine: in that window a    *)
(* stop lambda may run, and a cancel finds nothing to abort.               *)
(***************************************************************************)
EXTENDS Naturals

CONSTANT Session        \* the connections that may ever be accepted

VARIABLES
    pc,             \* where the coroutine is suspended
    op,             \* the I/O operation it waits for, or that operation's result
    phase,          \* session_control::phase
    partial,        \* part of the current header has been read
    deadline,       \* which timeout stream.expires_after armed last
    stopRequested,  \* session_control::stop_source
    inbox,          \* stop lambdas posted to the strand and not run yet
    cancelled,      \* the cancellation signal was emitted and the socket closed
    call,           \* how the running handler occupies the program
    wire,           \* the response being written
    asked,          \* history: the server called request_session_stop
    late            \* history: handler calls begun after that, up to 2

sessionVars == <<pc, op, phase, partial, deadline, stopRequested, inbox,
                 cancelled, call, wire, asked, late>>

Status    == {200, 400, 405, 413, 500}
NoWire    == [status |-> 0, keep |-> FALSE]
Wire      == [status : Status, keep : BOOLEAN] \cup {NoWire}
Parked    == {"header", "body", "write"}        \* suspended in an I/O operation
Place     == Parked \cup {"unborn", "spawned", "handler", "ended", "gone"}
Result    == {"more", "ok", "fields", "bad", "large", "eof", "failed",
              "aborted", "timeout"}
Stop      == {"graceful", "forced"}

TypeOK ==
    /\ pc \in [Session -> Place]
    /\ op \in [Session -> Result \cup {"none", "pending"}]
    /\ phase \in [Session -> {"reading", "handling", "writing", "finished"}]
    /\ partial \in [Session -> BOOLEAN]
    /\ deadline \in [Session -> {"none", "header", "idle", "body", "write"}]
    /\ stopRequested \in [Session -> BOOLEAN]
    /\ inbox \in [Session -> SUBSET Stop]
    /\ cancelled \in [Session -> BOOLEAN]
    /\ call \in [Session -> {"none", "sync", "async"}]
    /\ wire \in [Session -> Wire]
    /\ asked \in [Session -> BOOLEAN]
    /\ late \in [Session -> 0..2]

InitSession ==
    /\ pc = [s \in Session |-> "unborn"]
    /\ op = [s \in Session |-> "none"]
    /\ phase = [s \in Session |-> "reading"]
    /\ partial = [s \in Session |-> FALSE]
    /\ deadline = [s \in Session |-> "none"]
    /\ stopRequested = [s \in Session |-> FALSE]
    /\ inbox = [s \in Session |-> {}]
    /\ cancelled = [s \in Session |-> FALSE]
    /\ call = [s \in Session |-> "none"]
    /\ wire = [s \in Session |-> NoWire]
    /\ asked = [s \in Session |-> FALSE]
    /\ late = [s \in Session |-> 0]

\* The coroutine exists: spawned and not yet reported complete to the server.
Live(s) == pc[s] \notin {"unborn", "gone"}

\* A synchronous handler keeps its worker thread, and its strand, until it returns.
OnWorker(s) == pc[s] = "handler" /\ call[s] = "sync"

-----------------------------------------------------------------------------
(* How a segment ends.  Each of these operators gives the next value of    *)
(* every session variable but the stop request's (stopRequested, inbox,    *)
(* cancelled, asked), which no segment writes.                                    *)

stopVars == <<stopRequested, inbox, cancelled, asked>>

\* The coroutine returns or throws: its frame, its parser and its response go.
End(s, ph) ==
    /\ pc' = [pc EXCEPT ![s] = "ended"]
    /\ op' = [op EXCEPT ![s] = "none"]
    /\ phase' = [phase EXCEPT ![s] = ph]
    /\ partial' = [partial EXCEPT ![s] = FALSE]
    /\ deadline' = [deadline EXCEPT ![s] = "none"]
    /\ call' = [call EXCEPT ![s] = "none"]
    /\ wire' = [wire EXCEPT ![s] = NoWire]
    /\ UNCHANGED late

\* The loop was left by break: the phase is stored and the socket shut down.
Finish(s) == End(s, "finished")

\* expires_after, then an operation to wait for.
Await(s, where, ph, limit) ==
    /\ pc' = [pc EXCEPT ![s] = where]
    /\ op' = [op EXCEPT ![s] = "pending"]
    /\ phase' = [phase EXCEPT ![s] = ph]
    /\ partial' = [partial EXCEPT ![s] = FALSE]
    /\ deadline' = [deadline EXCEPT ![s] = limit]
    /\ call' = [call EXCEPT ![s] = "none"]

\* Mutant: no expires_after before the header read.
StartHeaderRead_NoDeadline(s, limit) ==
    /\ Await(s, "header", "reading", "none")
    /\ wire' = [wire EXCEPT ![s] = NoWire]
    /\ UNCHANGED late

StartHeaderRead(s, limit) ==
    /\ Await(s, "header", "reading", limit)
    /\ wire' = [wire EXCEPT ![s] = NoWire]
    /\ UNCHANGED late

\* Mutant: the loop does not look at the stop source.
LoopTop_NoStopCheck(s, limit) == StartHeaderRead(s, limit)

\* The top of the loop, reached at the start and after a kept-alive response.
LoopTop(s, limit) ==
    \/ stopRequested[s] /\ Finish(s)
    \/ ~stopRequested[s] /\ StartHeaderRead(s, limit)

\* Asio throws at the co_await of a cancelled coroutine: nothing starts.
StartBodyRead(s) ==
    \/ cancelled[s] /\ End(s, "reading")
    \/ /\ ~cancelled[s]
       /\ Await(s, "body", "reading", "body")
       /\ UNCHANGED <<wire, late>>

\* Mutant: the coroutine does not throw when it is cancelled.
Answer_NotThrowing(s, status, keep) ==
    /\ Await(s, "write", "writing", "write")
    /\ wire' = [wire EXCEPT ![s] = [status |-> status, keep |-> keep]]
    /\ UNCHANGED late

Answer(s, status, keep) ==
    \/ cancelled[s] /\ End(s, "writing")
    \/ /\ ~cancelled[s]
       /\ Await(s, "write", "writing", "write")
       /\ wire' = [wire EXCEPT ![s] = [status |-> status, keep |-> keep]]
       /\ UNCHANGED late

\* Mutant: the error paths do not store the phase before they write.
Refuse_StalePhase(s, status) ==
    \/ cancelled[s] /\ End(s, phase[s])
    \/ /\ ~cancelled[s]
       /\ Await(s, "write", phase[s], "write")
       /\ wire' = [wire EXCEPT ![s] = [status |-> status, keep |-> FALSE]]
       /\ UNCHANGED late

\* A request that cannot be read is answered, and the connection closed.
Refuse(s, status) == Answer(s, status, FALSE)

\* Mutant: the stop source is not asked again.
Reply_IgnoreStop(s, status) == \E agreed \in BOOLEAN : Answer(s, status, agreed)

\* The response of a request that was dispatched.  The connection survives it
\* only if the client and the response agree and no stop was requested.
Reply(s, status) ==
    \E agreed \in BOOLEAN : Answer(s, status, agreed /\ ~stopRequested[s])

\* The handler is called; a cancelled coroutine throws at the co_await instead,
\* answers 500 and throws again at the write.
Invoke(s, kind) ==
    \/ cancelled[s] /\ End(s, "writing")
    \/ /\ ~cancelled[s]
       /\ pc' = [pc EXCEPT ![s] = "handler"]
       /\ op' = [op EXCEPT ![s] = "none"]
       /\ phase' = [phase EXCEPT ![s] = "handling"]
       /\ call' = [call EXCEPT ![s] = kind]
       /\ late' = [late EXCEPT ![s] =
                       IF asked[s] /\ @ < 2 THEN @ + 1 ELSE @]
       /\ UNCHANGED <<partial, deadline, wire>>

-----------------------------------------------------------------------------
(* The coroutine's segments, one per job of the session's strand.          *)

\* co_spawn's first job on the strand.
Begin(s) ==
    /\ pc[s] = "spawned"
    /\ LoopTop(s, "header")
    /\ UNCHANGED stopVars

\* The composed read got bytes but no complete message and reads again.  The
\* read fails on a socket that a forced stop closed.
ReadAgain(s) ==
    /\ pc[s] \in {"header", "body"}
    /\ op[s] = "more"
    /\ op' = [op EXCEPT ![s] = IF cancelled[s] THEN "failed" ELSE "pending"]
    /\ partial' = [partial EXCEPT ![s] = pc[s] = "header"]
    /\ UNCHANGED <<pc, phase, deadline, call, wire, late>>
    /\ UNCHANGED stopVars

HeaderRead(s) ==
    /\ pc[s] = "header"
    /\ \/ op[s] \in {"eof", "aborted", "timeout"} /\ Finish(s)
       \/ op[s] = "large" /\ Refuse(s, 413)
       \/ op[s] \in {"bad", "failed", "fields"} /\ Refuse(s, 400)
       \/ op[s] = "ok" /\ StartBodyRead(s)
    /\ UNCHANGED stopVars

BodyRead(s) ==
    /\ pc[s] = "body"
    /\ \/ op[s] = "timeout" /\ Finish(s)
       \/ op[s] = "large" /\ Refuse(s, 413)
       \/ op[s] \in {"bad", "failed", "aborted"} /\ Refuse(s, 400)
       \/ op[s] = "ok" /\ Reply(s, 405)             \* a method Flash does not know
       \/ op[s] = "ok" /\ \E kind \in {"sync", "async"} : Invoke(s, kind)
    /\ UNCHANGED stopVars

\* The handler returns, or throws and is answered for with 500.
HandlerDone(s) ==
    /\ pc[s] = "handler"
    /\ \E status \in {200, 500} : Reply(s, status)
    /\ UNCHANGED stopVars

WriteDone(s) ==
    /\ pc[s] = "write"
    /\ op[s] \in Result
    /\ \/ op[s] = "ok" /\ wire[s].keep /\ LoopTop(s, "idle")
       \/ ~(op[s] = "ok" /\ wire[s].keep) /\ Finish(s)
    /\ UNCHANGED stopVars

Resume(s) == Begin(s) \/ ReadAgain(s) \/ HeaderRead(s) \/ BodyRead(s) \/ WriteDone(s)

-----------------------------------------------------------------------------
(* The operating system completes the pending operation.                   *)

Complete(s, result) ==
    /\ op' = [op EXCEPT ![s] = result]
    /\ UNCHANGED <<pc, phase, partial, deadline, call, wire, late>>
    /\ UNCHANGED stopVars

\* What the client's bytes, or their absence, can make of the operation.
Outcome(s) ==
    CASE pc[s] = "header" -> {"more", "ok", "fields", "bad", "large"}
                               \cup (IF partial[s] THEN {} ELSE {"eof"})
      [] pc[s] = "body"   -> {"more", "ok", "bad", "large"}
      [] OTHER            -> {"ok", "failed"}

Io(s) ==
    /\ pc[s] \in Parked
    /\ op[s] = "pending"
    /\ \E result \in Outcome(s) : Complete(s, result)

\* The stream's timer fires.  It beats a result that is not delivered yet.
Timeout(s) ==
    /\ pc[s] \in Parked
    /\ deadline[s] # "none"
    /\ op[s] # "timeout"
    /\ Complete(s, "timeout")

-----------------------------------------------------------------------------
(* Stop requests.                                                          *)

\* Mutant: the lambda is posted and the stop source forgotten.
RequestStop_PostOnly(S, kind) ==
    /\ inbox' = [s \in Session |-> IF s \in S THEN inbox[s] \cup {kind} ELSE inbox[s]]
    /\ asked' = [s \in Session |-> asked[s] \/ s \in S]
    /\ UNCHANGED <<pc, op, phase, partial, deadline, stopRequested, cancelled, call,
                   wire, late>>

\* request_session_stop for every session of S: the stop source changes at
\* once, on the caller's thread; the rest is posted to the session's strand.
RequestStop(S, kind) ==
    /\ stopRequested' = [s \in Session |-> stopRequested[s] \/ s \in S]
    /\ inbox' = [s \in Session |-> IF s \in S THEN inbox[s] \cup {kind} ELSE inbox[s]]
    /\ asked' = [s \in Session |-> asked[s] \/ s \in S]
    /\ UNCHANGED <<pc, op, phase, partial, deadline, cancelled, call, wire, late>>

\* The posted lambda.  The strand is first-in first-out: the coroutine's first
\* segment precedes it, and the graceful lambda precedes the forced one.
Deliver(s, kind) ==
    /\ kind \in inbox[s]
    /\ kind = "forced" => "graceful" \notin inbox[s]
    /\ pc[s] # "spawned"
    /\ ~OnWorker(s)
    /\ inbox' = [inbox EXCEPT ![s] = @ \ {kind}]
    /\ cancelled' = [cancelled EXCEPT ![s] = @ \/ kind = "forced"]
    /\ op' = [op EXCEPT ![s] =
                  IF @ = "pending" /\ (kind = "forced" \/ phase[s] = "reading")
                  THEN "aborted" ELSE @]
    /\ UNCHANGED <<pc, phase, partial, deadline, stopRequested, call, wire, asked, late>>

-----------------------------------------------------------------------------
(* The server's side, in the small: any session may be spawned, asked to   *)
(* stop, and later forced.  RawServer puts the real server here.           *)

Spawn(s) ==
    /\ pc[s] = "unborn"
    /\ pc' = [pc EXCEPT ![s] = "spawned"]
    /\ UNCHANGED <<op, phase, partial, deadline, call, wire, late>>
    /\ UNCHANGED stopVars

\* session_complete has run: nothing of the server refers to the session.
Retire(s) ==
    /\ pc[s] = "ended"
    /\ pc' = [pc EXCEPT ![s] = "gone"]
    /\ UNCHANGED <<op, phase, partial, deadline, call, wire, late>>
    /\ UNCHANGED stopVars

Ask(s) ==
    \/ Live(s) /\ ~asked[s] /\ RequestStop({s}, "graceful")
    \/ Live(s) /\ asked[s] /\ ~cancelled[s] /\ RequestStop({s}, "forced")

SessionNext ==
    \E s \in Session :
        \/ Spawn(s) \/ Retire(s) \/ Ask(s)
        \/ Resume(s) \/ HandlerDone(s) \/ Io(s) \/ Timeout(s)
        \/ \E kind \in Stop : Deliver(s, kind)

\* A strand with a job runs it and a timer that is armed fires.  Nothing is
\* assumed of the client, nor of the handler.
SessionFairness ==
    \A s \in Session :
        /\ WF_sessionVars(Resume(s))
        /\ WF_sessionVars(Timeout(s))
        /\ \A kind \in Stop : WF_sessionVars(Deliver(s, kind))

SessionSpec == InitSession /\ [][SessionNext]_sessionVars /\ SessionFairness

-----------------------------------------------------------------------------
(* Properties.                                                             *)

\* After its stop was requested a session serves at most one more request: the
\* one whose header was already read.  raw_session looks at the stop source in
\* two places, before a header read and when it decides on keep-alive, and one
\* of the two must come between any two requests.
AtMostOneLateRequest == \A s \in Session : late[s] < 2

\* Once the graceful lambda has run, no session still waits for the first byte
\* of a request: it would hold the shutdown up until the grace period ends.  The
\* lambda spares a session that is writing, and the loop's own check must then
\* catch it.  (A header that has begun may still be waited for: the cancel can
\* fall between two reads of it and is then lost.)
NoIdleReadAfterStop ==
    \A s \in Session :
        pc[s] = "header" /\ op[s] = "pending" /\ asked[s] /\ inbox[s] = {}
            => partial[s]

\* A graceful stop cuts no response off, one that refuses a request included: only
\* force aborts a write.  Stop requests arrive at any moment, and all that the
\* lambda goes by is the phase, which each of the four ways to a write stores itself.
GracefulSparesResponses ==
    \A s \in Session : pc[s] = "write" /\ op[s] = "aborted" => cancelled[s]

\* A forced session starts nothing more: no read, no handler call, no response.
ForcedStartsNothing ==
    [][\A s \in Session :
          cancelled[s] /\ pc'[s] # pc[s] => pc'[s] \in {"ended", "gone"}]_sessionVars

\* No client holds a session for ever by being silent, by sending a header or a
\* body a byte at a time or by not reading the response: the deadline is armed
\* once for the whole operation.
WaitsAreBounded ==
    \A s \in Session : \A where \in Parked : pc[s] = where ~> pc[s] # where

\* A session keeps what Connection promises: the application's answers alternate with its
\* requests, an answer that closes is the last one, and a stop, which may come between any
\* two steps, lets at most the request being received through.
TurnOf(s) ==
    CASE pc[s] = "unborn"                        -> "new"
      [] pc[s] \in {"spawned", "header", "body"} -> "receiving"
      [] pc[s] = "handler"                       -> "serving"
      [] pc[s] = "write"                         -> IF wire[s].keep THEN "keeping" ELSE "closing"
      [] OTHER                                   -> "closed"

StopOf(s) == IF cancelled[s] THEN "forced" ELSE IF asked[s] THEN "graceful" ELSE "none"

Protocol == INSTANCE Connection WITH turn <- [s \in Session |-> TurnOf(s)],
                                     stop <- [s \in Session |-> StopOf(s)]

KeepsConnection == Protocol!Promise

\* What the response's own text and docs/limits.md say, and the code does not do:
\* a request is refused as malformed only for bytes the client sent, and one that
\* is on its way keeps its time when a graceful stop begins.  The lambda takes a
\* body read for an idle one, because the phase is still "reading".
BadRequestMeansBadBytes ==
    [][\A s \in Session :
          wire'[s].status = 400 /\ wire[s] = NoWire => op[s] \in {"bad", "fields"}]_sessionVars

\* What docs/limits.md says of header reads, true of the first request only: a
\* header that has begun to arrive is held to the header timeout.
BegunHeaderHasHeaderDeadline ==
    \A s \in Session : partial[s] => deadline[s] = "header"

=============================================================================
