----------------------------- MODULE RawServer ------------------------------
(***************************************************************************)
(* raw_server and serve_raw of include/flash/server.hpp: the accept loop,  *)
(* the worker threads, the registry of sessions and the shutdown protocol, *)
(* composed with the sessions of RawSession.                               *)
(*                                                                         *)
(* Threads: the owner, which constructs, starts and waits; whoever calls   *)
(* stop(); and the workers, which run the jobs of one io_context.  The     *)
(* jobs of the control strand (accept loop, begin_stop, force_stop, timer  *)
(* handlers, session_complete) exclude each other, and so do the jobs of   *)
(* one session; everything else interleaves.                               *)
(***************************************************************************)
EXTENDS RawSession, FiniteSets

CONSTANT Workers        \* server_config::workers

ASSUME WorkersAssumption == Workers \in 1..256

VARIABLES
    owner,          \* where the thread in serve_raw is
    started,        \* started_
    stopping,       \* stopping_
    stopAsked,      \* history: somebody called stop(), perhaps with no effect
    stopJob,        \* the job that runs begin_stop
    accept,         \* where the accept loop is suspended
    acceptorOpen,   \* acceptor_.is_open()
    registered,     \* sessions_
    active,         \* active_sessions_
    timer,          \* shutdown_timer_, its purpose and whether its handler is due
    context,        \* whether the io_context runs, ran out of work or was stopped
    live            \* worker threads that have not left context_.run()

serverVars == <<owner, started, stopping, stopAsked, stopJob, accept,
                acceptorOpen, registered, active, timer, context, live>>
vars == <<sessionVars, serverVars>>

\* The variables in groups, for UNCHANGED.
shutdownVars == <<stopJob, timer, context, live>>
ownerVars    == <<owner, started, stopping, stopAsked>>
listenVars   == <<accept, acceptorOpen>>
countVars    == <<registered, active>>

ServerTypeOK ==
    /\ TypeOK
    /\ owner \in {"constructed", "starting", "unwinding", "waiting", "returned"}
    /\ started \in BOOLEAN
    /\ stopping \in BOOLEAN
    /\ stopAsked \in BOOLEAN
    /\ stopJob \in {"none", "early", "posted", "done"}
    /\ accept \in {"none", "queued", "pending", "connected", "failed", "aborted", "ended"}
    /\ acceptorOpen \in BOOLEAN
    /\ registered \subseteq Session
    /\ active \in Nat
    /\ timer \in {"idle", "grace", "graceDue", "kill", "killDue"}
    /\ context \in {"running", "exhausted", "stopped"}
    /\ live \in 0..Workers

Init ==
    /\ InitSession
    /\ owner = "constructed"
    /\ started = FALSE
    /\ stopping = FALSE
    /\ stopAsked = FALSE
    /\ stopJob = "none"
    /\ accept = "none"
    /\ acceptorOpen = TRUE
    /\ registered = {}
    /\ active = 0
    /\ timer = "idle"
    /\ context = "running"
    /\ live = 0

-----------------------------------------------------------------------------
(* The io_context.                                                         *)

Busy == {s \in Session : OnWorker(s)}

\* Some worker is in context_.run() and not inside a synchronous handler.
WorkerFree == context = "running" /\ Cardinality(Busy) < live

\* Nothing is queued and no operation is outstanding.
NoWork ==
    /\ accept = "ended"
    /\ stopJob # "early" /\ stopJob # "posted"
    /\ timer = "idle"
    /\ \A s \in Session : ~Live(s) /\ inbox[s] = {}

-----------------------------------------------------------------------------
(* The owner and the callers of stop().                                    *)

\* start() marks the server started before it spawns the accept loop.
Start ==
    /\ owner = "constructed"
    /\ owner' = "starting"
    /\ started' = TRUE
    /\ UNCHANGED <<stopping, stopAsked, listenVars, countVars, shutdownVars, sessionVars>>

\* The accept loop is posted and the threads are created.  A thread that cannot
\* be created makes start() throw, which runs the destructor.
Launch ==
    /\ owner = "starting"
    /\ accept' = "queued"
    /\ live' \in 0..Workers
    /\ owner' = IF live' = Workers THEN "waiting" ELSE "unwinding"
    /\ UNCHANGED <<started, stopping, stopAsked, acceptorOpen, countVars,
                   stopJob, timer, context, sessionVars>>

\* The body of stop(): it counts once, and only after start().
StopCall ==
    IF started /\ ~stopping
    THEN /\ stopping' = TRUE
         /\ stopJob' = IF accept = "none" THEN "early" ELSE "posted"
    ELSE UNCHANGED <<stopping, stopJob>>

\* The stop callback of serve_raw, or a caller that holds the server.
CallStop ==
    /\ owner # "returned"
    /\ stopAsked' = TRUE
    /\ StopCall
    /\ UNCHANGED <<owner, started, listenVars, countVars, timer, context, live, sessionVars>>

\* ~raw_server after a failed start: stop(), then wait().
Unwind ==
    /\ owner = "unwinding"
    /\ owner' = "waiting"
    /\ StopCall
    /\ UNCHANGED <<started, stopAsked, listenVars, countVars, timer, context, live, sessionVars>>

\* wait() has joined every worker.
Join ==
    /\ owner = "waiting"
    /\ live = 0
    /\ owner' = "returned"
    /\ UNCHANGED <<started, stopping, stopAsked, listenVars, countVars, shutdownVars, sessionVars>>

\* The last unit of work is gone: run() returns on every worker.
Exhaust ==
    /\ WorkerFree
    /\ NoWork
    /\ context' = "exhausted"
    /\ UNCHANGED <<ownerVars, listenVars, countVars, stopJob, timer, live, sessionVars>>

\* A worker inside a synchronous handler leaves only after the handler returned.
WorkerExit ==
    /\ context # "running"
    /\ Cardinality(Busy) < live
    /\ live' = live - 1
    /\ UNCHANGED <<ownerVars, listenVars, countVars, stopJob, timer, context, sessionVars>>

-----------------------------------------------------------------------------
(* The accept loop.                                                        *)

AcceptAgain == accept' = IF acceptorOpen THEN "pending" ELSE "failed"

\* The loop's first segment.  begin_stop precedes it only if it was posted first.
AcceptStart ==
    /\ WorkerFree
    /\ accept = "queued"
    /\ stopJob # "early"
    /\ AcceptAgain
    /\ UNCHANGED <<ownerVars, acceptorOpen, countVars, shutdownVars, sessionVars>>

\* A connection arrives, or accept fails, for example for want of descriptors.
Arrive ==
    /\ accept = "pending"
    /\ \/ accept' = "connected" /\ \E s \in Session : pc[s] = "unborn"
       \/ accept' = "failed"
    /\ context = "running"
    /\ UNCHANGED <<ownerVars, acceptorOpen, countVars, shutdownVars, sessionVars>>

\* Mutant: only a cancelled accept ends the loop.
AcceptEnd_OnlyAborted ==
    /\ WorkerFree
    /\ accept = "aborted"
    /\ accept' = "ended"
    /\ UNCHANGED <<ownerVars, acceptorOpen, countVars, shutdownVars, sessionVars>>

AcceptEnd ==
    /\ WorkerFree
    /\ accept = "aborted" \/ (accept \in {"connected", "failed"} /\ ~acceptorOpen)
    /\ accept' = "ended"
    /\ UNCHANGED <<ownerVars, acceptorOpen, countVars, shutdownVars, sessionVars>>

AcceptError ==
    /\ WorkerFree
    /\ accept = "failed"
    /\ acceptorOpen
    /\ AcceptAgain
    /\ UNCHANGED <<ownerVars, acceptorOpen, countVars, shutdownVars, sessionVars>>

\* Mutant: the loop does not look at acceptor_.is_open() after an accept.
Accept_NoOpenCheck(s) ==
    /\ WorkerFree
    /\ accept = "connected"
    /\ Spawn(s)
    /\ registered' = registered \cup {s}
    /\ active' = active + 1
    /\ AcceptAgain
    /\ UNCHANGED <<ownerVars, acceptorOpen, shutdownVars>>

\* The connection becomes a session: it is registered, counted and spawned.
Accept(s) ==
    /\ WorkerFree
    /\ accept = "connected"
    /\ acceptorOpen
    /\ Spawn(s)
    /\ registered' = registered \cup {s}
    /\ active' = active + 1
    /\ AcceptAgain
    /\ UNCHANGED <<ownerVars, acceptorOpen, shutdownVars>>

-----------------------------------------------------------------------------
(* Shutdown.                                                               *)

\* Mutant: the pending accept is not cancelled and the acceptor stays open.
BeginStop_StillOpen ==
    /\ WorkerFree
    /\ stopJob = "early" \/ (stopJob = "posted" /\ accept # "queued")
    /\ stopJob' = "done"
    /\ RequestStop(registered, "graceful")
    /\ timer' = IF registered = {} THEN timer ELSE "grace"
    /\ UNCHANGED <<ownerVars, listenVars, countVars, context, live>>

BeginStop ==
    /\ WorkerFree
    /\ stopJob = "early" \/ (stopJob = "posted" /\ accept # "queued")
    /\ stopJob' = "done"
    /\ acceptorOpen' = FALSE
    /\ accept' = IF accept = "pending" THEN "aborted" ELSE accept
    /\ RequestStop(registered, "graceful")
    /\ timer' = IF registered = {} THEN timer ELSE "grace"
    /\ UNCHANGED <<ownerVars, countVars, context, live>>

\* Mutant: the grace timer's handler stops the context itself.
Expire_SkipsForce ==
    /\ context = "running"
    /\ timer \in {"grace", "kill"}
    /\ timer' = "killDue"
    /\ UNCHANGED <<ownerVars, listenVars, countVars, stopJob, context, live, sessionVars>>

\* The timer expires: its handler is queued with no error and can no longer be
\* cancelled.
Expire ==
    /\ context = "running"
    /\ \/ timer = "grace" /\ timer' = "graceDue"
       \/ timer = "kill" /\ timer' = "killDue"
    /\ UNCHANGED <<ownerVars, listenVars, countVars, stopJob, context, live, sessionVars>>

\* Mutant: the second timer is not armed.
ForceStop_NoKillTimer ==
    /\ WorkerFree
    /\ timer = "graceDue"
    /\ RequestStop(registered, "forced")
    /\ timer' = "idle"
    /\ UNCHANGED <<ownerVars, listenVars, countVars, stopJob, context, live>>

ForceStop ==
    /\ WorkerFree
    /\ timer = "graceDue"
    /\ RequestStop(registered, "forced")
    /\ timer' = IF registered = {} THEN "idle" ELSE "kill"
    /\ UNCHANGED <<ownerVars, listenVars, countVars, stopJob, context, live>>

\* The second timer's handler stops the io_context, whatever is left.
Kill ==
    /\ WorkerFree
    /\ timer = "killDue"
    /\ context' = "stopped"
    /\ timer' = "idle"
    /\ UNCHANGED <<ownerVars, listenVars, countVars, stopJob, live, sessionVars>>

\* Only a timer that has not expired can be cancelled.
CancelTimer == timer' = IF timer \in {"grace", "kill"} THEN "idle" ELSE timer

\* Mutant: the first session to leave cancels the timer.
SessionComplete_CancelsAtOnce(s) ==
    /\ WorkerFree
    /\ Retire(s)
    /\ registered' = registered \ {s}
    /\ active' = active - 1
    /\ IF stopping THEN CancelTimer ELSE UNCHANGED timer
    /\ UNCHANGED <<ownerVars, listenVars, stopJob, context, live>>

\* Mutant: the session stays in sessions_.
SessionComplete_NotErased(s) ==
    /\ WorkerFree
    /\ Retire(s)
    /\ active' = active - 1
    /\ UNCHANGED <<ownerVars, listenVars, registered, timer, stopJob, context, live>>

\* session_complete, posted by the coroutine's completion handler.
SessionComplete(s) ==
    /\ WorkerFree
    /\ Retire(s)
    /\ registered' = registered \ {s}
    /\ active' = active - 1
    /\ IF stopping /\ registered' = {} THEN CancelTimer ELSE UNCHANGED timer
    /\ UNCHANGED <<ownerVars, listenVars, stopJob, context, live>>

-----------------------------------------------------------------------------
(* The sessions, as the io_context runs them.                              *)

\* A synchronous handler returns on the worker it holds, even when the context
\* was stopped meanwhile; an asynchronous one has to be resumed by a worker.
HandlerReturn(s) ==
    /\ OnWorker(s) \/ WorkerFree
    /\ HandlerDone(s)
    /\ UNCHANGED serverVars

StrandJob(s) ==
    /\ WorkerFree
    /\ Resume(s) \/ \E kind \in Stop : Deliver(s, kind)
    /\ UNCHANGED serverVars

\* The reactor and the timers complete operations while the context runs.
IoDone(s)   == context = "running" /\ Io(s) /\ UNCHANGED serverVars
TimedOut(s) == context = "running" /\ Timeout(s) /\ UNCHANGED serverVars

Next ==
    \/ Start \/ Launch \/ CallStop \/ Unwind \/ Join
    \/ Exhaust \/ WorkerExit
    \/ AcceptStart \/ Arrive \/ AcceptEnd \/ AcceptError
    \/ BeginStop \/ Expire \/ ForceStop \/ Kill
    \/ \E s \in Session :
          \/ Accept(s) \/ SessionComplete(s)
          \/ HandlerReturn(s) \/ StrandJob(s) \/ IoDone(s) \/ TimedOut(s)

\* The owner's thread runs, a queued job is run by a free worker in first-in
\* first-out order (strong fairness where other jobs can take the worker first
\* for ever), an armed timer expires, and a synchronous handler returns.
Fairness ==
    /\ WF_vars(Start) /\ WF_vars(Launch) /\ WF_vars(Unwind) /\ WF_vars(Join)
    /\ WF_vars(Exhaust) /\ WF_vars(WorkerExit)
    /\ WF_vars(AcceptStart) /\ WF_vars(AcceptEnd)
    /\ SF_vars(BeginStop)
    /\ WF_vars(Expire) /\ WF_vars(ForceStop) /\ WF_vars(Kill)
    /\ \A s \in Session :
          /\ WF_vars(SessionComplete(s)) /\ WF_vars(StrandJob(s))
          /\ WF_vars(TimedOut(s))
          /\ WF_vars(OnWorker(s) /\ HandlerReturn(s))

SafetySpec == Init /\ [][Next]_vars
Spec == SafetySpec /\ Fairness

-----------------------------------------------------------------------------
(* Properties.                                                             *)

\* active_sessions() counts the sessions the server knows of, and it knows of
\* every coroutine it spawned: a stop can reach them all.
Accounting ==
    /\ active = Cardinality(registered)
    /\ registered = {s \in Session : Live(s)}

\* After begin_stop has run there is no session that was not asked to stop.  A
\* connection whose accept had completed, but whose coroutine had not resumed,
\* when the acceptor was cancelled is the one that could slip through.
NoSessionEscapesStop ==
    stopJob = "done" => \A s \in Session : Live(s) => stopRequested[s] /\ asked[s]

\* A shutdown that still has sessions is never left without a timer that ends
\* it: cancelling on session_complete and re-arming in force_stop leave no gap.
DrainIsTimed ==
    stopJob = "done" /\ registered # {} => timer # "idle" \/ context = "stopped"

\* When wait() returns no handler is running on a worker and, unless the context
\* was stopped under them, every session is gone; and the context is stopped only
\* after each session that is left was told by force.
WaitMeansDrained ==
    /\ owner = "returned" => Busy = {} /\ (context # "stopped" => active = 0)
    /\ context = "stopped" =>
          \A s \in registered : cancelled[s] \/ "forced" \in inbox[s]

\* stop() ends a server that has started: wait() returns.
StopEndsServer == stopping ~> owner = "returned"

\* The claim of docs/api.md for serve's stop token: asking it to stop suffices.
StopTokenEndsServe == stopAsked ~> owner = "returned"

-----------------------------------------------------------------------------
(* The server implements Lifecycle.                                        *)

\* Somebody was told to leave by force; a session keeps the mark when it goes.
ForceUsed == \E s \in Session : cancelled[s] \/ "forced" \in inbox[s]

Mode ==
    CASE owner = "returned" -> "down"
      [] ~started -> "idle"
      [] started /\ owner # "returned" /\ ForceUsed -> "forced"
      [] OTHER -> IF stopJob = "done" THEN "draining" ELSE "serving"

Promise == INSTANCE Lifecycle WITH mode <- Mode, open <- registered

\* The server keeps the promises of Lifecycle: nobody is admitted once
\* begin_stop ran, and wait() does not return while a connection is open unless
\* it was forced to leave.
KeepsLifecycle == Promise!LifecycleSafety

\* With fair scheduling every drain also ends, by emptying or by force.
DrainEnds == Promise!LifecycleSpec

=============================================================================
