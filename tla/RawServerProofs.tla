-------------------------- MODULE RawServerProofs ---------------------------
(* The invariants of RawServer, and that it implements Lifecycle, for any  *)
(* set of connections, finite or not, and any number of workers.           *)
EXTENDS RawServer, RawSessionProofs, FiniteSetTheorems

-----------------------------------------------------------------------------
(* The inductive invariant.                                                *)

\* What the control strand's variables say of each other.
ControlInv ==
    /\ started <=> owner # "constructed"
    /\ accept = "none" <=> owner \in {"constructed", "starting"}
    /\ ~started \/ ~stopping => stopJob = "none"
    /\ acceptorOpen <=> stopJob # "done"
    /\ timer # "idle" => stopJob = "done"
    /\ context = "stopped" => stopJob = "done"

\* What they say of the sessions.
RegistryInv ==
    /\ IsFiniteSet(registered)
    /\ Accounting
    /\ accept = "none" => registered = {}
    /\ stopJob = "done" => \A s \in registered : asked[s]
    /\ timer \in {"kill", "killDue"} \/ context = "stopped" =>
          \A s \in registered : Forced(s)
    /\ stopJob # "done" => \A s \in Session : ~Forced(s)
    /\ DrainIsTimed

\* And of the threads: a worker is never lost to a handler it does not run, and
\* without workers there is nothing to work on, unless the context was stopped.
ThreadInv ==
    /\ Cardinality(Busy) <= live
    /\ owner = "returned" => live = 0
    /\ accept = "none" => live = 0
    /\ live = 0 /\ context = "running" => registered = {}
    /\ live = 0 /\ context = "running" => accept \in {"none", "queued"}
    /\ context = "exhausted" => registered = {}

ServerInv == ServerTypeOK /\ SessionInv /\ ControlInv /\ RegistryInv /\ ThreadInv

-----------------------------------------------------------------------------
\* Busy sessions are registered, so there are finitely many.
LEMMA BusyFinite ==
    ASSUME RegistryInv
    PROVE  /\ Busy \subseteq registered
           /\ IsFiniteSet(Busy)
           /\ Cardinality(Busy) \in Nat
           /\ registered = {} => Cardinality(Busy) = 0
<1>1. Busy \subseteq registered
  BY DEF Busy, OnWorker, RegistryInv, Accounting, Live
<1>2. IsFiniteSet(Busy)
  BY <1>1, FS_Subset DEF RegistryInv
<1>3. registered = {} => Busy = {}
  BY <1>1
<1> QED
  BY <1>1, <1>2, <1>3, FS_CardinalityType, FS_EmptySet

\* A worker is free only while the context runs, and only if there is one.
LEMMA FreeWorkerLives ==
    ASSUME ServerTypeOK, RegistryInv, WorkerFree
    PROVE  context = "running" /\ live > 0
<1>1. live \in Nat /\ Cardinality(Busy) \in Nat
  BY BusyFinite, WorkersAssumption DEF ServerTypeOK
<1> QED
  BY <1>1 DEF WorkerFree

\* A step of session s makes no session but s busy, and s only on a free worker.
LEMMA BusyBound ==
    ASSUME ServerInv, NEW s \in Session, SessionStep(s),
           WorkerFree \/ OnWorker(s) \/ UNCHANGED <<pc, call>>
    PROVE  Cardinality(Busy') <= live
<1>1. Busy' \subseteq Busy \cup {s}
  BY SessionStepFrame DEF Busy, OnWorker, ServerInv, ServerTypeOK
<1>2. /\ IsFiniteSet(Busy) /\ Cardinality(Busy) \in Nat
      /\ live \in Nat /\ Cardinality(Busy) <= live
  BY BusyFinite, WorkersAssumption DEF ServerInv, ThreadInv, ServerTypeOK
<1>3. CASE WorkerFree
  <2>1. /\ IsFiniteSet(Busy \cup {s})
        /\ Cardinality(Busy \cup {s}) <= Cardinality(Busy) + 1
    <3> DEFINE B == Busy
    <3>1. IsFiniteSet(B) /\ Cardinality(B) \in Nat
      BY <1>2
    <3> HIDE DEF B
    <3>2. IsFiniteSet(B \cup {s}) /\ Cardinality(B \cup {s}) <= Cardinality(B) + 1
      <4>1. /\ IsFiniteSet(B \cup {s})
            /\ \/ Cardinality(B \cup {s}) = Cardinality(B)
               \/ Cardinality(B \cup {s}) = Cardinality(B) + 1
        BY ONLY <3>1, FS_AddElement, Zenon
      <4>2. QED
        BY ONLY <3>1, <4>1
    <3>3. QED
      BY <3>2 DEF B
  <2>2. IsFiniteSet(Busy') /\ Cardinality(Busy') <= Cardinality(Busy \cup {s})
    BY <1>1, <2>1, FS_Subset
  <2>3. Cardinality(Busy') \in Nat /\ Cardinality(Busy \cup {s}) \in Nat
    BY <2>1, <2>2, FS_CardinalityType
  <2> QED
    BY <1>2, <1>3, <2>1, <2>2, <2>3 DEF WorkerFree
<1>4. CASE OnWorker(s)
  <2>1. Busy' \subseteq Busy
    BY <1>1, <1>4 DEF Busy
  <2>2. IsFiniteSet(Busy') /\ Cardinality(Busy') <= Cardinality(Busy)
    BY <1>2, <2>1, FS_Subset
  <2> QED
    BY <1>2, <2>2, FS_CardinalityType
<1>5. CASE UNCHANGED <<pc, call>>
  <2>1. Busy' = Busy
    BY <1>5 DEF Busy, OnWorker
  <2> QED
    BY <1>2, <2>1
<1> QED
  BY <1>3, <1>4, <1>5

-----------------------------------------------------------------------------
\* The invariant holds initially.
LEMMA ServerInit == Init => ServerInv
<1> SUFFICES ASSUME Init
             PROVE  ServerInv
  OBVIOUS
<1>1. TypeOK /\ SessionInv
  BY DEF Init, InitSession, TypeOK, SessionInv, SessionFacts, Place, Wire
<1>2. ServerTypeOK
  <2>1. 0 \in 0..Workers
    BY WorkersAssumption
  <2> QED
    BY <1>1, <2>1 DEF Init, ServerTypeOK
<1>3. ControlInv
  BY DEF Init, ControlInv
<1>4. Busy = {} /\ \A s \in Session : ~Live(s) /\ ~Forced(s)
  BY DEF Init, InitSession, Busy, OnWorker, Live, Forced
<1>5. RegistryInv
  BY <1>4, FS_EmptySet DEF Init, RegistryInv, Accounting, DrainIsTimed
<1>6. ThreadInv
  BY <1>4, FS_EmptySet DEF Init, ThreadInv
<1> QED
  BY <1>1, <1>2, <1>3, <1>5, <1>6 DEF ServerInv

\* A step of a session by itself keeps the invariant.
LEMMA SessionKeepsInv ==
    ASSUME ServerInv, NEW s \in Session, SessionStep(s), UNCHANGED serverVars,
           WorkerFree \/ OnWorker(s) \/ UNCHANGED <<pc, call>>
    PROVE  ServerInv'
<1>1. TypeOK' /\ SessionInv'
  BY SessionStepType, SessionStepInv DEF ServerInv, ServerTypeOK
<1>2. /\ \A t \in Session : Live(t)' = Live(t)
      /\ asked' = asked
      /\ \A t \in Session : Forced(t)' <=> Forced(t)
  BY SessionStepFrame DEF ServerInv, ServerTypeOK
<1>3. ServerTypeOK'
  BY <1>1 DEF ServerInv, ServerTypeOK, serverVars
<1>4. ControlInv'
  BY DEF ServerInv, ControlInv, serverVars
<1>5. RegistryInv'
  <2>1. Accounting'
    BY <1>2 DEF ServerInv, RegistryInv, Accounting, serverVars
  <2>2. registered \subseteq Session
    BY DEF ServerInv, ServerTypeOK
  <2> QED
    BY <1>2, <2>1, <2>2 DEF ServerInv, RegistryInv, DrainIsTimed, serverVars
<1>6. ThreadInv'
  BY BusyBound DEF ServerInv, ThreadInv, serverVars
<1> QED
  BY <1>1, <1>3, <1>4, <1>5, <1>6 DEF ServerInv

\* So does a step that leaves the sessions alone.
LEMMA SessionsUntouched ==
    ASSUME ServerInv, UNCHANGED sessionVars
    PROVE  /\ TypeOK' /\ SessionInv'
           /\ Busy' = Busy
           /\ \A s \in Session : Live(s)' = Live(s)
           /\ \A s \in Session : Forced(s)' = Forced(s)
           /\ asked' = asked
BY DEF ServerInv, ServerTypeOK, TypeOK, SessionInv, SessionFacts, sessionVars,
       Busy, OnWorker, Live, Forced

\* The owner's thread and the callers of stop() keep the server's invariant.
LEMMA OwnerKeepsInv ==
    ASSUME ServerInv, Start \/ Launch \/ CallStop \/ Unwind \/ Join
    PROVE  ServerInv'
<1>1. UNCHANGED <<sessionVars, countVars, acceptorOpen, timer, context>>
  BY DEF Start, Launch, CallStop, Unwind, Join, StopCall, listenVars, shutdownVars
<1>2. /\ TypeOK' /\ SessionInv' /\ Busy' = Busy /\ asked' = asked
      /\ \A s \in Session : Live(s)' = Live(s)
      /\ \A s \in Session : Forced(s)' = Forced(s)
  BY <1>1, SessionsUntouched
<1>3. live \in Nat /\ Workers \in Nat
  BY WorkersAssumption DEF ServerInv, ServerTypeOK
<1>4. ServerTypeOK' /\ ControlInv'
  <2>1. CASE Start
    BY <1>1, <1>2, <2>1 DEF Start, ServerInv, ServerTypeOK, ControlInv, countVars,
                            listenVars, shutdownVars
  <2>2. CASE Launch
    BY <1>1, <1>2, <2>2 DEF Launch, ServerInv, ServerTypeOK, ControlInv, countVars
  <2>3. CASE CallStop \/ Unwind
    <3>1. /\ UNCHANGED <<started, accept, live>>
          /\ owner' = owner \/ (owner = "unwinding" /\ owner' = "waiting")
          /\ stopAsked' = stopAsked \/ stopAsked' = TRUE
      BY <2>3 DEF CallStop, Unwind, listenVars
    <3>2. \/ UNCHANGED <<stopping, stopJob>>
          \/ /\ started /\ ~stopping /\ stopping' = TRUE
             /\ stopJob' \in {"early", "posted"}
      BY <2>3 DEF CallStop, Unwind, StopCall
    <3>3. ServerTypeOK'
      <4>1. ServerTypeOK
        BY DEF ServerInv
      <4>2. /\ stopping' \in BOOLEAN /\ stopAsked' \in BOOLEAN
            /\ stopJob' \in {"none", "early", "posted", "done"}
        BY <3>1, <3>2, <4>1 DEF ServerTypeOK
      <4>3. QED
        BY <1>1, <1>2, <3>1, <4>1, <4>2 DEF ServerTypeOK, countVars
    <3>4. ControlInv'
      BY <1>1, <3>1, <3>2 DEF ServerInv, ControlInv
    <3> QED
      BY <3>3, <3>4
  <2>4. CASE Join
    BY <1>1, <1>2, <2>4 DEF Join, ServerInv, ServerTypeOK, ControlInv, countVars,
                            listenVars, shutdownVars
  <2> QED
    BY <2>1, <2>2, <2>3, <2>4
<1>5. stopJob' = "done" <=> stopJob = "done"
  BY DEF Start, Launch, CallStop, Unwind, Join, StopCall, shutdownVars,
         ServerInv, ControlInv
<1>6. accept' = "none" => accept = "none"
  BY DEF Start, Launch, CallStop, Unwind, Join, listenVars
<1>7. RegistryInv'
  <2>1. Accounting'
    BY <1>1, <1>2 DEF ServerInv, RegistryInv, Accounting, countVars
  <2>2. registered \subseteq Session
    BY DEF ServerInv, ServerTypeOK
  <2> QED
    BY <1>1, <1>2, <1>5, <1>6, <2>1, <2>2
       DEF ServerInv, RegistryInv, DrainIsTimed, countVars
<1>8. ThreadInv'
  <2>1. CASE Launch
    <3>1. accept = "none" /\ registered = {} /\ Cardinality(Busy) = 0
      BY <2>1, BusyFinite DEF Launch, ServerInv, ControlInv, RegistryInv
    <3>2. live' \in Nat
      BY <2>1, <1>3 DEF Launch
    <3>3. owner' # "returned" /\ accept' = "queued"
      BY <2>1 DEF Launch
    <3> QED
      BY <1>1, <1>2, <3>1, <3>2, <3>3 DEF ThreadInv, countVars
  <2>2. CASE ~Launch
    <3>1. live' = live
      BY <2>2 DEF Start, CallStop, Unwind, Join, shutdownVars
    <3>2. owner' = "returned" => owner = "returned" \/ live = 0
      BY <2>2 DEF Start, CallStop, Unwind, Join
    <3>3. accept' = accept
      BY <2>2 DEF Start, CallStop, Unwind, Join, listenVars
    <3> QED
      BY <1>1, <1>2, <3>1, <3>2, <3>3 DEF ServerInv, ThreadInv, countVars
  <2> QED
    BY <2>1, <2>2
<1> QED
  BY <1>2, <1>4, <1>7, <1>8 DEF ServerInv

\* So do the io_context running out of work and a worker leaving run().
LEMMA ContextKeepsInv ==
    ASSUME ServerInv, Exhaust \/ WorkerExit
    PROVE  ServerInv'
<1>1. UNCHANGED <<sessionVars, ownerVars, listenVars, countVars, stopJob, timer>>
  BY DEF Exhaust, WorkerExit
<1>2. /\ TypeOK' /\ SessionInv' /\ Busy' = Busy /\ asked' = asked
      /\ \A s \in Session : Live(s)' = Live(s)
      /\ \A s \in Session : Forced(s)' = Forced(s)
  BY <1>1, SessionsUntouched
<1>3. /\ live \in Nat /\ Workers \in Nat /\ Cardinality(Busy) \in Nat
      /\ live <= Workers
  BY BusyFinite, WorkersAssumption DEF ServerInv, ServerTypeOK
<1>4. live' \in 0..Workers /\ Cardinality(Busy) <= live'
  BY <1>3 DEF Exhaust, WorkerExit, ServerInv, ServerTypeOK, ThreadInv
<1>5. /\ context' \in {"running", "exhausted", "stopped"}
      /\ (context' = "stopped" <=> context = "stopped")
  BY DEF Exhaust, WorkerExit, ServerInv, ServerTypeOK, WorkerFree
<1>6. ServerTypeOK' /\ ControlInv'
  BY <1>1, <1>2, <1>4, <1>5
     DEF ServerInv, ServerTypeOK, ControlInv, ownerVars, listenVars, countVars
<1>7. RegistryInv'
  <2>1. Accounting'
    BY <1>1, <1>2 DEF ServerInv, RegistryInv, Accounting, countVars
  <2>2. registered \subseteq Session
    BY DEF ServerInv, ServerTypeOK
  <2> QED
    BY <1>1, <1>2, <1>5, <2>1, <2>2
       DEF ServerInv, RegistryInv, DrainIsTimed, countVars, listenVars
<1>8. ThreadInv'
  <2>1. context' = "running" => UNCHANGED <<live, context>>
    BY DEF Exhaust, WorkerExit
  <2>2. context' = "exhausted" => registered = {}
    BY DEF Exhaust, WorkerExit, NoWork, ServerInv, ThreadInv, RegistryInv, Accounting
  <2>3. live = 0 => live' = 0
    BY <1>3 DEF Exhaust, WorkerExit
  <2> QED
    BY <1>1, <1>2, <1>4, <2>1, <2>2, <2>3
       DEF ServerInv, ThreadInv, ownerVars, listenVars, countVars
<1> QED
  BY <1>2, <1>6, <1>7, <1>8 DEF ServerInv

\* The accept loop's steps that create no session.
LEMMA ListenKeepsInv ==
    ASSUME ServerInv, AcceptStart \/ Arrive \/ AcceptEnd \/ AcceptError
    PROVE  ServerInv'
<1>1. UNCHANGED <<sessionVars, ownerVars, acceptorOpen, countVars, shutdownVars>>
  BY DEF AcceptStart, Arrive, AcceptEnd, AcceptError
<1>2. /\ TypeOK' /\ SessionInv' /\ Busy' = Busy /\ asked' = asked
      /\ \A s \in Session : Live(s)' = Live(s)
      /\ \A s \in Session : Forced(s)' = Forced(s)
  BY <1>1, SessionsUntouched
<1>3. /\ accept # "none" /\ accept' # "none"
      /\ accept' \in {"pending", "connected", "failed", "ended"}
  BY DEF AcceptStart, Arrive, AcceptEnd, AcceptError, AcceptAgain
<1>4. context = "running" /\ live # 0
  <2>1. CASE Arrive
    BY <2>1 DEF Arrive, ServerInv, ThreadInv
  <2>2. CASE WorkerFree
    BY <2>2, FreeWorkerLives, WorkersAssumption DEF ServerInv, ServerTypeOK
  <2> QED
    BY <2>1, <2>2 DEF AcceptStart, AcceptEnd, AcceptError
<1>5. ServerTypeOK' /\ ControlInv'
  BY <1>1, <1>2, <1>3
     DEF ServerInv, ServerTypeOK, ControlInv, ownerVars, countVars, shutdownVars
<1>6. RegistryInv'
  <2>1. Accounting'
    BY <1>1, <1>2 DEF ServerInv, RegistryInv, Accounting, countVars
  <2>2. registered \subseteq Session
    BY DEF ServerInv, ServerTypeOK
  <2> QED
    BY <1>1, <1>2, <1>3, <2>1, <2>2
       DEF ServerInv, RegistryInv, DrainIsTimed, countVars, shutdownVars
<1>7. ThreadInv'
  BY <1>1, <1>2, <1>3, <1>4
     DEF ServerInv, ThreadInv, ownerVars, countVars, shutdownVars
<1> QED
  BY <1>2, <1>5, <1>6, <1>7 DEF ServerInv

\* A connection is admitted: it is new, so the count and the registry agree.
LEMMA AcceptKeepsInv ==
    ASSUME ServerInv, NEW s \in Session, Accept(s)
    PROVE  ServerInv'
<1>1. TypeOK' /\ SessionInv'
  BY SpawnType, SpawnInv DEF Accept, ServerInv, ServerTypeOK
<1>2. stopJob # "done" /\ context = "running" /\ live > 0 /\ live \in Nat
  BY FreeWorkerLives, WorkersAssumption
     DEF Accept, ServerInv, ControlInv, ServerTypeOK
<1>3. accept # "none" /\ accept' = "pending"
  BY DEF Accept, AcceptAgain
<1>4. /\ pc[s] = "unborn" /\ pc' = [pc EXCEPT ![s] = "spawned"]
      /\ UNCHANGED <<call, cancelled, inbox, asked>>
  BY DEF Accept, Spawn, stopVars
<1>5. Busy' = Busy /\ \A t \in Session : Forced(t)' = Forced(t)
  BY <1>4 DEF Busy, OnWorker, Forced, ServerInv, ServerTypeOK, TypeOK
<1>6. s \notin registered
  BY <1>4 DEF ServerInv, RegistryInv, Accounting, Live
<1>7. ServerTypeOK' /\ ControlInv'
  BY <1>1, <1>2, <1>3
     DEF Accept, ServerInv, ServerTypeOK, ControlInv, ownerVars, shutdownVars
<1>8. RegistryInv'
  <2>1. IsFiniteSet(registered') /\ active' = Cardinality(registered')
    BY <1>6, FS_AddElement DEF Accept, ServerInv, RegistryInv, Accounting
  <2>2. registered' = {t \in Session : Live(t)}'
    BY <1>4 DEF Accept, ServerInv, ServerTypeOK, TypeOK, RegistryInv, Accounting, Live
  <2>3. stopJob' # "done" /\ timer' = "idle" /\ context' = "running"
    BY <1>2 DEF Accept, shutdownVars, ServerInv, ControlInv
  <2> QED
    BY <1>2, <1>3, <1>5, <2>1, <2>2, <2>3
       DEF ServerInv, RegistryInv, Accounting, DrainIsTimed
<1>9. ThreadInv'
  BY <1>2, <1>3, <1>5 DEF Accept, ServerInv, ThreadInv, ownerVars, shutdownVars
<1> QED
  BY <1>1, <1>7, <1>8, <1>9 DEF ServerInv

\* begin_stop asks every registered session, and arms the timer if there is one.
LEMMA BeginStopKeepsInv ==
    ASSUME ServerInv, BeginStop
    PROVE  ServerInv'
<1>1. TypeOK' /\ SessionInv'
  BY RequestStopType, RequestStopInv
     DEF BeginStop, ServerInv, ServerTypeOK, RegistryInv, Accounting, Stop
<1>2. /\ stopJob # "done" /\ context = "running" /\ live > 0 /\ live \in Nat
      /\ started /\ accept # "none"
  BY FreeWorkerLives, WorkersAssumption
     DEF BeginStop, ServerInv, ControlInv, ThreadInv, ServerTypeOK
<1>3. /\ UNCHANGED <<pc, call, cancelled>>
      /\ \A s \in registered : asked'[s]
      /\ \A s \in Session : "forced" \in inbox'[s] <=> "forced" \in inbox[s]
  BY DEF BeginStop, RequestStop, ServerInv, ServerTypeOK
<1>4. /\ Busy' = Busy
      /\ \A s \in Session : Live(s)' = Live(s)
      /\ \A s \in Session : ~Forced(s)'
  <2>1. Busy' = Busy /\ \A s \in Session : Live(s)' = Live(s)
    BY <1>3 DEF Busy, OnWorker, Live
  <2>2. \A s \in Session : ~Forced(s)
    BY <1>2 DEF ServerInv, RegistryInv
  <2>3. \A s \in Session : ~Forced(s)'
    BY <1>3, <2>2 DEF Forced
  <2> QED
    BY <2>1, <2>3
<1>5. /\ timer = "idle" /\ timer' \in {"idle", "grace"}
      /\ (registered # {} => timer' = "grace")
  BY <1>2 DEF BeginStop, ServerInv, ControlInv
<1>6. ServerTypeOK' /\ ControlInv'
  BY <1>1, <1>2, <1>5
     DEF BeginStop, ServerInv, ServerTypeOK, ControlInv, ownerVars, countVars
<1>7. RegistryInv'
  <2>1. Accounting'
    BY <1>4 DEF BeginStop, ServerInv, RegistryInv, Accounting, countVars
  <2> QED
    BY <1>2, <1>3, <1>5, <2>1
       DEF BeginStop, ServerInv, ControlInv, RegistryInv, DrainIsTimed, countVars
<1>8. ThreadInv'
  BY <1>2, <1>4 DEF BeginStop, ServerInv, ThreadInv, ownerVars, countVars
<1> QED
  BY <1>1, <1>6, <1>7, <1>8 DEF ServerInv

\* force_stop tells every registered session, and arms the second timer.
LEMMA ForceStopKeepsInv ==
    ASSUME ServerInv, ForceStop
    PROVE  ServerInv'
<1>1. TypeOK' /\ SessionInv'
  BY RequestStopType, RequestStopInv
     DEF ForceStop, ServerInv, ServerTypeOK, RegistryInv, Accounting, Stop
<1>2. stopJob = "done" /\ context = "running" /\ live > 0 /\ live \in Nat
  BY FreeWorkerLives, WorkersAssumption
     DEF ForceStop, ServerInv, ControlInv, ServerTypeOK
<1>3. /\ UNCHANGED <<pc, call, cancelled>>
      /\ \A s \in registered : asked'[s] /\ "forced" \in inbox'[s]
  BY DEF ForceStop, RequestStop, ServerInv, ServerTypeOK
<1>4. /\ Busy' = Busy
      /\ \A s \in Session : Live(s)' = Live(s)
      /\ \A s \in registered : Forced(s)'
  BY <1>3 DEF Busy, OnWorker, Live, Forced
<1>5. ServerTypeOK' /\ ControlInv'
  BY <1>1, <1>2
     DEF ForceStop, ServerInv, ServerTypeOK, ControlInv, ownerVars, listenVars, countVars
<1>6. RegistryInv'
  <2>1. Accounting'
    BY <1>4 DEF ForceStop, ServerInv, RegistryInv, Accounting, countVars
  <2> QED
    BY <1>2, <1>3, <1>4, <2>1
       DEF ForceStop, ServerInv, RegistryInv, DrainIsTimed, countVars, listenVars
<1>7. ThreadInv'
  BY <1>4 DEF ForceStop, ServerInv, ThreadInv, ownerVars, listenVars, countVars
<1> QED
  BY <1>1, <1>5, <1>6, <1>7 DEF ServerInv

\* The timers: the context is stopped only by the second, after force was used.
LEMMA TimerKeepsInv ==
    ASSUME ServerInv, Expire \/ Kill
    PROVE  ServerInv'
<1>1. UNCHANGED <<sessionVars, ownerVars, listenVars, countVars, stopJob, live>>
  BY DEF Expire, Kill
<1>2. /\ TypeOK' /\ SessionInv' /\ Busy' = Busy /\ asked' = asked
      /\ \A s \in Session : Live(s)' = Live(s)
      /\ \A s \in Session : Forced(s)' = Forced(s)
  BY <1>1, SessionsUntouched
<1>3. stopJob = "done" /\ context = "running"
  BY DEF Expire, Kill, WorkerFree, ServerInv, ControlInv
<1>4. ServerTypeOK' /\ ControlInv'
  BY <1>1, <1>2, <1>3
     DEF Expire, Kill, ServerInv, ServerTypeOK, ControlInv, ownerVars, listenVars, countVars
<1>5. RegistryInv'
  <2>1. Accounting'
    BY <1>1, <1>2 DEF ServerInv, RegistryInv, Accounting, countVars
  <2>2. registered \subseteq Session
    BY DEF ServerInv, ServerTypeOK
  <2> QED
    BY <1>1, <1>2, <1>3, <2>1, <2>2
       DEF Expire, Kill, ServerInv, RegistryInv, DrainIsTimed, countVars, listenVars
<1>6. ThreadInv'
  BY <1>1, <1>2, <1>3
     DEF Expire, Kill, ServerInv, ThreadInv, ownerVars, listenVars, countVars
<1> QED
  BY <1>2, <1>4, <1>5, <1>6 DEF ServerInv

\* session_complete: the timer is cancelled only when nobody is left.
LEMMA CompleteKeepsInv ==
    ASSUME ServerInv, NEW s \in Session, SessionComplete(s)
    PROVE  ServerInv'
<1>1. TypeOK' /\ SessionInv'
  BY SpawnType, SpawnInv DEF SessionComplete, ServerInv, ServerTypeOK
<1>2. /\ pc[s] = "ended" /\ pc' = [pc EXCEPT ![s] = "gone"]
      /\ UNCHANGED <<call, cancelled, inbox, asked>>
  BY DEF SessionComplete, Retire, stopVars
<1>3. Busy' = Busy /\ \A t \in Session : Forced(t)' = Forced(t)
  BY <1>2 DEF Busy, OnWorker, Forced, ServerInv, ServerTypeOK, TypeOK
<1>4. s \in registered /\ registered' = registered \ {s}
  BY <1>2 DEF SessionComplete, ServerInv, RegistryInv, Accounting, Live
<1>5. context = "running" /\ live > 0 /\ live \in Nat
  BY FreeWorkerLives, WorkersAssumption DEF SessionComplete, ServerInv, ServerTypeOK
<1>6. /\ IsFiniteSet(registered') /\ active' = Cardinality(registered')
      /\ Cardinality(registered') \in Nat
  <2>1. /\ IsFiniteSet(registered) /\ active = Cardinality(registered)
        /\ active' = active - 1
    BY DEF SessionComplete, ServerInv, RegistryInv, Accounting
  <2>2. /\ IsFiniteSet(registered \ {s})
        /\ Cardinality(registered \ {s}) = Cardinality(registered) - 1
    BY <1>4, <2>1, FS_RemoveElement
  <2>3. Cardinality(registered \ {s}) \in Nat
    BY <2>2, FS_CardinalityType
  <2>4. QED
    BY <1>4, <2>1, <2>2, <2>3
<1>7. timer' = timer \/ (timer' = "idle" /\ registered' = {})
  BY DEF SessionComplete, CancelTimer
<1>8. ServerTypeOK'
  BY <1>1, <1>4, <1>6, <1>7
     DEF SessionComplete, ServerInv, ServerTypeOK, ownerVars, listenVars
<1>9. ControlInv'
  BY <1>7 DEF SessionComplete, ServerInv, ControlInv, ownerVars, listenVars
<1>10. RegistryInv'
  <2>1. registered' = {t \in Session : Live(t)}'
    BY <1>2, <1>4 DEF ServerInv, ServerTypeOK, TypeOK, RegistryInv, Accounting, Live
  <2>2. Accounting'
    BY <1>6, <2>1 DEF Accounting
  <2>3. registered \subseteq Session
    BY DEF ServerInv, ServerTypeOK
  <2> QED
    BY <1>2, <1>3, <1>4, <1>6, <1>7, <2>2, <2>3
       DEF SessionComplete, ServerInv, RegistryInv, DrainIsTimed, listenVars
<1>11. ThreadInv'
  BY <1>3, <1>4, <1>5 DEF SessionComplete, ServerInv, ThreadInv, ownerVars, listenVars
<1> QED
  BY <1>1, <1>8, <1>9, <1>10, <1>11 DEF ServerInv

-----------------------------------------------------------------------------
\* Every step keeps the invariant.
LEMMA ServerNextInv == ServerInv /\ [Next]_vars => ServerInv'
<1> SUFFICES ASSUME ServerInv, [Next]_vars
             PROVE  ServerInv'
  OBVIOUS
<1>1. CASE UNCHANGED vars
  <2>1. UNCHANGED sessionVars /\ UNCHANGED serverVars
    BY <1>1 DEF vars
  <2>2. /\ TypeOK' /\ SessionInv' /\ Busy' = Busy /\ asked' = asked
        /\ \A s \in Session : Live(s)' = Live(s)
        /\ \A s \in Session : Forced(s)' = Forced(s)
    BY <2>1, SessionsUntouched
  <2>3. Accounting' /\ registered \subseteq Session
    BY <2>1, <2>2 DEF ServerInv, ServerTypeOK, RegistryInv, Accounting, serverVars
  <2> QED
    BY <2>1, <2>2, <2>3
       DEF ServerInv, ServerTypeOK, ControlInv, RegistryInv, ThreadInv, DrainIsTimed,
           serverVars
<1>2. CASE \E s \in Session : HandlerReturn(s)
  BY <1>2, SessionKeepsInv DEF HandlerReturn, SessionStep
<1>3. CASE \E s \in Session : StrandJob(s)
  BY <1>3, SessionKeepsInv DEF StrandJob, SessionStep
<1>4. CASE \E s \in Session : IoDone(s) \/ TimedOut(s)
  BY <1>4, SessionKeepsInv DEF IoDone, TimedOut, Io, Timeout, Complete, SessionStep
<1>5. CASE \E s \in Session : Accept(s) \/ SessionComplete(s)
  BY <1>5, AcceptKeepsInv, CompleteKeepsInv
<1> QED
  BY <1>1, <1>2, <1>3, <1>4, <1>5, OwnerKeepsInv, ContextKeepsInv, ListenKeepsInv,
     BeginStopKeepsInv, ForceStopKeepsInv, TimerKeepsInv
     DEF Next

\* The server is type correct, for every set of connections and worker count.
THEOREM ServerTypeCorrect == Spec => []ServerTypeOK
<1>1. ServerInv => ServerTypeOK
  BY DEF ServerInv
<1> QED
  BY <1>1, ServerInit, ServerNextInv, PTL DEF Spec, SafetySpec

\* The count and the registry agree with the coroutines that exist.
THEOREM ServerAccounts == Spec => []Accounting
<1>1. ServerInv => Accounting
  BY DEF ServerInv, RegistryInv
<1> QED
  BY <1>1, ServerInit, ServerNextInv, PTL DEF Spec, SafetySpec

\* No session escapes the stop request of begin_stop.
THEOREM NoEscape == Spec => []NoSessionEscapesStop
<1>1. ServerInv => NoSessionEscapesStop
  BY DEF ServerInv, RegistryInv, Accounting, SessionInv, SessionFacts,
         NoSessionEscapesStop
<1> QED
  BY <1>1, ServerInit, ServerNextInv, PTL DEF Spec, SafetySpec

\* A drain with sessions always has a timer that will end it.
THEOREM DrainAlwaysTimed == Spec => []DrainIsTimed
<1>1. ServerInv => DrainIsTimed
  BY DEF ServerInv, RegistryInv
<1> QED
  BY <1>1, ServerInit, ServerNextInv, PTL DEF Spec, SafetySpec

\* When wait() returns, no handler runs and nobody is left unforced.
THEOREM WaitIsSound == Spec => []WaitMeansDrained
<1>1. ASSUME ServerInv
      PROVE  WaitMeansDrained
  <2>1. ASSUME owner = "returned"
        PROVE  Busy = {} /\ (context # "stopped" => active = 0)
    <3>1. live = 0 /\ Cardinality(Busy) = 0 /\ IsFiniteSet(Busy)
      BY <1>1, <2>1, BusyFinite DEF ServerInv, ThreadInv
    <3>2. Busy = {}
      BY <3>1, FS_EmptySet
    <3>3. context # "stopped" => registered = {}
      BY <1>1, <3>1 DEF ServerInv, ServerTypeOK, ThreadInv
    <3> QED
      BY <1>1, <3>2, <3>3, FS_EmptySet DEF ServerInv, RegistryInv, Accounting
  <2> QED
    BY <1>1, <2>1 DEF WaitMeansDrained, ServerInv, RegistryInv, Forced
<1> QED
  BY <1>1, ServerInit, ServerNextInv, PTL DEF Spec, SafetySpec

\* In the server too, a session serves at most one request after it was asked to
\* stop, none is left waiting for a request to begin, and no response is cut off
\* before force_stop.
THEOREM ServerSessionsAreSafe ==
    Spec => [](AtMostOneLateRequest /\ NoIdleReadAfterStop /\ GracefulSparesResponses)
<1>1. ServerInv => AtMostOneLateRequest /\ NoIdleReadAfterStop /\ GracefulSparesResponses
  BY SessionInvSafe DEF ServerInv, ServerTypeOK
<1> QED
  BY <1>1, ServerInit, ServerNextInv, PTL DEF Spec, SafetySpec

-----------------------------------------------------------------------------
(* Refinement.  Mode is a CASE over the owner, started_ and begin_stop; the *)
(* lemmas give its value where a step starts or ends.                       *)

\* Mode tells whether the server is down, idle, forced, draining or serving.
LEMMA ModeOf ==
    ASSUME ControlInv
    PROVE  /\ owner = "returned" => Mode = "down"
           /\ ~started => Mode = "idle"
           /\ started /\ owner # "returned" /\ ForceUsed => Mode = "forced"
           /\ started /\ owner # "returned" /\ ~ForceUsed /\ stopJob = "done"
                 => Mode = "draining"
           /\ started /\ owner # "returned" /\ ~ForceUsed /\ stopJob # "done"
                 => Mode = "serving"
BY DEF Mode, ControlInv

\* What Mode depends on.
LEMMA ModeUnchanged ==
    ASSUME ForceUsed' <=> ForceUsed,
           owner' = "returned" <=> owner = "returned",
           started' = started, stopJob' = "done" <=> stopJob = "done"
    PROVE  Mode' = Mode
BY DEF Mode

\* A session's own step uses no force.
LEMMA ForceUsedFrame ==
    ASSUME TypeOK, NEW s \in Session, SessionStep(s)
    PROVE  ForceUsed' <=> ForceUsed
<1>1. \A t \in Session : Forced(t)' <=> Forced(t)
  BY SessionStepFrame
<1>2. ForceUsed <=> \E t \in Session : Forced(t)
  BY DEF ForceUsed, Forced
<1>3. ForceUsed' <=> \E t \in Session : Forced(t)'
  BY DEF ForceUsed, Forced
<1> QED
  BY <1>1, <1>2, <1>3

\* Every step of the server is a step of Lifecycle or changes nothing of it.
LEMMA StepRefines ==
    ASSUME ServerInv, ServerInv', [Next]_vars
    PROVE  [Promise!LifecycleNext]_<<Mode, registered>>
<1> DEFINE Abstract == [Promise!LifecycleNext]_<<Mode, registered>>
<1>1. ControlInv /\ ControlInv' /\ registered \subseteq Session
  BY DEF ServerInv, ServerTypeOK
<1>2. ASSUME UNCHANGED <<cancelled, inbox, registered>>,
             owner' = "returned" <=> owner = "returned",
             started' = started, stopJob' = "done" <=> stopJob = "done"
      PROVE  Abstract
  <2>1. ForceUsed' <=> ForceUsed
    BY <1>2 DEF ForceUsed
  <2> QED
    BY <1>2, <2>1, ModeUnchanged
<1>3. CASE Start
  <2>1. Mode = "idle" /\ ~started
    BY <1>1, <1>3, ModeOf DEF Start, ControlInv
  <2>2. Mode' = "serving"
    <3>1. ~ForceUsed'
      BY <1>1, <1>3, <2>1
         DEF Start, ServerInv, RegistryInv, ControlInv, ForceUsed, Forced, sessionVars
    <3>2. started' /\ owner' # "returned" /\ stopJob' # "done"
      BY <1>1, <1>3, <2>1 DEF Start, ControlInv, shutdownVars
    <3> QED
      BY <1>1, <3>1, <3>2 DEF Mode
  <2> QED
    BY <1>3, <2>1, <2>2 DEF Start, countVars, Promise!LifecycleNext, Promise!Open
<1>4. CASE Launch \/ CallStop \/ Unwind
  <2>1. stopJob' = "done" <=> stopJob = "done"
    BY <1>1, <1>4 DEF Launch, CallStop, Unwind, StopCall, ControlInv
  <2> QED
    BY <1>2, <1>4, <2>1 DEF Launch, CallStop, Unwind, countVars, sessionVars
<1>5. CASE Join
  <2>1. started /\ owner # "returned" /\ live = 0
    BY <1>1, <1>5 DEF Join, ControlInv
  <2>2. Mode \in {"serving", "draining", "forced"}
    BY <1>1, <2>1, ModeOf
  <2>3. registered = {} \/ Mode = "forced"
    <3>1. CASE context = "stopped" /\ registered # {}
      <4>1. ForceUsed
        BY <1>1, <3>1 DEF ServerInv, RegistryInv, ForceUsed, Forced
      <4> QED
        BY <1>1, <2>1, <4>1, ModeOf
    <3>2. CASE context # "stopped"
      BY <2>1, <3>2 DEF ServerInv, ServerTypeOK, ThreadInv
    <3> QED
      BY <3>1, <3>2
  <2>4. Mode' = "down" /\ UNCHANGED registered
    BY <1>5, <2>1 DEF Join, Mode, countVars
  <2> QED
    BY <2>2, <2>3, <2>4 DEF Promise!LifecycleNext, Promise!Down
<1>6. CASE \/ Exhaust \/ WorkerExit \/ Expire \/ Kill
          \/ AcceptStart \/ Arrive \/ AcceptEnd \/ AcceptError
  BY <1>2, <1>6 DEF Exhaust, WorkerExit, Expire, Kill, AcceptStart, Arrive, AcceptEnd,
                    AcceptError, ownerVars, countVars, shutdownVars, sessionVars
<1>7. ASSUME WorkerFree
      PROVE  started /\ owner # "returned"
  <2>1. live # 0
    BY <1>7, FreeWorkerLives, WorkersAssumption DEF ServerInv, ServerTypeOK
  <2> QED
    BY <1>1, <2>1 DEF ServerInv, ThreadInv, ControlInv
<1>8. ASSUME NEW s \in Session, Accept(s)
      PROVE  Abstract
  <2>1. started /\ owner # "returned" /\ stopJob # "done"
    BY <1>1, <1>7, <1>8 DEF Accept, ControlInv
  <2>2. ~ForceUsed
    BY <2>1 DEF ServerInv, RegistryInv, ForceUsed, Forced
  <2>3. s \notin registered /\ registered' = registered \cup {s}
    BY <1>8 DEF Accept, Spawn, ServerInv, RegistryInv, Accounting, Live
  <2>4. Mode' = Mode
    <3>1. ForceUsed' <=> ForceUsed
      BY <1>8 DEF Accept, Spawn, stopVars, ForceUsed
    <3> QED
      BY <1>8, <3>1, ModeUnchanged DEF Accept, ownerVars, shutdownVars
  <2>5. Mode = "serving"
    BY <1>1, <2>1, <2>2, ModeOf
  <2> QED
    BY <2>3, <2>4, <2>5 DEF Promise!LifecycleNext, Promise!Admit
<1>9. CASE BeginStop
  <2>1. started /\ owner # "returned" /\ stopJob # "done" /\ WorkerFree
    BY <1>7, <1>9 DEF BeginStop
  <2>2. ~ForceUsed
    BY <2>1 DEF ServerInv, RegistryInv, ForceUsed, Forced
  <2>3. ~ForceUsed'
    <3>1. \A s \in Session : "forced" \in inbox'[s] <=> "forced" \in inbox[s]
      BY <1>9 DEF BeginStop, RequestStop
    <3> QED
      BY <1>9, <2>2, <3>1 DEF BeginStop, RequestStop, ForceUsed
  <2>4. Mode = "serving"
    BY <1>1, <2>1, <2>2, ModeOf
  <2>5. Mode' = "draining"
    <3>1. started' /\ owner' # "returned" /\ stopJob' = "done"
      BY <1>9, <2>1 DEF BeginStop, ownerVars
    <3> QED
      BY <2>3, <3>1 DEF Mode
  <2> QED
    BY <1>9, <2>4, <2>5 DEF BeginStop, countVars, Promise!LifecycleNext, Promise!Drain
<1>10. CASE ForceStop
  <2>1. started /\ owner # "returned" /\ stopJob = "done"
    BY <1>1, <1>7, <1>10 DEF ForceStop, ControlInv
  <2>2. CASE registered = {}
    <3>1. UNCHANGED <<cancelled, inbox>>
      BY <1>10, <2>2 DEF ForceStop, RequestStop, ServerInv, ServerTypeOK, TypeOK
    <3> QED
      BY <1>2, <1>10, <3>1 DEF ForceStop, ownerVars, countVars
  <2>3. CASE registered # {}
    <3>1. ForceUsed'
      <4>1. PICK s \in registered : TRUE
        BY <2>3
      <4>2. s \in Session /\ "forced" \in inbox'[s]
        BY <1>1, <1>10, <4>1 DEF ForceStop, RequestStop
      <4> QED
        BY <4>2 DEF ForceUsed
    <3>2. started' /\ owner' # "returned"
      BY <1>10, <2>1 DEF ForceStop, ownerVars
    <3>3. Mode' = "forced" /\ UNCHANGED registered
      BY <1>1, <1>10, <3>1, <3>2 DEF Mode, ControlInv, ForceStop, countVars
    <3>4. Mode \in {"draining", "forced"}
      BY <1>1, <2>1, ModeOf
    <3> QED
      BY <2>3, <3>3, <3>4 DEF Promise!LifecycleNext, Promise!Force
  <2> QED
    BY <2>2, <2>3
<1>11. ASSUME NEW s \in Session, SessionComplete(s)
       PROVE  Abstract
  <2>1. started /\ owner # "returned"
    BY <1>7, <1>11 DEF SessionComplete
  <2>2. s \in registered /\ registered' = registered \ {s}
    BY <1>11 DEF SessionComplete, Retire, ServerInv, RegistryInv, Accounting, Live
  <2>3. Mode' = Mode
    <3>1. ForceUsed' <=> ForceUsed
      BY <1>11 DEF SessionComplete, Retire, stopVars, ForceUsed
    <3> QED
      BY <1>11, <3>1, ModeUnchanged DEF SessionComplete, ownerVars
  <2>4. Mode \in {"serving", "draining", "forced"}
    BY <1>1, <2>1, ModeOf
  <2> QED
    BY <2>2, <2>3, <2>4 DEF Promise!LifecycleNext, Promise!Leave
<1>12. ASSUME NEW s \in Session, SessionStep(s), UNCHANGED serverVars
       PROVE  Abstract
  <2>1. ForceUsed' <=> ForceUsed
    BY <1>12, ForceUsedFrame DEF ServerInv, ServerTypeOK
  <2>2. Mode' = Mode
    BY <1>12, <2>1, ModeUnchanged DEF serverVars
  <2> QED
    BY <1>12, <2>2 DEF serverVars
<1>13. CASE UNCHANGED vars
  BY <1>2, <1>13 DEF vars, serverVars, sessionVars
<1>14. CASE \E s \in Session : HandlerReturn(s) \/ StrandJob(s) \/ IoDone(s) \/ TimedOut(s)
  BY <1>12, <1>14 DEF HandlerReturn, StrandJob, IoDone, TimedOut, SessionStep
<1> QED
  BY <1>3, <1>4, <1>5, <1>6, <1>8, <1>9, <1>10, <1>11, <1>13, <1>14 DEF Next

\* The server implements the safety of Lifecycle: it admits nobody once it
\* drains, and is down only when all have left or force was used.
THEOREM ServerRefinesLifecycle == Spec => KeepsLifecycle
<1>1. Init => Promise!LifecycleInit
  BY DEF Init, Mode, Promise!LifecycleInit
<1>2. ServerInv /\ ServerInv' /\ [Next]_vars
         => [Promise!LifecycleNext]_<<Mode, registered>>
  BY StepRefines
<1> QED
  BY <1>1, <1>2, ServerInit, ServerNextInv, PTL
     DEF Spec, SafetySpec, KeepsLifecycle, Promise!LifecycleSafety, Promise!abstractVars

\* Composed with the accept loop, the timers and the workers, every connection of the server
\* still keeps what Connection promises its client.
THEOREM ServerImplementsConnection == Spec => KeepsConnection
<1>1. Init => Protocol!ConnectionInit
  BY DEF Init, InitSession, Protocol!ConnectionInit, TurnOf, StopOf
<1>2. ASSUME ServerInv, [Next]_vars PROVE ConnectionStep
  <2>1. TypeOK /\ SessionInv /\ registered \in SUBSET Session
    BY <1>2 DEF ServerInv, ServerTypeOK
  <2>2. CASE UNCHANGED sessionVars
    BY <2>2, NothingShows
  <2>3. CASE BeginStop \/ ForceStop
    <3>1. Protocol!Stop(registered)
      BY <2>1, <2>3, RequestMaps DEF BeginStop, ForceStop, Stop
    <3>2. QED
      BY <3>1, <2>1 DEF ConnectionStep, Protocol!ConnectionNext
  <2>4. ASSUME NEW s \in Session, \/ Accept(s) \/ SessionComplete(s) \/ HandlerReturn(s)
                                  \/ StrandJob(s) \/ IoDone(s) \/ TimedOut(s)
        PROVE  ConnectionStep
    <3>1. Spawn(s) \/ Retire(s) \/ SessionStep(s)
      BY <2>4 DEF Accept, SessionComplete, HandlerReturn, StrandJob, IoDone, TimedOut, SessionStep
    <3>2. QED
      BY <2>1, <3>1, SpawnMaps, StepMaps, MapsToStep
  <2>5. CASE \/ Start \/ Launch \/ CallStop \/ Unwind \/ Join \/ Exhaust \/ WorkerExit
             \/ AcceptStart \/ Arrive \/ AcceptEnd \/ AcceptError \/ Expire \/ Kill
    BY <2>2, <2>5 DEF Start, Launch, CallStop, Unwind, Join, Exhaust, WorkerExit, AcceptStart,
                      Arrive, AcceptEnd, AcceptError, Expire, Kill
  <2>6. CASE UNCHANGED vars
    BY <2>2, <2>6 DEF vars
  <2>7. QED
    BY <1>2, <2>3, <2>4, <2>5, <2>6 DEF Next
<1>3. QED
  BY <1>1, <1>2, ServerInit, ServerNextInv, PTL
     DEF Spec, SafetySpec, KeepsConnection, Protocol!Promise, ConnectionStep

=============================================================================
